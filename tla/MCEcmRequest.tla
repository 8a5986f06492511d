---------------------------- MODULE MCEcmRequest ----------------------------
(* Readers and control words to model-check EcmRequest with. *)
EXTENDS EcmRequest
CONSTANTS local, proxy, fallback, cacheex, cw1, cw2
AllReaders == {local, proxy, fallback}
NoReaders == {}
Locals == {local}
Fallbacks == {fallback}
Cacheexs == {cacheex}
CacheexAndProxy == {cacheex, proxy}
Proxies == {proxy}
LocalAndProxy == {local, proxy}
No == {FALSE}
Yes == {TRUE}
NoOrYes == BOOLEAN
OneCw == {cw1}
TwoCws == {cw1, cw2}
============================================================================
