--------------------------- MODULE ParallelConfig ---------------------------
(***************************************************************************)
(* How the slot arrays of the maxparallel limiter are allocated.  The web  *)
(* interface writes the settings field by field into the live reader and   *)
(* only then applies reader_fixups_fn (through write_server); every loop   *)
(* over the arrays takes its bounds from the current settings, not from    *)
(* what was allocated.  Factors are in hundredths.                         *)
(***************************************************************************)
EXTENDS Integers

CONSTANTS
    MaxSetting,   \* largest maxparallel a user enters
    Factors       \* the factors a user enters, in hundredths

VARIABLES
    maxparallel,     \* rdr->maxparallel
    parallelfactor,  \* rdr->parallelfactor, in hundredths
    slots,           \* size of rdr->parallel_slots, 0: not allocated
    slots_prov,      \* size of rdr->parallel_slots_prov, 0: not allocated
    saving           \* a save wrote settings and has not run the fixups

vars == <<maxparallel, parallelfactor, slots, slots_prov, saving>>

----------------------------------------------------------------------------
\* parallelfactor_fn on the text of f: the digits after the separator are read
\* as one number and divided by ten, whatever their count ("1.25" is 1 + 2.5).
\* A trailing zero is not written.
Parse(f) ==
    LET int == f \div 100
        dec == f % 100
    IN  int * 100 + 10 * (IF dec % 10 = 0 THEN dec \div 10 ELSE dec)

\* round(maxparallel * parallelfactor), as reader_fixups_fn computes it
Rounded(n, f) == (n * f + 50) \div 100

----------------------------------------------------------------------------
Init ==
    /\ maxparallel = 0 /\ parallelfactor = 150
    /\ slots = 0 /\ slots_prov = 0
    /\ saving = FALSE

\* chk_reader for one field of the form
SetMaxparallel(n) ==
    /\ maxparallel' = n
    /\ saving' = TRUE
    /\ UNCHANGED <<parallelfactor, slots, slots_prov>>

SetParallelfactor(f) ==
    /\ parallelfactor' = Parse(f)
    /\ saving' = TRUE
    /\ UNCHANGED <<maxparallel, slots, slots_prov>>

\* reader_fixups_fn, limiter on.  The allocation of either array may fail:
\* the limiter is then switched off and the first array is freed.
FixupsOn ==
    /\ saving /\ maxparallel > 0
    /\ \/ slots = 0
          /\ slots' = maxparallel
          /\ slots_prov' = Rounded(maxparallel, parallelfactor)
          /\ UNCHANGED maxparallel
       \/ slots = 0
          /\ maxparallel' = 0
          /\ UNCHANGED <<slots, slots_prov>>
       \/ slots > 0
          /\ UNCHANGED <<maxparallel, slots, slots_prov>>
    /\ saving' = FALSE
    /\ UNCHANGED parallelfactor

\* reader_fixups_fn, limiter off: the arrays are freed
FixupsOff ==
    /\ saving /\ maxparallel = 0
    /\ slots' = 0 /\ slots_prov' = 0
    /\ saving' = FALSE
    /\ UNCHANGED <<maxparallel, parallelfactor>>

Next ==
    \/ \E n \in 0 .. MaxSetting : SetMaxparallel(n)
    \/ \E f \in Factors : SetParallelfactor(f)
    \/ FixupsOn
    \/ FixupsOff

Spec == Init /\ [][Next]_vars

----------------------------------------------------------------------------
\* reader_fixups_fn: "Size changes require NCam restart to take effect".  So a
\* limit raised above the allocated size is not in force, and no loop over the
\* active array (they run to maxparallel) passes its end.
RaisedSizeNeedsRestart == ~saving /\ slots > 0 => maxparallel <= slots
============================================================================
