----------------------------- MODULE SafeRegister -----------------------------
(***************************************************************************)
(* What a block of memory shared by one writer and one reader promises when *)
(* no lock guards it: Lamport's safe register.  A read that no write        *)
(* overlaps returns the value written last; a read that one overlaps may    *)
(* return anything.  The reader prints what it read unless it is empty.     *)
(***************************************************************************)
CONSTANTS
    Values,    \* what is written
    Results,   \* what a read can return
    Empty      \* the value before the first write

VARIABLES
    value,       \* the value written last
    writing,     \* a write has begun and not ended
    reading,     \* a read has begun and not ended
    overlapped,  \* a write was in progress at some time during this read
    printed      \* what the reader printed last

vars == <<value, writing, reading, overlapped, printed>>

Init ==
    /\ value = Empty
    /\ writing = FALSE
    /\ reading = FALSE
    /\ overlapped = FALSE
    /\ printed = Empty

WriteBegin ==
    /\ ~ writing
    /\ writing' = TRUE
    /\ overlapped' = reading
    /\ UNCHANGED <<value, reading, printed>>

WriteEnd(v) ==
    /\ writing
    /\ writing' = FALSE
    /\ value' = v
    /\ UNCHANGED <<reading, overlapped, printed>>

ReadBegin ==
    /\ ~ reading
    /\ reading' = TRUE
    /\ overlapped' = writing
    /\ UNCHANGED <<value, writing, printed>>

ReadEnd(r) ==
    /\ reading
    /\ reading' = FALSE
    /\ overlapped' = FALSE
    /\ overlapped \/ r = value
    /\ printed' = IF r = Empty THEN printed ELSE r
    /\ UNCHANGED <<value, writing>>

Next ==
    \/ WriteBegin
    \/ \E v \in Values : WriteEnd(v)
    \/ ReadBegin
    \/ \E r \in Results : ReadEnd(r)

Spec == Init /\ [][Next]_vars
=============================================================================
