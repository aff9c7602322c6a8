--------------------------- MODULE FirmwareStore ---------------------------
(***************************************************************************)
(* What a firmware update promises, whatever becomes of its requests and   *)
(* of the programs that send them: a slot holds a beginning of the file    *)
(* that was announced for it, the device runs a file only when a slot held *)
(* all of it, and a program that is told of success gave this very file.   *)
(* A resumable slot loses none of this but all at once.                    *)
(***************************************************************************)
EXTENDS Naturals

CONSTANTS
  Files, Size,
  Slots,
  Resumable,  \* the slots that an upload may be continued in, a subset of Slots
  Nothing     \* no file

VARIABLES
  held,       \* per slot: the file announced for it and how many bytes of it are there
  image,      \* the file that was flashed last
  wanted,     \* the file of the program that runs
  reported    \* it was told that its file was flashed

storeVars == <<held, image, wanted, reported>>

\* The bytes in the slot are the beginning of no one file.
Mixed == [file |-> Nothing, bytes |-> 0]

Init ==
  /\ held = [s \in Slots |-> Nothing]
  /\ image = Nothing /\ wanted = Nothing /\ reported = FALSE

-----------------------------------------------------------------------------
(* The program *)

Begin(f) ==
  /\ wanted = Nothing /\ wanted' = f
  /\ UNCHANGED <<held, image, reported>>

Succeed ==
  /\ wanted # Nothing /\ image = wanted
  /\ reported' = TRUE
  /\ UNCHANGED <<held, image, wanted>>

\* It returns, gives up or is killed.
End ==
  /\ wanted' = Nothing /\ reported' = FALSE
  /\ UNCHANGED <<held, image>>

-----------------------------------------------------------------------------
(* The slots *)

Hold(s, content) ==
  /\ UNCHANGED <<image, wanted, reported>>
  /\ held' = [held EXCEPT ![s] = content]

\* The same file announced again for a resumable slot takes nothing from it.
Announce(s, f) ==
  /\ s \in Resumable => held[s] = Nothing \/ held[s].file # f
  /\ Hold(s, [file |-> f, bytes |-> 0])

Grow(s) ==
  /\ held[s] # Nothing /\ held[s].file # Nothing
  /\ \E n \in held[s].bytes..Size[held[s].file] : Hold(s, [held[s] EXCEPT !.bytes = n])

\* Only in a slot that is never resumed may bytes of two files meet.
Spoil(s) == s \notin Resumable /\ held[s] # Nothing /\ Hold(s, Mixed)

Drop(dropped) ==
  /\ UNCHANGED <<image, wanted, reported>>
  /\ held' = [s \in Slots |-> IF s \in dropped THEN Nothing ELSE held[s]]

\* Late requests flash nothing but the file that success was reported of.
Flash(s) ==
  /\ UNCHANGED <<wanted, reported>>
  /\ held[s] # Nothing /\ held[s].file # Nothing
  /\ held[s].bytes = Size[held[s].file]
  /\ reported => held[s].file = wanted
  /\ image' = held[s].file
  /\ UNCHANGED held \/ held' = [held EXCEPT ![s] = Nothing]

-----------------------------------------------------------------------------
Next ==
  \/ \E f \in Files : Begin(f)
  \/ Succeed
  \/ End
  \/ \E dropped \in SUBSET Slots : Drop(dropped)
  \/ \E s \in Slots : Grow(s) \/ Spoil(s) \/ Flash(s) \/ \E f \in Files : Announce(s, f)

Spec == Init /\ [][Next]_storeVars
=============================================================================
