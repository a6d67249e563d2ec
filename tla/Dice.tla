--------------------------------- MODULE Dice --------------------------------
(***************************************************************************)
(* The character device of Labs/l9/src/dice.c: a write sets the number of   *)
(* dice, a read rolls that many into a buffer of BUF_LEN characters.  The   *)
(* number is shared by all who have the device open, and neither call takes *)
(* a lock.  Of the text only the length and the newlines are modelled.      *)
(***************************************************************************)
EXTENDS Naturals, FiniteSets

CONSTANTS Readers,   \* the open files
          BUF_LEN,
          MaxDice,   \* bound: the largest number that is written
          MaxReads,  \* bound: how many reads begin
          MaxWrites  \* bound: how many writes succeed

ASSUME DiceAssumption ==
  BUF_LEN \in Nat \ {0} /\ MaxDice \in Nat /\ MaxReads \in Nat /\ MaxWrites \in Nat

VARIABLES ndice,     \* dice_device.ndice
          dPc, dI, dPos,   \* where each dice_read is, its i and pos
          dPpos,     \* *ppos of the file
          dLines,    \* the positions in kbuf behind a newline
          dSeen,     \* history: the values of ndice since the read began
          dReads, dWrites

dVars == <<ndice, dPc, dI, dPos, dPpos, dLines, dSeen, dReads, dWrites>>
-----------------------------------------------------------------------------
\* dice_write of a positive number; anything else is refused and changes nothing.
dice_write ==
  /\ dWrites < MaxWrites /\ dWrites' = dWrites + 1
  /\ ndice' \in 1..MaxDice
  /\ dSeen' = [r \in Readers |-> dSeen[r] \cup {ndice'}]
  /\ UNCHANGED <<dPc, dI, dPos, dPpos, dLines, dReads>>

\* dice_read, up to its loop; a second read of the same file is at the end.
dice_read(r) ==
  /\ dPc[r] \in {"idle", "done"} /\ dReads < MaxReads /\ dReads' = dReads + 1
  /\ dPpos[r] = 0
  /\ dPc' = [dPc EXCEPT ![r] = "loop"]
  /\ dI' = [dI EXCEPT ![r] = 0] /\ dPos' = [dPos EXCEPT ![r] = 0]
  /\ dLines' = [dLines EXCEPT ![r] = {}]
  /\ dSeen' = [dSeen EXCEPT ![r] = {ndice}]
  /\ UNCHANGED <<ndice, dPpos, dWrites>>

LoopTest(r) ==
  /\ dPc[r] = "loop"
  /\ dPc' = [dPc EXCEPT ![r] = IF dI[r] < ndice THEN "print" ELSE "copy"]
  /\ UNCHANGED <<ndice, dI, dPos, dPpos, dLines, dSeen, dReads, dWrites>>

\* scnprintf writes what fits before the terminating zero: a digit, and a newline
\* or a space, chosen by another look at ndice.

\* A plausible bug: snprintf, which returns the length it would have needed.
writtenWithoutLimit(pos) == 2

written(pos) == IF BUF_LEN - pos - 1 < 2 THEN BUF_LEN - pos - 1 ELSE 2

PrintDie(r) ==
  LET n == written(dPos[r])
  IN  /\ dPc[r] = "print" /\ dPc' = [dPc EXCEPT ![r] = "loop"]
      /\ dPos' = [dPos EXCEPT ![r] = @ + n]
      /\ dI' = [dI EXCEPT ![r] = @ + 1]
      /\ dLines' = IF n = 2 /\ dI[r] = ndice - 1
                   THEN [dLines EXCEPT ![r] = @ \cup {dPos[r] + 2}] ELSE dLines
      /\ UNCHANGED <<ndice, dPpos, dSeen, dReads, dWrites>>

\* copy_to_user fails and leaves *ppos, or the read returns pos characters.
CopyToUser(r) ==
  /\ dPc[r] = "copy" /\ dPc' = [dPc EXCEPT ![r] = "done"]
  /\ \/ dPpos' = [dPpos EXCEPT ![r] = @ + dPos[r]]
     \/ UNCHANGED dPpos
  /\ UNCHANGED <<ndice, dI, dPos, dLines, dSeen, dReads, dWrites>>

\* dice_release and dice_open: another file, which begins at 0.
dice_open(r) ==
  /\ dPc[r] = "done" /\ dPpos[r] > 0
  /\ dPpos' = [dPpos EXCEPT ![r] = 0]
  /\ UNCHANGED <<ndice, dPc, dI, dPos, dLines, dSeen, dReads, dWrites>>

DiceIdle ==
  /\ ndice = 1 /\ dPc = [r \in Readers |-> "idle"] /\ dReads = 0 /\ dWrites = 0
  /\ dI = [r \in Readers |-> 0] /\ dPos = [r \in Readers |-> 0]
  /\ dPpos = [r \in Readers |-> 0]
  /\ dLines = [r \in Readers |-> {}] /\ dSeen = [r \in Readers |-> {}]
DiceNext ==
  \/ dice_write
  \/ \E r \in Readers : \/ dice_read(r) \/ LoopTest(r) \/ PrintDie(r)
                        \/ CopyToUser(r) \/ dice_open(r)
DiceSpec == DiceIdle /\ [][DiceNext]_dVars
-----------------------------------------------------------------------------
Least(a, b) == IF a < b THEN a ELSE b

\* A read stays within kbuf.  If nobody writes meanwhile it gives one line with
\* as many dice as were asked for, or, when that is too long, all that fits and
\* no newline; otherwise the length still is one of those that the numbers seen
\* call for, but the newline may be missing or come early (dice.c:75-80).
ReadGivesTheDice ==
  \A r \in Readers :
    /\ dPos[r] < BUF_LEN
    /\ dPc[r] \in {"copy", "done"} /\ dReads > 0 =>
         /\ Cardinality(dSeen[r]) = 1 =>
              \A n \in dSeen[r] :
                /\ dPos[r] = Least(2 * n, BUF_LEN - 1)
                /\ dLines[r] = IF 2 * n < BUF_LEN THEN {2 * n} ELSE {}
         /\ \E n \in dSeen[r] : dPos[r] >= Least(2 * n, BUF_LEN - 1)
         /\ \E n \in dSeen[r] : dPos[r] <= Least(2 * n, BUF_LEN - 1)
=============================================================================
