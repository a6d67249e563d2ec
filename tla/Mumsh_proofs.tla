----------------------------- MODULE Mumsh_proofs -----------------------------
(***************************************************************************)
(* Proofs about Mumsh for any pipelines of any number of stages, any number *)
(* of lines, Ctrl+C and failing calls, and either semantics of signal().    *)
(***************************************************************************)
EXTENDS Mumsh, Integers, SequenceTheorems, FiniteSetTheorems, TLAPS

\* What a line may leave in cmd.
Commands == Pipelines \cup {<<"brief">>}

LEMMA CommandsHaveStages ==
  \A stages \in Commands : /\ stages \in Seq({"brief", "filter", "writer"})
                           /\ Len(stages) \in 1..MaxStages
<1>1. <<"brief">> \in Seq({"brief", "filter", "writer"}) /\ Len(<<"brief">>) = 1
  OBVIOUS
<1>2. 1 \in 1..MaxStages
  BY MumshAssumption
<1> TAKE stages \in Commands
<1>3. CASE stages \in Pipelines
  BY <1>3, MumshAssumption
<1>4. CASE stages = <<"brief">>
  BY <1>1, <1>2, <1>4
<1> QED BY <1>3, <1>4 DEF Commands

\* The types that MumshTypeOK leaves to the shape of the values.
Shapes ==
  /\ cmd \in Seq(Commands) /\ faults \in Seq({"pipe", "fork", "read"})
  /\ presses \in Nat /\ shown \in 0..2 /\ stale \in BOOLEAN

TypeInv == MumshTypeOK /\ Shapes

LEMMA StagesHaveLength ==
  ASSUME TypeInv, line > 0
  PROVE  Stages \in Commands /\ Len(Stages) \in 1..MaxStages
<1>1. line \in 1..Len(cmd)
  BY MumshAssumption DEF TypeInv, MumshTypeOK
<1> QED BY <1>1, CommandsHaveStages DEF TypeInv, Shapes, Stages

LEMMA TypeInit == Init => TypeInv
<1> SUFFICES ASSUME Init PROVE TypeInv
  OBVIOUS
<1>1. Len(cmd) = 0 /\ cmd \in Seq(Commands) /\ faults \in Seq({"pipe", "fork", "read"})
  BY DEF Init
<1>2. kids \in [Kid -> {"none", "forked", "running", "doomed", "zombie", "reaped"}]
      /\ \A k \in Kid : kids[k] = "none"
  BY DEF Init
<1>3. line \in 0..MaxLines /\ line = 0
  BY MumshAssumption DEF Init
<1>4. Shapes
  <2>1. presses = 0 /\ shown = 0 /\ stale = FALSE
    BY DEF Init
  <2>2. presses \in Nat /\ shown \in 0..2
    BY <2>1
  <2>3. stale \in BOOLEAN
    BY <2>1, Zenon
  <2> QED BY <1>1, <2>2, <2>3 DEF Shapes
<1>5. open = {} /\ pc = "prompt" /\ errno = "0" /\ dialect \in Dialects
  BY DEF Init
<1>6. pending \subseteq {"INT", "CHLD"} /\ handler \subseteq {"INT", "CHLD"}
  BY DEF Init
<1>7. MumshTypeOK
  BY <1>1, <1>2, <1>3, <1>5, <1>6 DEF MumshTypeOK
<1> QED BY <1>4, <1>7 DEF TypeInv

LEMMA ReapType ==
  ASSUME TypeInv, NEW k \in Kid, Reap(k), pc \in {"wait", "blocked"}
  PROVE  TypeInv'
<1> USE DEF TypeInv, MumshTypeOK, Shapes
<1>1. UNCHANGED <<dialect, line, cmd, open, leaked, faults, errno, pending, handler,
                  shown, stale, presses>>
  BY DEF Reap, signalVars
<1>2. /\ kids' \in [Kid -> {"none", "forked", "running", "doomed", "zombie", "reaped"}]
      /\ \A kk \in Kid : kids'[kk] # "none" => kids[kk] # "none"
  BY DEF Reap
<1>3. Stages' = Stages /\ Len(Stages) \in 1..MaxStages
  BY <1>1, StagesHaveLength DEF Stages
<1>4. pc' \in {"wait", "prompt"} /\ (pc' = "wait" => i' \in 1..Len(Stages))
  BY <1>3 DEF Reap
<1> QED BY <1>1, <1>2, <1>3, <1>4

LEMMA TypeStep == TypeInv /\ [Next]_vars => TypeInv'
<1> SUFFICES ASSUME TypeInv, [Next]_vars PROVE TypeInv'
  OBVIOUS
<1> USE DEF TypeInv, MumshTypeOK, Shapes
<1>1. CASE Prompt
  BY <1>1 DEF Prompt, At, More, shellVars, Stages
<1>2. CASE ReadLine
  <2>1. PICK stages \in Commands :
          /\ cmd' = Append(cmd, stages)
          /\ pc' \in {"prompt", "pipe"} /\ (pc' = "pipe" => i' = 1)
    BY <1>2 DEF ReadLine, Commands
  <2>2. /\ line' = line + 1 /\ line' \in 1..MaxLines
        /\ UNCHANGED <<dialect, kids, open, leaked, pending, handler, faults, presses>>
    BY <1>2, MumshAssumption DEF ReadLine
  <2>3. /\ cmd' \in Seq(Commands) /\ Len(cmd') = line' /\ Stages' = stages
        /\ \A l \in 1..line : cmd'[l] = cmd[l]
    BY <2>1, <2>2, MumshAssumption DEF Stages
  <2>4. Len(stages) \in 1..MaxStages
    BY CommandsHaveStages
  <2>5. /\ errno' \in {"0", "interrupted", "EINTR", "nochild", "other"}
        /\ shown' = 0 /\ stale' \in BOOLEAN /\ open = {}
    BY <1>2 DEF ReadLine, At
  <2>6. \A k \in Kid : kids[k] # "none" =>
           k[1] <= line' /\ k[2] <= Len(cmd'[k[1]])
    BY <2>2, <2>3, MumshAssumption DEF Kid
  <2>7. pc' = "pipe" => i' \in 1..Len(Stages')
    BY <2>1, <2>3, <2>4
  <2>8. Shapes'
    BY <2>2, <2>3, <2>5
  <2>9. pc' \in {"prompt", "pipe"} /\ line' \in 0..MaxLines /\ line' > 0
    BY <2>1, <2>2
  <2>10. MumshTypeOK'
    BY <2>2, <2>3, <2>5, <2>6, <2>7, <2>9
  <2> QED BY <2>8, <2>10
<1>3. CASE Exit
  BY <1>3 DEF Exit, At, signalVars, shellVars, Stages
<1>4. CASE MakePipe
  <2>1. Len(Stages) \in 1..MaxStages
    BY <1>4, StagesHaveLength DEF MakePipe, At
  <2>2. /\ UNCHANGED <<dialect, line, cmd, kids, pending, handler, shown, stale, presses>>
        /\ Stages' = Stages
    BY <1>4 DEF MakePipe, Stages
  <2>3. faults' \in Seq({"pipe", "fork", "read"})
    BY <1>4 DEF MakePipe
  <2>4. /\ pc' \in {"pipe", "fork", "prompt"}
        /\ pc' # "prompt" => i' \in 1..Len(Stages)
        /\ pc' = "prompt" => open' = {}
        /\ errno' \in {errno, "other"}
    BY <1>4, <2>1 DEF MakePipe, At
  <2> QED BY <1>4, <2>2, <2>3, <2>4 DEF At, MakePipe
<1>5. CASE Fork
  <2>1. Len(Stages) \in 1..MaxStages /\ <<line, i>> \in Kid
    BY <1>5, StagesHaveLength, MumshAssumption DEF Fork, At, Kid
  <2>2. /\ UNCHANGED <<dialect, line, cmd, pending, handler, shown, stale, presses>>
        /\ Stages' = Stages
    BY <1>5 DEF Fork, Stages
  <2>3. faults' \in Seq({"pipe", "fork", "read"})
    <3>1. faults' = faults \/ faults' = Append(faults, "fork")
      BY <1>5 DEF Fork
    <3> QED BY <3>1
  <2>4. /\ pc' \in {"close", "fork", "prompt"}
        /\ pc' # "prompt" => i' \in 1..Len(Stages)
        /\ pc' = "prompt" => open' = {}
        /\ errno' \in {errno, "other"}
    BY <1>5, <2>1 DEF Fork, At, openAfterFailedFork
  <2>5. /\ kids' \in [Kid -> {"none", "forked", "running", "doomed", "zombie", "reaped"}]
        /\ \A k \in Kid : kids'[k] # "none" => k[1] <= line /\ k[2] <= Len(cmd[k[1]])
    <3>1. \/ kids' = kids
          \/ kids' = [kids EXCEPT ![<<line, i>>] = "forked"] /\ i \in 1..Len(Stages)
      BY <1>5 DEF Fork, At
    <3>2. /\ <<line, i>>[1] = line /\ <<line, i>>[2] = i
          /\ line <= line /\ i \in 1..Len(Stages) => i <= Len(cmd[line])
      BY <2>1, MumshAssumption DEF Stages
    <3>3. ASSUME NEW k \in Kid, kids'[k] # "none"
          PROVE  k[1] <= line /\ k[2] <= Len(cmd[k[1]])
      <4>1. CASE k = <<line, i>>
        <5>1. CASE kids' = kids
          BY <3>3, <5>1
        <5>2. CASE i \in 1..Len(Stages)
          BY <4>1, <5>2, <3>2
        <5> QED BY <5>1, <5>2, <3>1
      <4>2. CASE k # <<line, i>>
        BY <3>1, <3>3, <4>2
      <4> QED BY <4>1, <4>2
    <3>4. kids' \in [Kid -> {"none", "forked", "running", "doomed", "zombie", "reaped"}]
      BY <2>1, <3>1
    <3> QED BY <3>3, <3>4
  <2> QED BY <1>5, <2>2, <2>3, <2>4, <2>5 DEF At, Fork
<1>6. CASE ClosePipes
  <2>1. Len(Stages) \in 1..MaxStages
    BY <1>6, StagesHaveLength DEF ClosePipes, At
  <2> QED BY <1>6, <2>1 DEF ClosePipes, At, signalVars, Stages
<1>7. CASE Wait
  <2>1. CASE \E k \in Kid : Reap(k)
    BY <1>7, <2>1, ReapType DEF Wait, At
  <2>2. CASE ~\E k \in Kid : Reap(k)
    <3>1. /\ UNCHANGED <<kids, shellVars, pending, handler, shown, stale>>
          /\ pc = "wait" /\ pc' \in {"blocked", "prompt"}
          /\ errno' \in {errno, "nochild"}
      BY <1>7, <2>2 DEF Wait, At, signalVars
    <3> QED BY <3>1 DEF shellVars, Stages
  <2> QED BY <2>1, <2>2
<1>8. CASE WaitReturns
  BY <1>8, ReapType DEF WaitReturns
<1>9. CASE SigintHandler \/ SigchldHandler
  <2>1. PICK sig \in {"INT", "CHLD"} : Delivered(sig)
    BY <1>9 DEF SigintHandler, SigchldHandler
  <2>2. /\ UNCHANGED <<dialect, line, cmd, open, leaked, faults, presses, stale>>
        /\ pending' \subseteq pending /\ Stages' = Stages
        /\ pc \notin {"exited", "killed"}
    BY <1>9, <2>1 DEF Delivered, SigintHandler, SigchldHandler, Stages
  <2>3. handler' \subseteq handler /\ shown' \in 0..2
    BY <1>9 DEF SigintHandler, SigchldHandler, More, shownByHandler
  <2>4. /\ kids' \in [Kid -> {"none", "forked", "running", "doomed", "zombie", "reaped"}]
        /\ \A k \in Kid : kids'[k] # "none" => kids[k] # "none"
    BY <1>9 DEF SigintHandler, SigchldHandler
  <2>5. \/ pc' = pc /\ i' = i
        \/ pc = "read" /\ pc' = "prompt"
        \/ pc = "blocked" /\ i' = i /\ pc' \in {"wait", "prompt"}
    BY <1>9 DEF SigintHandler, SigchldHandler, Cut, NotCut, turnAfterEINTR
  <2>6. errno' \in {errno, "EINTR", "interrupted"}
    BY <1>9 DEF SigintHandler, SigchldHandler, Cut, NotCut
  <2> QED BY <2>2, <2>3, <2>4, <2>5, <2>6
<1>10. CASE SigintDefault
  BY <1>10 DEF SigintDefault, Delivered, Stages
<1>11. CASE SigchldDefault
  BY <1>11 DEF SigchldDefault, Delivered, Stages
<1>12. CASE Interrupt
  <2>1. /\ UNCHANGED <<dialect, pc, line, cmd, i, open, leaked, faults, errno, handler, stale>>
        /\ pending' = pending \cup {"INT"} /\ presses' = presses + 1
        /\ shown' \in 0..2
    BY <1>12 DEF Interrupt, More
  <2>2. /\ kids' \in [Kid -> {"none", "forked", "running", "doomed", "zombie", "reaped"}]
        /\ \A k \in Kid : kids'[k] # "none" => kids[k] # "none"
    BY <1>12 DEF Interrupt
  <2> QED BY <2>1, <2>2 DEF Stages
<1>13. ASSUME NEW k \in Kid, Child(k) PROVE TypeInv'
  <2>1. /\ UNCHANGED <<pc, errno, handler, shown, stale, shellVars>>
        /\ pending' \subseteq pending \cup {"CHLD"}
    BY <1>13 DEF Child, SetupChild, EndChild
  <2>2. /\ kids' \in [Kid -> {"none", "forked", "running", "doomed", "zombie", "reaped"}]
        /\ \A kk \in Kid : kids'[kk] # "none" => kids[kk] # "none"
    BY <1>13 DEF Child, SetupChild, EndChild
  <2> QED BY <2>1, <2>2 DEF shellVars, Stages
<1>14. CASE UNCHANGED vars
  BY <1>14 DEF vars, Stages
<1>15. CASE ReadFails
  BY <1>15 DEF ReadFails, At, More, Stages
<1> HIDE DEF TypeInv
<1> QED
  BY <1>1, <1>2, <1>3, <1>4, <1>5, <1>6, <1>7, <1>8, <1>9, <1>10, <1>11, <1>12,
     <1>13, <1>14, <1>15
  DEF Next, Shell, Signals

LEMMA TypeInvariant == Spec => []TypeInv
BY TypeInit, TypeStep, PTL DEF Spec

\* The variables have their types and the loops of execute_pipeline stay within
\* their pipeline.
THEOREM MumshTypeCorrect == Spec => []MumshTypeOK
BY TypeInvariant, PTL DEF TypeInv
-----------------------------------------------------------------------------
\* Children.  Those that nobody has waited for are at most as many as the turns
\* that the loop of wait() has still to take; so the two that reap, that loop and
\* the handler of SIGCHLD, cannot leave one between them.
Left == {k \in Kid : kids[k] \notin {"none", "reaped"}}
Turns ==
  IF pc = "fork" THEN i - 1
  ELSE IF pc = "close" THEN Len(Stages)
  ELSE IF pc \in {"wait", "blocked"} THEN Len(Stages) - i + 1
  ELSE 0
FewLeft == pc # "killed" /\ ~Failed("fork") => Cardinality(Left) <= Turns

LEMMA LeftIsFinite ==
  /\ IsFiniteSet(Left) /\ Cardinality(Left) \in Nat
  /\ \A S \in SUBSET Left : Cardinality(S) <= Cardinality(Left)
<1>1. IsFiniteSet(Kid)
  <2>1. IsFiniteSet(1..MaxLines) /\ IsFiniteSet(1..MaxStages)
    BY FS_Interval, MumshAssumption
  <2> QED BY <2>1, FS_Product DEF Kid
<1>2. IsFiniteSet(Left)
  BY <1>1, FS_Subset DEF Left
<1> QED BY <1>2, FS_Subset, FS_CardinalityType

LEMMA OneMore ==
  ASSUME NEW S, IsFiniteSet(S), NEW x
  PROVE  /\ IsFiniteSet(S \cup {x})
         /\ Cardinality(S \cup {x}) <= Cardinality(S) + 1
<1>1. Cardinality(S) \in Nat
  BY FS_CardinalityType
<1>2. /\ IsFiniteSet(S \cup {x})
      /\ \/ Cardinality(S \cup {x}) = Cardinality(S)
         \/ Cardinality(S \cup {x}) = Cardinality(S) + 1
  BY FS_AddElement
<1> QED BY <1>1, <1>2

LEMMA FailuresStay ==
  ASSUME TypeInv, [Next]_vars, NEW call, Failed(call)
  PROVE  Failed(call)'
<1>1. faults \in Seq({"pipe", "fork", "read"})
  BY DEF TypeInv, Shapes
<1>2. \/ faults' = faults
      \/ faults' = Append(faults, "pipe")
      \/ faults' = Append(faults, "fork")
      \/ faults' = Append(faults, "read")
  BY DEF Next, Shell, Prompt, MakePipe, Fork, ClosePipes, Wait, WaitReturns, Reap,
         ReadLine, ReadFails, Exit, Signals, SigintHandler, SigintDefault, SigchldHandler,
         SigchldDefault, Delivered, Interrupt, Child, SetupChild, EndChild,
         shellVars, vars
<1>3. PICK n \in DOMAIN faults : faults[n] = call
  BY DEF Failed
<1>4. n \in DOMAIN faults' /\ faults'[n] = call
  BY <1>1, <1>2, <1>3
<1> QED BY <1>4 DEF Failed

LEMMA ReapFew ==
  ASSUME TypeInv, NEW k \in Kid, Reap(k), pc \in {"wait", "blocked"},
         ~Failed("fork"), FewLeft
  PROVE  Cardinality(Left') <= Turns'
<1>1. Left' = Left \ {k} /\ k \in Left
  BY DEF Reap, Left, TypeInv, MumshTypeOK
<1>2. Cardinality(Left') = Cardinality(Left) - 1
  BY <1>1, LeftIsFinite, FS_RemoveElement
<1>3. Stages' = Stages /\ Len(Stages) \in Nat /\ i \in Nat
  <2>1. Len(Stages) \in 1..MaxStages
    BY StagesHaveLength DEF TypeInv, MumshTypeOK
  <2> QED BY <2>1 DEF Reap, Stages, TypeInv, MumshTypeOK
<1>4. Cardinality(Left) <= Len(Stages) - i + 1
  BY DEF FewLeft, Turns
<1>5. Turns' = IF i < Len(Stages) THEN Len(Stages) - i ELSE 0
  BY <1>3 DEF Reap, Turns
<1>6. i <= Len(Stages)
  BY DEF TypeInv, MumshTypeOK
<1> QED BY <1>2, <1>3, <1>4, <1>5, <1>6, LeftIsFinite

LEMMA FewLeftInit == Init => FewLeft
<1> SUFFICES ASSUME Init PROVE FewLeft
  OBVIOUS
<1>1. Left = {}
  BY DEF Init, Left
<1>2. Turns = 0
  BY DEF Init, Turns
<1> QED BY <1>1, <1>2, FS_EmptySet DEF FewLeft

LEMMA FewLeftStep == TypeInv /\ FewLeft /\ [Next]_vars => FewLeft'
<1> SUFFICES ASSUME TypeInv, FewLeft, [Next]_vars,
                    pc' # "killed", ~Failed("fork")'
             PROVE  Cardinality(Left') <= Turns'
  BY DEF FewLeft
<1>a. ~Failed("fork")
  BY FailuresStay
<1>b. ASSUME Left' \subseteq Left, Turns' = Turns, pc # "killed"
      PROVE  Cardinality(Left') <= Turns'
  <2>1. Turns \in Int
    <3>1. line > 0 => Len(Stages) \in Nat
      BY StagesHaveLength
    <3> QED BY <3>1, <1>b DEF Turns, TypeInv, MumshTypeOK
  <2>2. Cardinality(Left') \in Nat /\ Cardinality(Left') <= Cardinality(Left)
    BY <1>b, LeftIsFinite, FS_Subset, FS_CardinalityType
  <2> QED BY <1>a, <1>b, <2>1, <2>2, LeftIsFinite DEF FewLeft
<1>c. pc # "killed"
  BY DEF Next, Shell, Prompt, MakePipe, Fork, ClosePipes, Wait, WaitReturns, Reap,
         ReadLine, ReadFails, Exit, Signals, SigintHandler, SigintDefault, SigchldHandler,
         SigchldDefault, Delivered, Interrupt, Child, SetupChild, EndChild, At, vars
<1>1. CASE Prompt
  BY <1>1, <1>b, <1>c DEF Prompt, At, Left, Turns
<1>2. CASE ReadLine
  BY <1>2, <1>b, <1>c DEF ReadLine, At, Left, Turns
<1>3. CASE Exit
  BY <1>3, <1>b, <1>c DEF Exit, At, Left, Turns
<1>4. CASE MakePipe
  <2>1. Left' = Left /\ Turns = 0
    BY <1>4 DEF MakePipe, At, Left, Turns
  <2>2. Turns' = 0
    BY <1>4 DEF MakePipe, At, Turns
  <2> QED BY <2>1, <2>2, <1>b, <1>c
<1>5. CASE Fork
  <2>1. CASE kids' = [kids EXCEPT ![<<line, i>>] = "forked"] /\ UNCHANGED faults
    <3>1. Left' \subseteq Left \cup {<<line, i>>}
      BY <2>1 DEF Left, TypeInv, MumshTypeOK
    <3>2. /\ IsFiniteSet(Left \cup {<<line, i>>})
          /\ Cardinality(Left \cup {<<line, i>>}) <= Cardinality(Left) + 1
      BY LeftIsFinite, OneMore
    <3>3. Cardinality(Left') \in Nat /\ Cardinality(Left') <= Cardinality(Left) + 1
      <4>1. /\ IsFiniteSet(Left')
            /\ Cardinality(Left') <= Cardinality(Left \cup {<<line, i>>})
        BY <3>1, <3>2, FS_Subset
      <4> QED BY <4>1, <3>2, LeftIsFinite, FS_CardinalityType
    <3>4. /\ Stages' = Stages /\ Len(Stages) \in Nat /\ i \in 1..Len(Stages)
          /\ pc = "fork"
      BY <1>5, StagesHaveLength DEF Fork, At, Stages, TypeInv, MumshTypeOK
    <3>5. Cardinality(Left) <= i - 1
      BY <1>a, <3>4 DEF FewLeft, Turns
    <3>6. Turns' = i
      BY <1>5, <2>1, <3>4 DEF Fork, Turns
    <3> QED BY <3>3, <3>4, <3>5, <3>6, LeftIsFinite
  <2>2. CASE faults' = Append(faults, "fork")
    <3>1. Len(faults) + 1 \in DOMAIN faults' /\ faults'[Len(faults) + 1] = "fork"
      BY <2>2 DEF TypeInv, Shapes
    <3> QED BY <3>1 DEF Failed
  <2> QED BY <1>5, <2>1, <2>2 DEF Fork
<1>6. CASE ClosePipes
  <2>1. Stages' = Stages /\ Len(Stages) \in Nat
    BY <1>6, StagesHaveLength DEF ClosePipes, At, Stages, TypeInv, MumshTypeOK
  <2>2. Turns' = Turns
    BY <1>6, <2>1 DEF ClosePipes, At, Turns
  <2> QED BY <1>6, <2>2, <1>b, <1>c DEF ClosePipes, Left
<1>7. CASE Wait
  <2>1. CASE \E k \in Kid : Reap(k)
    BY <1>7, <2>1, <1>a, ReapFew DEF Wait, At
  <2>2. CASE pc = "wait" /\ pc' = "blocked" /\ UNCHANGED <<kids, shellVars>>
    <3>1. Left' = Left /\ Turns' = Turns
      BY <2>2 DEF Left, Turns, Stages, shellVars
    <3> QED BY <3>1, <1>b, <1>c
  <2>3. CASE /\ \A k \in Kid : ~Alive(k) /\ kids[k] # "zombie"
             /\ pc' = "prompt" /\ UNCHANGED kids
    <3>1. Left' = {}
      BY <2>3 DEF Left, Alive, TypeInv, MumshTypeOK
    <3>2. Turns' = 0
      BY <2>3 DEF Turns
    <3> QED BY <3>1, <3>2, FS_EmptySet
  <2> QED BY <1>7, <2>1, <2>2, <2>3 DEF Wait, At
<1>8. CASE WaitReturns
  BY <1>8, <1>a, ReapFew DEF WaitReturns
<1>9. CASE SigintHandler \/ SigchldHandler
  <2>1. Left' \subseteq Left
    BY <1>9 DEF SigintHandler, SigchldHandler, Left, TypeInv, MumshTypeOK
  <2>2. Stages' = Stages
    BY <1>9 DEF SigintHandler, SigchldHandler, Delivered, Stages
  <2>3. i' = i
    BY <1>9 DEF SigintHandler, SigchldHandler, Cut, NotCut, turnAfterEINTR
  <2>4. \/ pc' = pc
        \/ pc = "read" /\ pc' = "prompt"
        \/ pc = "blocked" /\ pc' = IF i > Len(Stages) THEN "prompt" ELSE "wait"
    BY <1>9 DEF SigintHandler, SigchldHandler, Cut, NotCut, turnAfterEINTR
  <2>5. pc = "blocked" => i <= Len(Stages) /\ i \in Nat /\ Len(Stages) \in Nat
    BY StagesHaveLength DEF TypeInv, MumshTypeOK
  <2>6. Turns' = Turns
    BY <2>2, <2>3, <2>4, <2>5 DEF Turns
  <2> QED BY <2>1, <2>6, <1>b, <1>c
<1>10. CASE SigintDefault
  BY <1>10 DEF SigintDefault
<1>11. CASE SigchldDefault
  <2>1. Left' = Left /\ Turns' = Turns
    BY <1>11 DEF SigchldDefault, Delivered, Left, Turns, Stages
  <2> QED BY <2>1, <1>b, <1>c
<1>12. CASE Interrupt
  <2>1. Left' \subseteq Left
    BY <1>12 DEF Interrupt, Left
  <2>2. Turns' = Turns
    BY <1>12 DEF Interrupt, Turns, Stages
  <2> QED BY <2>1, <2>2, <1>b, <1>c
<1>13. ASSUME NEW k \in Kid, Child(k) PROVE Cardinality(Left') <= Turns'
  <2>1. Left' \subseteq Left
    BY <1>13 DEF Child, SetupChild, EndChild, Left, TypeInv, MumshTypeOK
  <2>2. Turns' = Turns
    BY <1>13 DEF Child, SetupChild, EndChild, shellVars, Turns, Stages
  <2> QED BY <2>1, <2>2, <1>b, <1>c
<1>14. CASE UNCHANGED vars
  BY <1>14, <1>b, <1>c DEF vars, Left, Turns, Stages
<1>15. CASE ReadFails
  BY <1>15, <1>b, <1>c DEF ReadFails, At, Left, Turns
<1> QED
  BY <1>1, <1>2, <1>3, <1>4, <1>5, <1>6, <1>7, <1>8, <1>9, <1>10, <1>11, <1>12,
     <1>13, <1>14, <1>15
  DEF Next, Shell, Signals

\* Unless a fork() failed, no child is left when the prompt comes back
\* (main.c:28-33, 139-149).
THEOREM NoChildIsLeft == Spec => []NoChildAtThePrompt
<1>1. TypeInv /\ FewLeft => NoChildAtThePrompt
  <2> SUFFICES ASSUME TypeInv, FewLeft, pc \in {"prompt", "read"}, ~Failed("fork")
               PROVE  Left = {}
    BY DEF NoChildAtThePrompt, Left
  <2>1. Turns = 0
    BY DEF Turns
  <2>2. Cardinality(Left) = 0
    BY <2>1, LeftIsFinite DEF FewLeft
  <2> QED BY <2>2, LeftIsFinite, FS_EmptySet
<1> QED BY <1>1, FewLeftInit, FewLeftStep, TypeInvariant, PTL DEF Spec
-----------------------------------------------------------------------------
\* Pipes.  The shell has pipes open only while it makes a pipeline, and those it
\* forgets were open when a pipe() failed.
LeakedByPipe == leaked > 0 => Failed("pipe")

\* A pipe that the shell still has open at the prompt was made before a pipe()
\* that failed (main.c:73-78, 84-88).
THEOREM OnlyFailedPipesLeak == Spec => []OnlyAFailedPipeLeaks
<1>1. Init => LeakedByPipe
  BY DEF Init, LeakedByPipe
<1>2. TypeInv /\ LeakedByPipe /\ [Next]_vars => LeakedByPipe'
  <2> SUFFICES ASSUME TypeInv, LeakedByPipe, [Next]_vars PROVE LeakedByPipe'
    OBVIOUS
  <2> USE DEF LeakedByPipe
  <2>1. CASE UNCHANGED <<leaked, faults>>
    BY <2>1 DEF Failed
  <2>2. CASE /\ leaked' = leaked
             /\ \/ faults' = Append(faults, "fork")
                \/ faults' = Append(faults, "read")
    <3>1. \A n \in DOMAIN faults : n \in DOMAIN faults' /\ faults'[n] = faults[n]
      BY <2>2 DEF TypeInv, Shapes
    <3> QED BY <2>2, <3>1 DEF Failed
  <2>3. CASE /\ leaked' = leaked + Cardinality(open)
             /\ faults' = Append(faults, "pipe") /\ open' = {} /\ MakePipe
    <3>1. Len(faults) + 1 \in DOMAIN faults' /\ faults'[Len(faults) + 1] = "pipe"
      BY <2>3 DEF TypeInv, Shapes
    <3>2. Failed("pipe")'
      BY <3>1 DEF Failed
    <3> QED BY <3>2
  <2>4. \/ UNCHANGED <<leaked, faults>>
        \/ /\ leaked' = leaked
           /\ \/ faults' = Append(faults, "fork")
              \/ faults' = Append(faults, "read")
        \/ /\ leaked' = leaked + Cardinality(open)
           /\ faults' = Append(faults, "pipe") /\ open' = {} /\ MakePipe
    BY DEF Next, Shell, Prompt, MakePipe, Fork, ClosePipes, Wait, WaitReturns, Reap,
           ReadLine, ReadFails, Exit, Signals, SigintHandler, SigintDefault, SigchldHandler,
           SigchldDefault, Delivered, Interrupt, Child, SetupChild, EndChild,
           shellVars, vars
  <2> QED BY <2>1, <2>2, <2>3, <2>4
<1>3. TypeInv /\ LeakedByPipe => OnlyAFailedPipeLeaks
  BY DEF TypeInv, MumshTypeOK, LeakedByPipe, OnlyAFailedPipeLeaks
<1> QED BY <1>1, <1>2, <1>3, TypeInvariant, PTL DEF Spec
-----------------------------------------------------------------------------
\* The prompt.  The mark of Ctrl+C in errno means that its handler has shown one,
\* or that the mark is older than the line; and a shell that met no Ctrl+C and
\* restarts its calls shows one prompt, when it begins to read, until a read fails.
PromptInv ==
  /\ errno = "interrupted" => shown > 0 \/ stale
  /\ pc = "read" => (shown = 0 => stale)
  /\ presses = 0 => "INT" \notin pending /\ errno # "interrupted"
  /\ presses = 0 /\ dialect = "bsd" /\ ~Failed("read") =>
       shown = IF pc \in {"read", "exited"} THEN 1 ELSE 0

\* Whenever the shell reads, a prompt is on the screen, unless a Ctrl+C before the
\* last line left its mark in errno; without Ctrl+C or a failing read there is
\* exactly one (main.c:21-26, 189-216).
THEOREM PromptIsShown == Spec => []APromptIsShown
<1>1. Init => PromptInv
  BY DEF Init, PromptInv
<1>2. TypeInv /\ PromptInv /\ [Next]_vars => PromptInv'
  <2> SUFFICES ASSUME TypeInv, PromptInv, [Next]_vars PROVE PromptInv'
    OBVIOUS
  <2>a. shown \in 0..2 /\ presses \in Nat
    BY DEF TypeInv, Shapes
  <2>b. Failed("read") => Failed("read")'
    BY FailuresStay
  <2> USE <2>a, <2>b DEF PromptInv
  <2>1. CASE Prompt
    <3>1. errno = "interrupted" /\ stale => stale'
      BY <2>1, Zenon DEF Prompt
    <3>2. /\ UNCHANGED <<dialect, presses, pending>> /\ pc = "prompt" /\ pc' = "read"
          /\ errno = "interrupted" => errno' = "0" /\ shown' = shown
          /\ errno # "interrupted" => errno' = errno /\ shown' = More(shown)
      BY <2>1 DEF Prompt, At, shellVars
    <3> QED BY <3>1, <3>2 DEF More
  <2>2. CASE ReadLine
    BY <2>2 DEF ReadLine, At
  <2>3. CASE Exit
    BY <2>3 DEF Exit, At, signalVars, shellVars
  <2>4. CASE MakePipe
    BY <2>4 DEF MakePipe, At
  <2>5. CASE Fork
    BY <2>5 DEF Fork, At
  <2>6. CASE ClosePipes
    BY <2>6 DEF ClosePipes, At, signalVars
  <2>7. CASE Wait
    BY <2>7 DEF Wait, At, Reap, signalVars, shellVars
  <2>8. CASE WaitReturns
    BY <2>8 DEF WaitReturns, Reap, signalVars
  <2>9. CASE SigintHandler
    <3>1. presses # 0
      BY <2>9 DEF SigintHandler, Delivered
    <3>2. presses' = presses /\ shown' > 0
      BY <2>9 DEF SigintHandler, Delivered, shownByHandler, More
    <3> QED BY <3>1, <3>2
  <2>10. CASE SigintDefault
    BY <2>10 DEF SigintDefault, Delivered
  <2>11. CASE SigchldHandler
    <3>1. /\ UNCHANGED <<dialect, presses, shown, stale>> /\ pending' \subseteq pending
          /\ pc \notin {"exited", "killed"}
      BY <2>11 DEF SigchldHandler, Delivered
    <3>2. \/ errno' = "EINTR" /\ dialect = "sysv" /\ pc' # "read"
          \/ errno' = errno /\ pc' = pc
      BY <2>11 DEF SigchldHandler, Cut, NotCut
    <3> QED BY <3>1, <3>2
  <2>12. CASE SigchldDefault
    BY <2>12 DEF SigchldDefault, Delivered
  <2>13. CASE Interrupt
    BY <2>13 DEF Interrupt, More
  <2>14. ASSUME NEW k \in Kid, Child(k) PROVE PromptInv'
    BY <2>14 DEF Child, SetupChild, EndChild, shellVars
  <2>15. CASE UNCHANGED vars
    BY <2>15 DEF vars
  <2>16. CASE ReadFails
    <3>1. Len(faults) + 1 \in DOMAIN faults' /\ faults'[Len(faults) + 1] = "read"
      BY <2>16 DEF ReadFails, TypeInv, Shapes
    <3>2. Failed("read")'
      BY <3>1 DEF Failed
    <3> QED BY <2>16, <3>2 DEF ReadFails, At, More
  <2> HIDE DEF PromptInv
  <2> QED
    BY <2>1, <2>2, <2>3, <2>4, <2>5, <2>6, <2>7, <2>8, <2>9, <2>10, <2>11, <2>12,
       <2>13, <2>14, <2>15, <2>16
    DEF Next, Shell, Signals
<1>3. PromptInv => APromptIsShown
  BY DEF PromptInv, APromptIsShown
<1> QED BY <1>1, <1>2, <1>3, TypeInvariant, PTL DEF Spec
=============================================================================
