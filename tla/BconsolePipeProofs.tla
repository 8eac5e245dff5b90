------------------------- MODULE BconsolePipeProofs -------------------------
(***************************************************************************)
(* Proofs about BconsolePipe, for pipes, commands and answers of any size, *)
(* and with every fault.                                                   *)
(*                                                                         *)
(* Which ends of a call's pipes are open follows from where vchanger is    *)
(* and from the state of that call's bconsole (OpenByState).  So a read    *)
(* that ends says that this bconsole is gone and has printed all it will.  *)
(***************************************************************************)
EXTENDS BconsolePipe, TLAPS

ParentHas(e) ==
    IF e = "inRead" THEN {"stdout", "fork", "started"}
    ELSE IF e = "inWrite"
    THEN {"stdout", "fork", "started", "select", "write", "newline", "close"}
    ELSE IF e = "outRead"
    THEN {"fork", "started", "select", "write", "newline", "close", "wait", "read"}
    ELSE {"fork", "started"}

ChildHas(e) ==
    IF e \in {"inRead", "outWrite"} THEN {"forked", "running", "copy"} ELSE {"forked"}

OpenByState ==
    \A c \in Command, e \in End :
        /\ <<"vchanger", c, e>> \in open <=> c = command /\ pc \in ParentHas(e)
        /\ \A p \in Command : <<p, c, e>> \in open <=> p = c /\ child[c] \in ChildHas(e)

(* A call has a child from fork() on.  When it returns the child is gone,  *)
(* or the call has failed.                                                 *)
ChildByState ==
    /\ \A c \in todo : child[c] = "none" /\ c \notin ran
    /\ command \in todo => pc = "issue"
    /\ pc \in {"stdin", "stdout", "fork"} => child[command] = "none"
    /\ pc \notin {"issue", "done", "stdin", "stdout", "fork"} => child[command] # "none"
    /\ \A c \in Command :
           Gone(c) \/ result[c] = "error" \/ (c = command /\ pc \notin {"issue", "done"})

(* Nothing that bconsole prints gets lost on the way, and one that exits   *)
(* with 0 has printed its answer.                                          *)
OutputAccount ==
    /\ received + output[command] = printed[command]
    /\ \A c \in Command : printed[c] <= answer[c]
    /\ \A c \in Command : child[c] = "none" => printed[c] = 0 /\ output[c] = 0
    /\ \A c \in ran : child[c] \notin {"none", "forked", "copy"}
    /\ \A c \in ran : child[c] = "exit0" => printed[c] = answer[c]

PipeInv ==
    /\ TypeOK /\ OpenByState /\ ChildByState /\ OutputAccount
    /\ AnswerReadInFull

-----------------------------------------------------------------------------
(* vchanger is not its own child.                                          *)
LEMMA Distinct == "vchanger" \notin Command /\ NextCommand \in Command /\ "update" \in Command
BY DEF Command, NextCommand

(* The command issued next is one of those still to be issued.             *)
LEMMA NextIsToDo == todo \subseteq Command /\ todo # {} => NextCommand \in todo
BY DEF Command, NextCommand

(* The initial state satisfies the invariant.                              *)
LEMMA PipeInit == Init => PipeInv
<1> SUFFICES ASSUME Init PROVE PipeInv
  OBVIOUS
<1> USE SizesAssumption, Distinct DEF Init, None
<1>1. TypeOK
  BY DEF TypeOK, Result, ParentState, ChildState
<1>2. OpenByState
  BY DEF OpenByState, End, ParentHas, ChildHas
<1>3. ChildByState
  BY DEF ChildByState, Gone
<1>4. OutputAccount
  BY DEF OutputAccount
<1>5. AnswerReadInFull
  BY DEF AnswerReadInFull
<1> QED
  BY <1>1, <1>2, <1>3, <1>4, <1>5 DEF PipeInv

(* Every step keeps the variables in their domains.                        *)
LEMMA TypeStep == PipeInv /\ [Next]_vars => TypeOK'
<1> SUFFICES ASSUME PipeInv, [Next]_vars PROVE TypeOK'
  OBVIOUS
<1> USE SizesAssumption, Distinct DEF PipeInv, TypeOK, OutputAccount, Process, End, Result,
    ParentState, ChildState, Ends, GoTo, parent, bconsole
<1>1. CASE IssueCommand
  BY <1>1, SMTT(30) DEF IssueCommand
<1>2. CASE AllIssued
  BY <1>2, SMTT(30) DEF AllIssued
<1>3. CASE MakeStdin
  BY <1>3, SMTT(30) DEF MakeStdin, MakePipe
<1>4. CASE MakeStdout
  BY <1>4, SMTT(30) DEF MakeStdout, MakePipe
<1>5. CASE Fork
  <2>1. Inherited \in SUBSET (Process \X Command \X End)
    BY DEF Inherited
  <2>2. open' \in SUBSET (Process \X Command \X End)
    BY <1>5, <2>1 DEF Fork
  <2> QED
    BY <1>5, <2>2, SMTT(30) DEF Fork
<1>6. CASE CloseChildEnds
  BY <1>6, SMTT(30) DEF CloseChildEnds
<1>7. CASE SelectReady
  BY <1>7, SMTT(30) DEF SelectReady
<1>8. CASE SelectFails
  BY <1>8, SMTT(30) DEF SelectFails, Return, CloseBoth
<1>9. CASE WriteCommand
  BY <1>9, SMTT(30) DEF WriteCommand
<1>10. CASE WriteNewline
  BY <1>10, SMTT(30) DEF WriteNewline
<1>11. CASE WriteFails
  BY <1>11, SMTT(30) DEF WriteFails, Return, CloseBoth
<1>12. CASE CloseStdin
  BY <1>12, SMTT(30) DEF CloseStdin
<1>13. CASE WaitSucceeds
  BY <1>13, SMTT(30) DEF WaitSucceeds
<1>14. CASE WaitFails
  BY <1>14, SMTT(30) DEF WaitFails, Return, CloseStdout
<1>15. CASE WaitErrorReturns
  BY <1>15, SMTT(30) DEF WaitErrorReturns, Return, CloseStdout
<1>16. CASE WaitErrorPasses
  BY <1>16, SMTT(30) DEF WaitErrorPasses
<1>17. CASE ReadOutput
  BY <1>17, SMTT(30) DEF ReadOutput
<1>18. CASE ReadEnds
  BY <1>18, SMTT(30) DEF ReadEnds, Return, CloseStdout
<1>19. CASE ReadFails
  BY <1>19, SMTT(30) DEF ReadFails, Return, CloseStdout
<1>20. CASE OpenFails
  BY <1>20, SMTT(30) DEF OpenFails, Return, CloseAllPipes
<1>21. ASSUME NEW c \in Command, Exec(c)
      PROVE  TypeOK'
  BY <1>21, SMTT(30) DEF Exec, CloseParentEnds
<1>22. ASSUME NEW c \in Command, ExecFails(c)
      PROVE  TypeOK'
  BY <1>22, SMTT(30) DEF ExecFails, CloseParentEnds
<1>23. ASSUME NEW c \in Command, CopyEnds(c)
      PROVE  TypeOK'
  BY <1>23, SMTT(30) DEF CopyEnds, Exit
<1>24. ASSUME NEW c \in Command, ChildReads(c)
      PROVE  TypeOK'
  BY <1>24, SMTT(30) DEF ChildReads
<1>25. ASSUME NEW c \in Command, ChildPrints(c)
      PROVE  TypeOK'
  BY <1>25, SMTT(30) DEF ChildPrints
<1>26. ASSUME NEW c \in Command, ChildExits(c)
      PROVE  TypeOK'
  BY <1>26, SMTT(30) DEF ChildExits, Exit
<1>27. ASSUME NEW c \in Command, ChildCannotPrint(c)
      PROVE  TypeOK'
  BY <1>27, SMTT(30) DEF ChildCannotPrint, Exit
<1>28. ASSUME NEW c \in Command, ChildFails(c)
      PROVE  TypeOK'
  BY <1>28, SMTT(30) DEF ChildFails, Exit
<1>29. CASE UNCHANGED vars
  BY <1>29, SMTT(30) DEF vars
<1> QED
  BY <1>1, <1>2, <1>3, <1>4, <1>5, <1>6, <1>7, <1>8, <1>9, <1>10, <1>11,
     <1>12, <1>13, <1>14, <1>15, <1>16, <1>17, <1>18, <1>19, <1>20, <1>21,
     <1>22, <1>23, <1>24, <1>25, <1>26, <1>27, <1>28, <1>29
     DEF Next, Parent, Child, Fault, Opening, Writing, Waiting, Reading

(* Which ends are open after vchanger has opened some, or has closed some. *)
LEMMA Opened ==
  ASSUME OpenByState, NEW ends, UNCHANGED <<child, command>>,
         open' = open \cup Ends("vchanger", command, ends),
         \A e \in End : pc' \in ParentHas(e) <=> pc \in ParentHas(e) \/ e \in ends
  PROVE  OpenByState'
<1>1. \A p, c : \A e \in End :
         <<p, c, e>> \in open' <=>
             <<p, c, e>> \in open \/ (p = "vchanger" /\ c = command /\ e \in ends)
  BY DEF Ends
<1> QED
  <2> SUFFICES ASSUME NEW c \in Command, NEW e \in End
               PROVE  /\ <<"vchanger", c, e>> \in open' <=> c = command' /\ pc' \in ParentHas(e)
                      /\ \A p \in Command :
                             <<p, c, e>> \in open' <=> p = c /\ child'[c] \in ChildHas(e)
    BY DEF OpenByState, ParentHas, ChildHas
  <2>1. <<"vchanger", c, e>> \in open' <=> c = command' /\ pc' \in ParentHas(e)
    BY <1>1 DEF OpenByState
  <2>2. ASSUME NEW p \in Command
        PROVE  <<p, c, e>> \in open' <=> p = c /\ child'[c] \in ChildHas(e)
    <3>1. p # "vchanger"
      BY Distinct
    <3>2. <<p, c, e>> \in open' <=> <<p, c, e>> \in open
      BY <1>1, <3>1
    <3>3. <<p, c, e>> \in open <=> p = c /\ child[c] \in ChildHas(e)
      BY DEF OpenByState
    <3> QED
      BY <3>2, <3>3
  <2> QED
    BY <2>1, <2>2

LEMMA Closed ==
  ASSUME OpenByState, NEW ends, UNCHANGED <<child, command>>,
         open' = open \ Ends("vchanger", command, ends),
         \A e \in End : pc' \in ParentHas(e) <=> pc \in ParentHas(e) /\ e \notin ends
  PROVE  OpenByState'
<1>1. \A p, c : \A e \in End :
         <<p, c, e>> \in open' <=>
             <<p, c, e>> \in open /\ ~(p = "vchanger" /\ c = command /\ e \in ends)
  BY DEF Ends
<1> QED
  BY <1>1, Distinct DEF OpenByState, ChildHas

(* Every step opens and closes the ends that go with the new state.        *)
LEMMA OpenStep == PipeInv /\ [Next]_vars => OpenByState'
<1> SUFFICES ASSUME PipeInv, [Next]_vars PROVE OpenByState'
  OBVIOUS
<1>inv. /\ OpenByState
        /\ command \in Command /\ child \in [Command -> ChildState]
        /\ pc \in {"stdin", "stdout", "fork"} => child[command] = "none"
  BY DEF PipeInv, TypeOK, ChildByState
<1>1. CASE UNCHANGED vars \/ AllIssued \/ SelectReady \/ WriteCommand \/ WriteNewline
           \/ WaitSucceeds \/ WaitErrorPasses \/ ReadOutput
  <2>1. UNCHANGED <<open, child, command>>
    BY <1>1 DEF vars, parent, bconsole, AllIssued, SelectReady, WriteCommand, WriteNewline,
       WaitSucceeds, WaitErrorPasses, ReadOutput
  <2>2. \/ pc' = pc \/ (pc = "issue" /\ pc' = "done") \/ (pc = "select" /\ pc' = "write")
        \/ (pc = "write" /\ pc' = "newline") \/ (pc = "newline" /\ pc' = "close")
        \/ (pc = "wait" /\ pc' = "read")
    BY <1>1 DEF vars, parent, AllIssued, SelectReady, WriteCommand, WriteNewline,
       WaitSucceeds, WaitErrorPasses, ReadOutput, GoTo
  <2>3. \A e \in End : pc' \in ParentHas(e) <=> pc \in ParentHas(e)
    BY <2>2 DEF End, ParentHas
  <2> QED
    BY <1>inv, <2>1, <2>3 DEF OpenByState, ChildHas
<1>2. CASE IssueCommand
  <2>1. UNCHANGED <<open, child>> /\ pc = "issue" /\ pc' = "stdin"
    BY <1>2 DEF IssueCommand, GoTo, bconsole
  <2>2. \A e \in End : pc' \notin ParentHas(e) /\ pc \notin ParentHas(e)
    BY <2>1 DEF End, ParentHas
  <2> QED
    BY <1>inv, <2>1, <2>2 DEF OpenByState, ChildHas
<1>3. CASE MakeStdin
  <2>1. /\ UNCHANGED <<child, command>>
        /\ open' = open \cup Ends("vchanger", command, {"inRead", "inWrite"})
        /\ pc = "stdin" /\ pc' = "stdout"
    BY <1>3 DEF MakeStdin, MakePipe, GoTo, bconsole
  <2>2. \A e \in End :
            pc' \in ParentHas(e) <=> pc \in ParentHas(e) \/ e \in {"inRead", "inWrite"}
    BY <2>1 DEF End, ParentHas
  <2> QED
    BY <1>inv, <2>1, <2>2, Opened
<1>4. CASE MakeStdout
  <2>1. /\ UNCHANGED <<child, command>>
        /\ open' = open \cup Ends("vchanger", command, {"outRead", "outWrite"})
        /\ pc = "stdout" /\ pc' = "fork"
    BY <1>4 DEF MakeStdout, MakePipe, GoTo, bconsole
  <2>2. \A e \in End :
            pc' \in ParentHas(e) <=> pc \in ParentHas(e) \/ e \in {"outRead", "outWrite"}
    BY <2>1 DEF End, ParentHas
  <2> QED
    BY <1>inv, <2>1, <2>2, Opened
<1>5. CASE CloseChildEnds
  <2>1. /\ UNCHANGED <<child, command>>
        /\ open' = open \ Ends("vchanger", command, {"inRead", "outWrite"})
        /\ pc = "started" /\ pc' = "select"
    BY <1>5 DEF CloseChildEnds, GoTo, bconsole
  <2>2. \A e \in End :
            pc' \in ParentHas(e) <=> pc \in ParentHas(e) /\ e \notin {"inRead", "outWrite"}
    BY <2>1 DEF End, ParentHas
  <2> QED
    BY <1>inv, <2>1, <2>2, Closed
<1>6. CASE CloseStdin
  <2>1. /\ UNCHANGED <<child, command>>
        /\ open' = open \ Ends("vchanger", command, {"inWrite"})
        /\ pc = "close" /\ pc' = "wait"
    BY <1>6 DEF CloseStdin, GoTo, bconsole
  <2>2. \A e \in End :
            pc' \in ParentHas(e) <=> pc \in ParentHas(e) /\ e \notin {"inWrite"}
    BY <2>1 DEF End, ParentHas
  <2> QED
    BY <1>inv, <2>1, <2>2, Closed
<1>7. CASE OpenFails
  <2>1. /\ UNCHANGED <<child, command>>
        /\ open' = open \ Ends("vchanger", command, End)
        /\ pc' = "issue"
    BY <1>7 DEF OpenFails, Return, CloseAllPipes, bconsole
  <2>2. \A e \in End :
            pc' \in ParentHas(e) <=> pc \in ParentHas(e) /\ e \notin End
    BY <2>1 DEF End, ParentHas
  <2> QED
    BY <1>inv, <2>1, <2>2, Closed
<1>8. CASE SelectFails \/ WriteFails
  <2>1. /\ UNCHANGED <<child, command>>
        /\ open' = open \ Ends("vchanger", command, {"inWrite", "outRead"})
        /\ pc \in {"select", "write", "newline"} /\ pc' = "issue"
    BY <1>8 DEF SelectFails, WriteFails, Return, CloseBoth, bconsole
  <2>2. \A e \in End :
            pc' \in ParentHas(e) <=> pc \in ParentHas(e) /\ e \notin {"inWrite", "outRead"}
    BY <2>1 DEF End, ParentHas
  <2> QED
    BY <1>inv, <2>1, <2>2, Closed
<1>9. CASE WaitFails \/ WaitErrorReturns \/ ReadEnds \/ ReadFails
  <2>1. /\ UNCHANGED <<child, command>>
        /\ open' = open \ Ends("vchanger", command, {"outRead"})
        /\ pc \in {"wait", "read"} /\ pc' = "issue"
    BY <1>9 DEF WaitFails, WaitErrorReturns, ReadEnds, ReadFails, Return, CloseStdout, bconsole
  <2>2. \A e \in End :
            pc' \in ParentHas(e) <=> pc \in ParentHas(e) /\ e \notin {"outRead"}
    BY <2>1 DEF End, ParentHas
  <2> QED
    BY <1>inv, <2>1, <2>2, Closed
<1>10. CASE Fork
  <2>1. /\ pc = "fork" /\ pc' = "started" /\ UNCHANGED command
        /\ child' = [child EXCEPT ![command] = "forked"] /\ child[command] = "none"
        /\ open' = open \cup Inherited
    BY <1>inv, <1>10 DEF Fork, GoTo
  <2>2. \A e \in End : pc \in ParentHas(e) /\ pc' \in ParentHas(e)
    BY <2>1 DEF End, ParentHas
  <2>3. open \subseteq Process \X Command \X End
    BY DEF PipeInv, TypeOK
  <2>4. \A p : \A c \in Command, e \in End :
            <<p, c, e>> \in Inherited <=> p = command /\ <<"vchanger", c, e>> \in open
    BY <2>3 DEF Inherited
  <2>5. \A p : \A c \in Command, e \in End :
            <<p, c, e>> \in open' <=> <<p, c, e>> \in open \/ (p = command /\ c = command)
    BY <1>inv, <2>1, <2>2, <2>4 DEF OpenByState
  <2>6. \A e \in End : child[command] \notin ChildHas(e) /\ child'[command] \in ChildHas(e)
    BY <1>inv, <2>1 DEF ChildHas
  <2>7. \A c \in Command : c # command => child'[c] = child[c]
    BY <1>inv, <2>1
  <2>8. \A c \in Command, e \in End :
            <<"vchanger", c, e>> \in open' <=> c = command' /\ pc' \in ParentHas(e)
    BY <1>inv, <2>1, <2>2, <2>5, Distinct DEF OpenByState
  <2>9. ASSUME NEW p \in Command, NEW c \in Command, NEW e \in End
        PROVE  <<p, c, e>> \in open' <=> p = c /\ child'[c] \in ChildHas(e)
    <3>1. <<p, c, e>> \in open <=> p = c /\ child[c] \in ChildHas(e)
      BY <1>inv DEF OpenByState
    <3>2. CASE c = command
      BY <2>5, <2>6, <3>1, <3>2
    <3>3. CASE c # command
      BY <2>5, <2>7, <3>1, <3>3
    <3> QED
      BY <3>2, <3>3
  <2> QED
    BY <2>8, <2>9 DEF OpenByState, ChildHas
<1>11. ASSUME NEW c \in Command, Child(c) \/ ExecFails(c) \/ ChildFails(c)
       PROVE  OpenByState'
  <2>1. UNCHANGED <<pc, command>>
    BY <1>11 DEF Child, Exec, ExecFails, CopyEnds, ChildReads, ChildPrints, ChildExits,
       ChildCannotPrint, ChildFails, Exit, parent
  <2>2. CASE ChildReads(c) \/ ChildPrints(c)
    <3>1. UNCHANGED <<open, child>>
      BY <2>2 DEF ChildReads, ChildPrints, bconsole
    <3> QED
      BY <1>inv, <2>1, <3>1 DEF OpenByState, ParentHas, ChildHas
  <2>3. ASSUME NEW gone, child'[c] \in ChildState,
               \A d \in Command \ {c} : child'[d] = child[d],
               \A e \in End :
                   child'[c] \in ChildHas(e) <=> child[c] \in ChildHas(e) /\ e \notin gone,
               \A p : \A d \in Command, e \in End :
                  <<p, d, e>> \in open' <=>
                      <<p, d, e>> \in open /\ ~(p = c /\ d = c /\ e \in gone)
        PROVE  OpenByState'
    <3>1. \A d \in Command, e \in End :
              <<"vchanger", d, e>> \in open' <=> d = command' /\ pc' \in ParentHas(e)
      BY <1>inv, <2>1, <2>3, Distinct DEF OpenByState
    <3>2. ASSUME NEW p \in Command, NEW d \in Command, NEW e \in End
          PROVE  <<p, d, e>> \in open' <=> p = d /\ child'[d] \in ChildHas(e)
      <4>1. <<p, d, e>> \in open <=> p = d /\ child[d] \in ChildHas(e)
        BY <1>inv DEF OpenByState
      <4>2. CASE d = c
        BY <2>3, <4>1, <4>2
      <4>3. CASE d # c
        BY <2>3, <4>1, <4>3
      <4> QED
        BY <4>2, <4>3
    <3> QED
      BY <3>1, <3>2 DEF OpenByState, ChildHas
  <2>4. CASE Exec(c) \/ ExecFails(c)
    <3> DEFINE gone == {"inWrite", "outRead"}
    <3>1. /\ child[c] = "forked"
          /\ \/ child' = [child EXCEPT ![c] = "running"]
             \/ child' = [child EXCEPT ![c] = "copy"]
          /\ open' = open \ Ends(c, c, gone)
      BY <2>4 DEF Exec, ExecFails, CloseParentEnds
    <3>2. child'[c] \in {"running", "copy"} /\ \A d \in Command \ {c} : child'[d] = child[d]
      BY <1>inv, <3>1
    <3>3. \A e \in End : child'[c] \in ChildHas(e) <=> child[c] \in ChildHas(e) /\ e \notin gone
      BY <3>1, <3>2 DEF End, ChildHas
    <3>4. \A p : \A d \in Command, e \in End :
            <<p, d, e>> \in open' <=> <<p, d, e>> \in open /\ ~(p = c /\ d = c /\ e \in gone)
      BY <3>1 DEF Ends
    <3> HIDE DEF gone
    <3> QED
      BY <2>3, <3>2, <3>3, <3>4 DEF ChildState
  <2>5. CASE \E state \in {"exit0", "exit1", "killed"} : Exit(c, state)
    <3>1. PICK state \in {"exit0", "exit1", "killed"} :
              child' = [child EXCEPT ![c] = state] /\ open' = {e \in open : e[1] # c}
      BY <2>5 DEF Exit
    <3>2. /\ child'[c] \in {"exit0", "exit1", "killed"}
          /\ \A d \in Command \ {c} : child'[d] = child[d]
      BY <1>inv, <3>1
    <3>3. \A e \in End : child'[c] \in ChildHas(e) <=> child[c] \in ChildHas(e) /\ e \notin End
      BY <3>2 DEF ChildHas
    <3>4. \A p : \A d \in Command, e \in End :
            <<p, d, e>> \in open' <=> <<p, d, e>> \in open /\ p # c
      BY <3>1
    <3>5. \A p : \A d \in Command, e \in End :
            <<p, d, e>> \in open' <=> <<p, d, e>> \in open /\ ~(p = c /\ d = c /\ e \in End)
      BY <1>inv, <3>4 DEF OpenByState
    <3> QED
      BY <2>3, <3>2, <3>3, <3>5 DEF ChildState
  <2> QED
    BY <1>11, <2>2, <2>4, <2>5
    DEF Child, CopyEnds, ChildExits, ChildCannotPrint, ChildFails
<1> QED
  BY <1>1, <1>2, <1>3, <1>4, <1>5, <1>6, <1>7, <1>8, <1>9, <1>10, <1>11
     DEF Next, Parent, Fault, Opening, Writing, Waiting, Reading

(* A call returns when its child is gone, or fails.                        *)
LEMMA ChildStep == PipeInv /\ [Next]_vars => ChildByState'
<1> SUFFICES ASSUME PipeInv, [Next]_vars PROVE ChildByState'
  OBVIOUS
<1> USE SizesAssumption, Distinct DEF PipeInv, TypeOK, OpenByState, ChildByState, ParentHas,
    ChildHas, OutputAccount, End, Gone, ChildEnded, Has, Process, ParentState, ChildState,
    GoTo, parent, bconsole
<1>1. CASE IssueCommand
  <2>1. /\ UNCHANGED <<child, result, ran>> /\ pc = "issue" /\ pc' = "stdin"
        /\ todo' = todo \ {command'}
    BY <1>1 DEF IssueCommand
  <2>2. command' \in todo
    BY <1>1, NextIsToDo DEF IssueCommand
  <2>3. \A c \in Command : Gone(c) \/ result[c] = "error"
    BY <2>1
  <2> QED
    BY <2>1, <2>2, <2>3
<1>2. CASE AllIssued
  BY <1>2, SMTT(30) DEF AllIssued
<1>3. CASE MakeStdin
  BY <1>3, SMTT(30) DEF MakeStdin, MakePipe
<1>4. CASE MakeStdout
  BY <1>4, SMTT(30) DEF MakeStdout, MakePipe
<1>5. CASE Fork
  BY <1>5, SMTT(30) DEF Fork
<1>6. CASE CloseChildEnds
  BY <1>6, SMTT(30) DEF CloseChildEnds
<1>7. CASE SelectReady
  BY <1>7, SMTT(30) DEF SelectReady
<1>8. CASE SelectFails
  BY <1>8, SMTT(30) DEF SelectFails, Return, CloseBoth
<1>9. CASE WriteCommand
  BY <1>9, SMTT(30) DEF WriteCommand
<1>10. CASE WriteNewline
  BY <1>10, SMTT(30) DEF WriteNewline
<1>11. CASE WriteFails
  BY <1>11, SMTT(30) DEF WriteFails, Return, CloseBoth
<1>12. CASE CloseStdin
  BY <1>12, SMTT(30) DEF CloseStdin
<1>13. CASE WaitSucceeds
  BY <1>13, SMTT(30) DEF WaitSucceeds
<1>14. CASE WaitFails
  BY <1>14, SMTT(30) DEF WaitFails, Return, CloseStdout
<1>15. CASE WaitErrorReturns
  BY <1>15, SMTT(30) DEF WaitErrorReturns, Return, CloseStdout
<1>16. CASE WaitErrorPasses
  BY <1>16, SMTT(30) DEF WaitErrorPasses
<1>17. CASE ReadOutput
  BY <1>17, SMTT(30) DEF ReadOutput
<1>18. CASE ReadEnds
  <2>1. UNCHANGED <<todo, command, child, ran>> /\ pc = "read" /\ pc' = "issue"
        /\ result' = [result EXCEPT ![command] = "ok"]
    BY <1>18 DEF ReadEnds, Return
  <2>2. <<command, command, "outWrite">> \notin open
    BY <1>18 DEF ReadEnds
  <2>3. child[command] \notin {"forked", "running", "copy", "none"}
    BY <2>1, <2>2
  <2>4. Gone(command)
    BY <2>3
  <2>5. \A c \in Command \ {command} : result'[c] = result[c]
    BY <2>1
  <2>6. \A c \in Command : Gone(c) \/ result'[c] = "error"
    BY <2>1, <2>4, <2>5
  <2> QED
    BY <2>1, <2>6
<1>19. CASE ReadFails
  BY <1>19, SMTT(30) DEF ReadFails, Return, CloseStdout
<1>20. CASE OpenFails
  BY <1>20, SMTT(30) DEF OpenFails, Return, CloseAllPipes
<1>21. ASSUME NEW c \in Command, Exec(c)
      PROVE  ChildByState'
  BY <1>21, SMTT(30) DEF Exec, CloseParentEnds
<1>22. ASSUME NEW c \in Command, ExecFails(c)
      PROVE  ChildByState'
  BY <1>22, SMTT(30) DEF ExecFails, CloseParentEnds
<1>23. ASSUME NEW c \in Command, CopyEnds(c)
      PROVE  ChildByState'
  BY <1>23, SMTT(30) DEF CopyEnds, Exit
<1>24. ASSUME NEW c \in Command, ChildReads(c)
      PROVE  ChildByState'
  BY <1>24, SMTT(30) DEF ChildReads
<1>25. ASSUME NEW c \in Command, ChildPrints(c)
      PROVE  ChildByState'
  BY <1>25, SMTT(30) DEF ChildPrints
<1>26. ASSUME NEW c \in Command, ChildExits(c)
      PROVE  ChildByState'
  BY <1>26, SMTT(30) DEF ChildExits, Exit
<1>27. ASSUME NEW c \in Command, ChildCannotPrint(c)
      PROVE  ChildByState'
  <2>1. PICK state \in {"exit1", "killed"} : child' = [child EXCEPT ![c] = state]
    BY <1>27 DEF ChildCannotPrint, Exit
  <2>2. UNCHANGED <<pc, todo, command, result, ran>> /\ child[c] = "running"
    BY <1>27 DEF ChildCannotPrint, Exit
  <2>3. child'[c] \in {"exit1", "killed"} /\ \A d \in Command \ {c} : child'[d] = child[d]
    BY <2>1
  <2> QED
    BY <2>2, <2>3
<1>28. ASSUME NEW c \in Command, ChildFails(c)
      PROVE  ChildByState'
  <2>1. PICK state \in {"exit1", "killed"} : child' = [child EXCEPT ![c] = state]
    BY <1>28 DEF ChildFails, Exit
  <2>2. UNCHANGED <<pc, todo, command, result, ran>> /\ child[c] = "running"
    BY <1>28 DEF ChildFails, Exit
  <2>3. child'[c] \in {"exit1", "killed"} /\ \A d \in Command \ {c} : child'[d] = child[d]
    BY <2>1
  <2> QED
    BY <2>2, <2>3
<1>29. CASE UNCHANGED vars
  BY <1>29, SMTT(30) DEF vars
<1> QED
  BY <1>1, <1>2, <1>3, <1>4, <1>5, <1>6, <1>7, <1>8, <1>9, <1>10, <1>11,
     <1>12, <1>13, <1>14, <1>15, <1>16, <1>17, <1>18, <1>19, <1>20, <1>21,
     <1>22, <1>23, <1>24, <1>25, <1>26, <1>27, <1>28, <1>29
     DEF Next, Parent, Child, Fault, Opening, Writing, Waiting, Reading

(* What is printed is in the pipe or has been read.                        *)
LEMMA OutputStep == PipeInv /\ [Next]_vars => OutputAccount'
<1> SUFFICES ASSUME PipeInv, [Next]_vars PROVE OutputAccount'
  OBVIOUS
<1> USE SizesAssumption, Distinct DEF PipeInv, TypeOK, OutputAccount, ChildByState, GoTo,
    parent, bconsole
<1>1. CASE IssueCommand
  <2>1. UNCHANGED <<child, printed, answer, ran, output>> /\ received' = 0
    BY <1>1 DEF IssueCommand
  <2>2. command' \in todo
    BY <1>1, NextIsToDo DEF IssueCommand
  <2>3. printed[command'] = 0 /\ output[command'] = 0
    BY <2>2
  <2> QED
    BY <2>1, <2>3
<1>2. CASE AllIssued
  BY <1>2, SMTT(30) DEF AllIssued
<1>3. CASE MakeStdin
  BY <1>3, SMTT(30) DEF MakeStdin, MakePipe
<1>4. CASE MakeStdout
  BY <1>4, SMTT(30) DEF MakeStdout, MakePipe
<1>5. CASE Fork
  BY <1>5, SMTT(30) DEF Fork
<1>6. CASE CloseChildEnds
  BY <1>6, SMTT(30) DEF CloseChildEnds
<1>7. CASE SelectReady
  BY <1>7, SMTT(30) DEF SelectReady
<1>8. CASE SelectFails
  BY <1>8, SMTT(30) DEF SelectFails, Return, CloseBoth
<1>9. CASE WriteCommand
  BY <1>9, SMTT(30) DEF WriteCommand
<1>10. CASE WriteNewline
  BY <1>10, SMTT(30) DEF WriteNewline
<1>11. CASE WriteFails
  BY <1>11, SMTT(30) DEF WriteFails, Return, CloseBoth
<1>12. CASE CloseStdin
  BY <1>12, SMTT(30) DEF CloseStdin
<1>13. CASE WaitSucceeds
  BY <1>13, SMTT(30) DEF WaitSucceeds
<1>14. CASE WaitFails
  BY <1>14, SMTT(30) DEF WaitFails, Return, CloseStdout
<1>15. CASE WaitErrorReturns
  BY <1>15, SMTT(30) DEF WaitErrorReturns, Return, CloseStdout
<1>16. CASE WaitErrorPasses
  BY <1>16, SMTT(30) DEF WaitErrorPasses
<1>17. CASE ReadOutput
  BY <1>17, SMTT(30) DEF ReadOutput
<1>18. CASE ReadEnds
  BY <1>18, SMTT(30) DEF ReadEnds, Return, CloseStdout
<1>19. CASE ReadFails
  BY <1>19, SMTT(30) DEF ReadFails, Return, CloseStdout
<1>20. CASE OpenFails
  BY <1>20, SMTT(30) DEF OpenFails, Return, CloseAllPipes
<1>21. ASSUME NEW c \in Command, Exec(c)
      PROVE  OutputAccount'
  BY <1>21, SMTT(30) DEF Exec, CloseParentEnds
<1>22. ASSUME NEW c \in Command, ExecFails(c)
      PROVE  OutputAccount'
  BY <1>22, SMTT(30) DEF ExecFails, CloseParentEnds
<1>23. ASSUME NEW c \in Command, CopyEnds(c)
      PROVE  OutputAccount'
  BY <1>23, SMTT(30) DEF CopyEnds, Exit
<1>24. ASSUME NEW c \in Command, ChildReads(c)
      PROVE  OutputAccount'
  BY <1>24, SMTT(30) DEF ChildReads
<1>25. ASSUME NEW c \in Command, ChildPrints(c)
      PROVE  OutputAccount'
  BY <1>25, SMTT(30) DEF ChildPrints
<1>26. ASSUME NEW c \in Command, ChildExits(c)
      PROVE  OutputAccount'
  BY <1>26, SMTT(30) DEF ChildExits, Exit
<1>27. ASSUME NEW c \in Command, ChildCannotPrint(c)
      PROVE  OutputAccount'
  BY <1>27, SMTT(30) DEF ChildCannotPrint, Exit
<1>28. ASSUME NEW c \in Command, ChildFails(c)
      PROVE  OutputAccount'
  BY <1>28, SMTT(30) DEF ChildFails, Exit
<1>29. CASE UNCHANGED vars
  BY <1>29, SMTT(30) DEF vars
<1> QED
  BY <1>1, <1>2, <1>3, <1>4, <1>5, <1>6, <1>7, <1>8, <1>9, <1>10, <1>11,
     <1>12, <1>13, <1>14, <1>15, <1>16, <1>17, <1>18, <1>19, <1>20, <1>21,
     <1>22, <1>23, <1>24, <1>25, <1>26, <1>27, <1>28, <1>29
     DEF Next, Parent, Child, Fault, Opening, Writing, Waiting, Reading

(* The read ends only when everything printed has been read.               *)
LEMMA AnswerStep == PipeInv /\ [Next]_vars => AnswerReadInFull'
<1> SUFFICES ASSUME PipeInv, [Next]_vars PROVE AnswerReadInFull'
  OBVIOUS
<1> USE SizesAssumption, Distinct DEF PipeInv, TypeOK, AnswerReadInFull, OutputAccount,
    ChildByState, ChildEnded, OpenByState, ChildHas, End, Has, Process, ChildState, Result,
    GoTo, parent, bconsole
<1>1. CASE IssueCommand
  BY <1>1, SMTT(30) DEF IssueCommand
<1>2. CASE AllIssued
  BY <1>2, SMTT(30) DEF AllIssued
<1>3. CASE MakeStdin
  BY <1>3, SMTT(30) DEF MakeStdin, MakePipe
<1>4. CASE MakeStdout
  BY <1>4, SMTT(30) DEF MakeStdout, MakePipe
<1>5. CASE Fork
  BY <1>5, SMTT(30) DEF Fork
<1>6. CASE CloseChildEnds
  BY <1>6, SMTT(30) DEF CloseChildEnds
<1>7. CASE SelectReady
  BY <1>7, SMTT(30) DEF SelectReady
<1>8. CASE SelectFails
  BY <1>8, SMTT(30) DEF SelectFails, Return, CloseBoth
<1>9. CASE WriteCommand
  BY <1>9, SMTT(30) DEF WriteCommand
<1>10. CASE WriteNewline
  BY <1>10, SMTT(30) DEF WriteNewline
<1>11. CASE WriteFails
  BY <1>11, SMTT(30) DEF WriteFails, Return, CloseBoth
<1>12. CASE CloseStdin
  BY <1>12, SMTT(30) DEF CloseStdin
<1>13. CASE WaitSucceeds
  BY <1>13, SMTT(30) DEF WaitSucceeds
<1>14. CASE WaitFails
  BY <1>14, SMTT(30) DEF WaitFails, Return, CloseStdout
<1>15. CASE WaitErrorReturns
  BY <1>15, SMTT(30) DEF WaitErrorReturns, Return, CloseStdout
<1>16. CASE WaitErrorPasses
  BY <1>16, SMTT(30) DEF WaitErrorPasses
<1>17. CASE ReadOutput
  BY <1>17, SMTT(30) DEF ReadOutput
<1>18. CASE ReadEnds
  <2>1. UNCHANGED <<command, child, printed, answer, ran, received>> /\ pc = "read"
    BY <1>18 DEF ReadEnds
  <2>2. <<command, command, "outWrite">> \notin open /\ output[command] = 0
    BY <1>18 DEF ReadEnds
  <2>3. child[command] \notin {"forked", "running", "copy", "none"}
    BY <2>1, <2>2
  <2>4. ChildEnded(command)
    BY <2>3
  <2>5. received = printed[command]
    BY <2>2
  <2>6. command \in ran /\ child[command] = "exit0" => received = answer[command]
    BY <2>5
  <2> QED
    BY <2>1, <2>4, <2>5, <2>6
<1>19. CASE ReadFails
  BY <1>19, SMTT(30) DEF ReadFails, Return, CloseStdout
<1>20. CASE OpenFails
  BY <1>20, SMTT(30) DEF OpenFails, Return, CloseAllPipes
<1>21. ASSUME NEW c \in Command, Exec(c)
      PROVE  AnswerReadInFull'
  BY <1>21, SMTT(30) DEF Exec, CloseParentEnds
<1>22. ASSUME NEW c \in Command, ExecFails(c)
      PROVE  AnswerReadInFull'
  BY <1>22, SMTT(30) DEF ExecFails, CloseParentEnds
<1>23. ASSUME NEW c \in Command, CopyEnds(c)
      PROVE  AnswerReadInFull'
  BY <1>23, SMTT(30) DEF CopyEnds, Exit
<1>24. ASSUME NEW c \in Command, ChildReads(c)
      PROVE  AnswerReadInFull'
  BY <1>24, SMTT(30) DEF ChildReads
<1>25. ASSUME NEW c \in Command, ChildPrints(c)
      PROVE  AnswerReadInFull'
  BY <1>25, SMTT(30) DEF ChildPrints
<1>26. ASSUME NEW c \in Command, ChildExits(c)
      PROVE  AnswerReadInFull'
  BY <1>26, SMTT(30) DEF ChildExits, Exit
<1>27. ASSUME NEW c \in Command, ChildCannotPrint(c)
      PROVE  AnswerReadInFull'
  BY <1>27, SMTT(30) DEF ChildCannotPrint, Exit
<1>28. ASSUME NEW c \in Command, ChildFails(c)
      PROVE  AnswerReadInFull'
  BY <1>28, SMTT(30) DEF ChildFails, Exit
<1>29. CASE UNCHANGED vars
  BY <1>29, SMTT(30) DEF vars
<1> QED
  BY <1>1, <1>2, <1>3, <1>4, <1>5, <1>6, <1>7, <1>8, <1>9, <1>10, <1>11,
     <1>12, <1>13, <1>14, <1>15, <1>16, <1>17, <1>18, <1>19, <1>20, <1>21,
     <1>22, <1>23, <1>24, <1>25, <1>26, <1>27, <1>28, <1>29
     DEF Next, Parent, Child, Fault, Opening, Writing, Waiting, Reading

-----------------------------------------------------------------------------
(* The invariant holds in every state of every behaviour.                  *)
LEMMA Invariant == Spec => []PipeInv
<1>1. Init => PipeInv
  BY PipeInit
<1>2. PipeInv /\ [Next]_vars => PipeInv'
  BY TypeStep, OpenStep, ChildStep, OutputStep, AnswerStep DEF PipeInv
<1> QED
  BY <1>1, <1>2, PTL DEF Spec

(* The variables stay in their domains: the pipes never hold more than     *)
(* their size, and no more is read than bconsole printed.                  *)
THEOREM TypeCorrect == Spec => []TypeOK
<1>1. PipeInv => TypeOK
  BY DEF PipeInv
<1> QED
  BY <1>1, Invariant, PTL

(* On each of its returns, whatever fails, issue_bconsole_command() has    *)
(* closed the pipes, and a bconsole it leaves running belongs to a command *)
(* that was reported as failed.                                            *)
THEOREM NothingLeftBehindHolds == Spec => []NothingLeftBehind
<1>1. PipeInv => NothingLeftBehind
  <2> SUFFICES ASSUME PipeInv, pc \in {"issue", "done"}
               PROVE  /\ \A e \in open : e[1] = e[2]
                      /\ \A c \in Command : Gone(c) \/ result[c] = "error"
    BY DEF NothingLeftBehind
  <2>1. \A c \in Command : Gone(c) \/ result[c] = "error"
    BY DEF PipeInv, ChildByState
  <2>2. ASSUME NEW p \in Process, NEW c \in Command, NEW e \in End, <<p, c, e>> \in open
        PROVE  p = c
    <3>1. p # "vchanger"
      <4>1. pc \notin ParentHas(e)
        BY DEF ParentHas
      <4> QED
        BY <2>2, <4>1 DEF PipeInv, OpenByState
    <3> QED
      BY <2>2, <3>1 DEF PipeInv, OpenByState, Process
  <2>3. \A e \in open : e[1] = e[2]
    BY <2>2 DEF PipeInv, TypeOK
  <2> QED
    BY <2>1, <2>3
<1> QED
  BY <1>1, Invariant, PTL

(* A successful answer of bconsole is read to its end.                     *)
THEOREM AnswerReadInFullHolds == Spec => []AnswerReadInFull
<1>1. PipeInv => AnswerReadInFull
  BY DEF PipeInv
<1> QED
  BY <1>1, Invariant, PTL
=============================================================================
