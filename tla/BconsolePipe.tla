---------------------------- MODULE BconsolePipe ----------------------------
(***************************************************************************)
(* One instance of vchanger and the bconsole processes it runs, one after  *)
(* the other: IssueBconsoleCommands() and issue_bconsole_command() of      *)
(* src/src/bconsole.cpp, and do_mypopen_raw() of src/src/mypopen.cpp.      *)
(*                                                                         *)
(* Each call has two pipes and a bconsole of its own.  What the kernel     *)
(* does with a pipe depends on which processes still have which end open:  *)
(* a write to a pipe nobody can read fails, and a read from an empty pipe  *)
(* ends the input only when nobody can write to it any more.  A call that  *)
(* fails may leave its bconsole running beside that of the next call.      *)
(* Texts are lengths.                                                      *)
(***************************************************************************)
EXTENDS Naturals, FiniteSets

CONSTANTS
    PipeSize,      \* what a pipe holds
    CommandSize,   \* the length of a command without its newline
    MaxOutput,     \* the most bconsole prints in answer to one command
    Faults         \* may system calls fail and bconsole die?

(* tFormat() cuts a command at 8191 bytes and a pipe holds 65536.          *)
ASSUME SizesAssumption ==
    /\ PipeSize \in Nat /\ CommandSize \in Nat \ {0} /\ MaxOutput \in Nat
    /\ CommandSize < PipeSize
ASSUME FaultsAssumption == Faults \in BOOLEAN

Command == {"update", "label"}
Process == {"vchanger"} \cup Command     \* the bconsole of each command
End == {"inRead", "inWrite", "outRead", "outWrite"}
Result == {"none", "ok", "error"}

VARIABLES
    pc,        \* where vchanger is
    todo,      \* the commands it has still to issue
    command,   \* the command it is issuing
    result,    \* what issue_bconsole_command() returned for each command
    open,      \* the ends of each call's pipes that each process has open
    sent,      \* bytes of the command written so far
    received,  \* bytes of bconsole's answer read so far
    input,     \* bytes in the pipe to the stdin of each command's bconsole
    output,    \* bytes in the pipe from its stdout
    child,     \* the state of the process
    printed,   \* bytes of its answer it has printed
    answer,    \* the length of its answer
    ran        \* the commands for which bconsole was executed

parent == <<pc, todo, command, result, sent, received>>
bconsole == <<child, printed, answer, ran>>
vars == <<parent, bconsole, open, input, output>>

ParentState == {"issue", "stdin", "stdout", "fork", "started", "select", "write",
                "newline", "close", "wait", "read", "done"}
ChildState == {"none", "forked", "running", "copy", "exit0", "exit1", "killed"}

TypeOK ==
    /\ pc \in ParentState
    /\ todo \in SUBSET Command
    /\ command \in Command
    /\ result \in [Command -> Result]
    /\ open \in SUBSET (Process \X Command \X End)
    /\ sent \in 0..CommandSize
    /\ received \in 0..MaxOutput
    /\ input \in [Command -> 0..PipeSize]
    /\ output \in [Command -> 0..PipeSize]
    /\ child \in [Command -> ChildState]
    /\ printed \in [Command -> 0..MaxOutput]
    /\ answer \in [Command -> 0..MaxOutput]
    /\ ran \in SUBSET Command

None == [c \in Command |-> 0]

(* NeedsUpdate() | force and NeedsLabel() say what is to be issued.        *)
Init ==
    /\ pc = "issue"
    /\ todo \in SUBSET Command
    /\ command = "update"
    /\ result = [c \in Command |-> "none"]
    /\ open = {}
    /\ sent = 0 /\ received = 0
    /\ input = None /\ output = None /\ printed = None
    /\ child = [c \in Command |-> "none"]
    /\ answer \in [Command -> 0..MaxOutput]
    /\ ran = {}

-----------------------------------------------------------------------------
Has(c, end) == \E p \in Process : <<p, c, end>> \in open
Ends(p, c, ends) == {<<p, c, e>> : e \in ends}

GoTo(from, to) == pc = from /\ pc' = to

(* issue_bconsole_command() returns r, and its caller only logs it.        *)
Return(r) ==
    /\ pc' = "issue"
    /\ result' = [result EXCEPT ![command] = r]

(***************************************************************************)
(* IssueBconsoleCommands().                                                *)
(***************************************************************************)
NextCommand == IF "update" \in todo THEN "update"
                                          ELSE "label"

IssueCommand ==
    /\ todo # {}
    /\ GoTo("issue", "stdin")
    /\ command' = NextCommand
    /\ todo' = todo \ {NextCommand}
    /\ sent' = 0 /\ received' = 0
    /\ UNCHANGED <<result, bconsole, open, input, output>>

AllIssued ==
    /\ todo = {}
    /\ GoTo("issue", "done")
    /\ UNCHANGED <<todo, command, result, sent, received, bconsole, open, input, output>>

(***************************************************************************)
(* do_mypopen_raw(): the two pipes, fork, and the ends the child uses are  *)
(* closed.  When a later call fails CloseAllPipes() closes what is open.   *)
(***************************************************************************)
MakePipe(from, to, ends) ==
    /\ GoTo(from, to)
    /\ open' = open \cup Ends("vchanger", command, ends)
    /\ UNCHANGED <<todo, command, result, sent, received, bconsole, input, output>>
MakeStdin == MakePipe("stdin", "stdout", {"inRead", "inWrite"})
MakeStdout == MakePipe("stdout", "fork", {"outRead", "outWrite"})

LeavePipes == UNCHANGED open
CloseAllPipes == open' = open \ Ends("vchanger", command, End)

OpenFails ==
    /\ Faults
    /\ pc \in {"stdin", "stdout", "fork"}
    /\ Return("error")
    /\ CloseAllPipes
    /\ UNCHANGED <<todo, command, sent, received, bconsole, input, output>>

(* The child has whatever vchanger has open.                               *)
Inherited == {<<command, e[2], e[3]>> : e \in {f \in open : f[1] = "vchanger"}}

Fork ==
    /\ GoTo("fork", "started")
    /\ child' = [child EXCEPT ![command] = "forked"]
    /\ open' = open \cup Inherited
    /\ UNCHANGED <<todo, command, result, sent, received, printed, answer, ran, input, output>>

CloseChildEnds ==
    /\ GoTo("started", "select")
    /\ open' = open \ Ends("vchanger", command, {"inRead", "outWrite"})
    /\ UNCHANGED <<todo, command, result, sent, received, bconsole, input, output>>

(***************************************************************************)
(* Waiting up to 30 s for bconsole to accept input.  A new pipe has room   *)
(* at once; but when select() fails, or times out, the call returns and    *)
(* does not wait for the child, which goes on.                             *)
(***************************************************************************)
CloseBoth == open' = open \ Ends("vchanger", command, {"inWrite", "outRead"})

SelectReady ==
    /\ GoTo("select", "write")
    /\ UNCHANGED <<todo, command, result, sent, received, bconsole, open, input, output>>

SelectFails ==
    /\ Faults
    /\ pc = "select"
    /\ Return("error")
    /\ CloseBoth
    /\ UNCHANGED <<todo, command, sent, received, bconsole, input, output>>

(***************************************************************************)
(* The command and its newline are written.  Main() ignores SIGPIPE, so a  *)
(* write to a bconsole that is gone fails.  After that or any other error  *)
(* the call returns and does not wait for the child either.                *)
(***************************************************************************)
WriteCommand ==
    /\ pc = "write"
    /\ Has(command, "inRead")
    /\ \E n \in 1..PipeSize :
        /\ n <= CommandSize - sent /\ n <= PipeSize - input[command]
        /\ sent' = sent + n
        /\ input' = [input EXCEPT ![command] = @ + n]
    /\ pc' = IF sent' = CommandSize THEN "newline" ELSE "write"
    /\ UNCHANGED <<todo, command, result, received, bconsole, open, output>>

WriteNewline ==
    /\ GoTo("newline", "close")
    /\ Has(command, "inRead")
    /\ input[command] < PipeSize
    /\ input' = [input EXCEPT ![command] = @ + 1]
    /\ UNCHANGED <<todo, command, result, sent, received, bconsole, open, output>>

WriteFails ==
    /\ pc \in {"write", "newline"}
    /\ Faults \/ ~Has(command, "inRead")
    /\ Return("error")
    /\ CloseBoth
    /\ UNCHANGED <<todo, command, sent, received, bconsole, input, output>>

CloseStdin ==
    /\ GoTo("close", "wait")
    /\ open' = open \ Ends("vchanger", command, {"inWrite"})
    /\ UNCHANGED <<todo, command, result, sent, received, bconsole, input, output>>

(***************************************************************************)
(* waitpid() comes before the first read: a bconsole that fills the pipe   *)
(* does not exit, and is not read.                                         *)
(***************************************************************************)
ChildEnded(c) == child[c] \in {"exit0", "exit1", "killed"}
CloseStdout == open' = open \ Ends("vchanger", command, {"outRead"})

WaitSucceeds ==
    /\ child[command] = "exit0"
    /\ GoTo("wait", "read")
    /\ UNCHANGED <<todo, command, result, sent, received, bconsole, open, input, output>>

WaitFails ==
    /\ pc = "wait"
    /\ child[command] \in {"exit1", "killed"}
    /\ Return("error")
    /\ CloseStdout
    /\ UNCHANGED <<todo, command, sent, received, bconsole, input, output>>

(* waitpid() itself fails, which is not checked.  The status is then what  *)
(* the last write() left in rc, the length it wrote: that of a process     *)
(* killed by a signal, or of one that exited, with whatever status.        *)
WaitErrorReturns ==
    /\ Faults
    /\ pc = "wait"
    /\ Return("error")
    /\ CloseStdout
    /\ UNCHANGED <<todo, command, sent, received, bconsole, input, output>>
WaitErrorPasses ==
    /\ Faults
    /\ GoTo("wait", "read")
    /\ UNCHANGED <<todo, command, result, sent, received, bconsole, open, input, output>>

ReadOutput ==
    /\ pc = "read"
    /\ \E n \in 1..output[command] :
        /\ output' = [output EXCEPT ![command] = @ - n]
        /\ received' = received + n
    /\ UNCHANGED <<pc, todo, command, result, sent, bconsole, open, input>>

ReadEndsEarly ==
    /\ pc = "read"
    /\ Return("ok")
    /\ CloseStdout
    /\ UNCHANGED <<todo, command, sent, received, bconsole, input, output>>
ReadEnds ==
    /\ pc = "read"
    /\ output[command] = 0 /\ ~Has(command, "outWrite")
    /\ Return("ok")
    /\ CloseStdout
    /\ UNCHANGED <<todo, command, sent, received, bconsole, input, output>>

ReadFails ==
    /\ Faults
    /\ pc = "read"
    /\ Return("error")
    /\ CloseStdout
    /\ UNCHANGED <<todo, command, sent, received, bconsole, input, output>>

-----------------------------------------------------------------------------
(***************************************************************************)
(* The child closes the ends the parent uses and becomes bconsole.  If     *)
(* execvp fails it returns into main() as a second copy of vchanger, which *)
(* ends with status 0 (see CommandMutex, ForkWithoutExec).                 *)
(***************************************************************************)
CloseNothing(c) == UNCHANGED open
CloseParentEnds(c) == open' = open \ Ends(c, c, {"inWrite", "outRead"})

Exec(c) ==
    /\ child[c] = "forked"
    /\ child' = [child EXCEPT ![c] = "running"]
    /\ ran' = ran \cup {c}
    /\ CloseParentEnds(c)
    /\ UNCHANGED <<parent, printed, answer, input, output>>

ExecFails(c) ==
    /\ Faults
    /\ child[c] = "forked"
    /\ child' = [child EXCEPT ![c] = "copy"]
    /\ CloseParentEnds(c)
    /\ UNCHANGED <<parent, printed, answer, ran, input, output>>

Exit(c, state) ==
    /\ child' = [child EXCEPT ![c] = state]
    /\ open' = {e \in open : e[1] # c}
    /\ UNCHANGED <<parent, printed, answer, ran, input, output>>

CopyEnds(c) == child[c] = "copy" /\ Exit(c, "exit0")

(***************************************************************************)
(* bconsole reads commands until its input ends, and prints its answer; it *)
(* fails when nobody can read that.                                        *)
(***************************************************************************)
ChildReads(c) ==
    /\ child[c] = "running"
    /\ input[c] > 0
    /\ input' = [input EXCEPT ![c] = @ - 1]
    /\ UNCHANGED <<parent, bconsole, open, output>>

ChildPrints(c) ==
    /\ child[c] = "running"
    /\ Has(c, "outRead")
    /\ printed[c] < answer[c]
    /\ output[c] < PipeSize
    /\ output' = [output EXCEPT ![c] = @ + 1]
    /\ printed' = [printed EXCEPT ![c] = @ + 1]
    /\ UNCHANGED <<parent, child, answer, ran, open, input>>

ChildExits(c) ==
    /\ child[c] = "running"
    /\ input[c] = 0 /\ ~Has(c, "inWrite")
    /\ printed[c] = answer[c]
    /\ Exit(c, "exit0")

ChildCannotPrint(c) ==
    /\ child[c] = "running"
    /\ ~Has(c, "outRead")
    /\ printed[c] < answer[c]
    /\ \E state \in {"exit1", "killed"} : Exit(c, state)

ChildFails(c) ==
    /\ Faults
    /\ child[c] = "running"
    /\ \E state \in {"exit1", "killed"} : Exit(c, state)

-----------------------------------------------------------------------------
Opening == MakeStdin \/ MakeStdout \/ Fork \/ CloseChildEnds \/ SelectReady
Writing == WriteCommand \/ WriteNewline \/ WriteFails \/ CloseStdin
Waiting == WaitSucceeds \/ WaitFails
Reading == ReadOutput \/ ReadEnds
Parent == IssueCommand \/ AllIssued \/ Opening \/ Writing \/ Waiting \/ Reading
Child(c) ==
    \/ Exec(c) \/ CopyEnds(c)
    \/ ChildReads(c) \/ ChildPrints(c) \/ ChildExits(c) \/ ChildCannotPrint(c)
Fault ==
    \/ OpenFails \/ SelectFails \/ WaitErrorReturns \/ WaitErrorPasses \/ ReadFails
    \/ \E c \in Command : ExecFails(c) \/ ChildFails(c)

Next == Parent \/ (\E c \in Command : Child(c)) \/ Fault

(* The kernel schedules every process; nothing makes a call fail.          *)
Spec ==
    /\ Init /\ [][Next]_vars
    /\ WF_vars(Parent)
    /\ \A c \in Command : WF_vars(Child(c))

-----------------------------------------------------------------------------
Gone(c) == ChildEnded(c) \/ child[c] = "none"

(***************************************************************************)
(* Whatever fails, a call of issue_bconsole_command() that has returned    *)
(* has closed its ends of both pipes, and nobody but a bconsole itself has *)
(* its pipes.  A bconsole that still runs then is one whose command was    *)
(* reported as failed: select(), a write or waitpid() had failed.          *)
(***************************************************************************)
NothingLeftBehind ==
    pc \in {"issue", "done"} =>
        /\ \A e \in open : e[1] = e[2]
        /\ \A c \in Command : Gone(c) \/ result[c] = "error"

(***************************************************************************)
(* When a command is reported as a success its bconsole is gone and all it *)
(* printed was read, though the read begins only after the wait for it;    *)
(* and that is the whole answer if it ran and exited with 0.  (It also may *)
(* not have: a failing waitpid() loses the status, and the copy that a     *)
(* failed execvp leaves exits with 0.)                                     *)
(***************************************************************************)
AnswerReadInFull ==
    pc \in {"issue", "done"} /\ result[command] = "ok" =>
        /\ ChildEnded(command)
        /\ received = printed[command]
        /\ command \in ran /\ child[command] = "exit0" => received = answer[command]

(***************************************************************************)
(* Both commands are issued, and every bconsole sees the end of its input  *)
(* and exits, those that a failing call left running too; unless an answer *)
(* is longer than a pipe: then vchanger waits for bconsole and bconsole    *)
(* for vchanger, for good.                                                 *)
(***************************************************************************)
LongAnswer == \E c \in Command : answer[c] > PipeSize
EveryCommandReturns == <>(LongAnswer \/ (pc = "done" /\ \A c \in Command : Gone(c)))
=============================================================================
