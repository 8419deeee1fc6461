----------------------------- MODULE Transport -----------------------------
(***************************************************************************)
(* src/mcp/transport.rs: one child process, the pipe to its stdin, the     *)
(* pipe from its stdout, a reader thread started by the first recv, and    *)
(* the unbounded channel on which it hands lines to the main thread.       *)
(*                                                                         *)
(* Four parties take steps: the main thread inside a Transport call, the   *)
(* reader thread, the kernel, and the server side.  The server side is     *)
(* whoever holds the other ends of the two pipes: the child and whatever   *)
(* it forked (the launcher is a shell script), so it may outlive the child.*)
(* Its actions are unconstrained here; module Server restricts them.       *)
(***************************************************************************)
EXTENDS Rpc, Sequences

CONSTANTS
    Json,       \* the lines that parse as JSON
    Garbage,    \* a line that does not: blank, cut short by a crash, log noise
    Invalid,    \* a line that is not UTF-8
    Messages,   \* what the client sends
    Size,       \* the pipe buffers (chunks) a serialized message fills
    InCap,      \* the chunks the child's stdin pipe holds
    OutCap      \* the lines the child's stdout pipe holds

ASSUME LinesDiffer == Garbage # Invalid /\ {Garbage, Invalid} \cap Json = {}
ASSUME SizesPositive == Size \in [Messages -> Nat \ {0}]
ASSUME CapsPositive == InCap \in Nat \ {0} /\ OutCap \in Nat \ {0}

Lines == Json \cup {Garbage, Invalid}

VARIABLES
    proc,       \* the child: "none", "running", "killed" (SIGKILL sent), "dead", "reaped"
    stdin,      \* chunks written to the child's stdin and not yet read
    inOpen,     \* some process can still read stdin
    stdout,     \* complete lines written to the child's stdout and not yet read
    tail,       \* at most one line whose newline is not written yet
    outOpen,    \* some process can still write stdout
    reader,     \* Option<ReaderHandle>: "none", "running", "stopped"
    held,       \* at most one line the reader has read and not yet sent on
    chan,       \* the mpsc channel
    gated,      \* timeout is Some
    op,         \* what the main thread does: "start", "idle", "sending",
                \* "receiving", "killing", "waiting", "dropped"
    unsent,     \* the chunks write_all has still to write
    ret,        \* what the last transport call returned
    asked,      \* history: the seconds given to set_timeout
    sent,       \* history: the messages given to send
    heard,      \* history: the messages the server read completely
    written,    \* history: the lines the server wrote
    got,        \* history: the lines recv took from the channel
    ended       \* history: recv has reported end of file

procVars == <<proc>>
inVars == <<stdin, inOpen, heard>>
outVars == <<stdout, tail, outOpen, written>>
readerVars == <<reader, held, chan>>
callVars == <<op, unsent, ret, gated>>
userVars == <<asked, sent, got, ended>>
transportVars ==
    <<proc, stdin, inOpen, heard, stdout, tail, outOpen, written, reader, held,
      chan, op, unsent, ret, gated, asked, sent, got, ended>>

Init ==
    /\ proc = "none"
    /\ stdin = <<>> /\ inOpen = FALSE /\ heard = <<>>
    /\ stdout = <<>> /\ tail = <<>> /\ outOpen = FALSE /\ written = <<>>
    /\ reader = "none" /\ held = <<>> /\ chan = <<>>
    /\ op = "start" /\ unsent = <<>> /\ ret = NoRet /\ gated = FALSE
    /\ asked = 0 /\ sent = <<>> /\ got = <<>> /\ ended = FALSE

----------------------------------------------------------------------------
(* Spawning, and the timeout set before any other call.                    *)

(* Mutant: zero taken for a deadline that is due at once.                  *)
GatedAlways(seconds) == seconds >= 0

(* set_timeout: a duration of zero disables the gate.                      *)
Gated(seconds) == seconds # 0

SpawnServer(seconds) ==
    /\ op = "start"
    /\ proc' = "running"
    /\ inOpen' = TRUE
    /\ outOpen' = TRUE
    /\ asked' = seconds
    /\ gated' = Gated(seconds)
    /\ op' = "idle"
    /\ ret' = Done
    /\ UNCHANGED <<stdin, heard, stdout, tail, written, unsent, readerVars, sent, got, ended>>

(* The command is empty or cannot be executed: there is no transport.      *)
SpawnFails ==
    /\ op = "start"
    /\ op' = "dropped"
    /\ ret' = Failed(SpawnError)
    /\ UNCHANGED <<procVars, inVars, outVars, readerVars, unsent, gated, userVars>>

----------------------------------------------------------------------------
(* send: the line goes out in as many writes as the pipe makes it.  There  *)
(* is no timeout: write_all blocks while the pipe is full.                 *)

Chunks(message) ==
    [i \in 1..Size[message] |-> [message |-> message, last |-> i = Size[message]]]

Send(message) ==
    /\ op = "idle"
    /\ op' = "sending"
    /\ unsent' = Chunks(message)
    /\ sent' = Append(sent, message)
    /\ ret' = NoRet
    /\ UNCHANGED <<procVars, inVars, outVars, readerVars, gated, asked, got, ended>>

(* Mutant: write, which may be partial, for write_all.                     *)
WriteOnce ==
    /\ op = "sending"
    /\ inOpen
    /\ Len(stdin) < InCap
    /\ stdin' = Append(stdin, Head(unsent))
    /\ unsent' = <<>>
    /\ op' = "idle"
    /\ ret' = Done
    /\ UNCHANGED <<procVars, inOpen, heard, outVars, readerVars, gated, userVars>>

WriteChunk ==
    /\ op = "sending"
    /\ inOpen
    /\ Len(stdin) < InCap
    /\ stdin' = Append(stdin, Head(unsent))
    /\ unsent' = Tail(unsent)
    /\ IF Tail(unsent) = <<>>
       THEN op' = "idle" /\ ret' = Done
       ELSE UNCHANGED <<op, ret>>
    /\ UNCHANGED <<procVars, inOpen, heard, outVars, readerVars, gated, userVars>>

(* Mutant: the error leaves the rest of the message behind.                *)
WriteFailsKeepingRest ==
    /\ op = "sending"
    /\ ~inOpen
    /\ op' = "idle"
    /\ ret' = Failed(TransportError("write"))
    /\ UNCHANGED <<procVars, inVars, outVars, readerVars, unsent, gated, userVars>>

(* EPIPE: nobody can read the pipe any more.                               *)
WriteFails ==
    /\ op = "sending"
    /\ ~inOpen
    /\ op' = "idle"
    /\ unsent' = <<>>
    /\ ret' = Failed(TransportError("write"))
    /\ UNCHANGED <<procVars, inVars, outVars, readerVars, gated, userVars>>

----------------------------------------------------------------------------
(* recv: start the reader on the first call, then wait on the channel.     *)

EnsureReader == reader' = IF reader = "none" THEN "running" ELSE reader

Recv ==
    /\ op = "idle"
    /\ op' = "receiving"
    /\ EnsureReader
    /\ ret' = NoRet
    /\ UNCHANGED <<procVars, inVars, outVars, held, chan, unsent, gated, userVars>>

(* A line that could not be read is a read error, one that does not parse  *)
(* a parse error; the test for an empty line never succeeds, the reader    *)
(* sends none.                                                             *)
Parse(line) ==
    IF line = Invalid THEN Failed(TransportError("read"))
    ELSE IF line = Garbage THEN Failed(TransportError("parse"))
    ELSE Received(line)

RecvLine ==
    /\ op = "receiving"
    /\ chan # <<>>
    /\ chan' = Tail(chan)
    /\ got' = Append(got, Head(chan))
    /\ ret' = Parse(Head(chan))
    /\ op' = "idle"
    /\ UNCHANGED <<procVars, inVars, outVars, reader, held, unsent, gated, asked, sent, ended>>

(* Mutant: the deadline is put off while a line is being written.          *)
RecvTimeoutBetweenLines ==
    /\ op = "receiving"
    /\ gated
    /\ chan = <<>>
    /\ tail = <<>>
    /\ reader # "stopped"
    /\ ret' = Failed(TransportError("timeout"))
    /\ op' = "idle"
    /\ UNCHANGED <<procVars, inVars, outVars, readerVars, unsent, gated, userVars>>

RecvTimeout ==
    /\ op = "receiving"
    /\ gated
    /\ chan = <<>>
    /\ reader # "stopped"
    /\ ret' = Failed(TransportError("timeout"))
    /\ op' = "idle"
    /\ UNCHANGED <<procVars, inVars, outVars, readerVars, unsent, gated, userVars>>

(* Mutant: end of file is reported as soon as the reader has stopped.      *)
RecvDisconnectedEarly ==
    /\ op = "receiving"
    /\ reader = "stopped"
    /\ ret' = Failed(TransportError("eof"))
    /\ ended' = TRUE
    /\ op' = "idle"
    /\ UNCHANGED <<procVars, inVars, outVars, readerVars, unsent, gated, asked, sent, got>>

(* The reader dropped its sender and the channel is drained.               *)
RecvDisconnected ==
    /\ op = "receiving"
    /\ chan = <<>>
    /\ reader = "stopped"
    /\ ret' = Failed(TransportError("eof"))
    /\ ended' = TRUE
    /\ op' = "idle"
    /\ UNCHANGED <<procVars, inVars, outVars, readerVars, unsent, gated, asked, sent, got>>

----------------------------------------------------------------------------
(* The reader thread: read_line, then send the line to the main thread.    *)

ReadLine ==
    /\ reader = "running"
    /\ held = <<>>
    /\ stdout # <<>>
    /\ held' = <<Head(stdout)>>
    /\ stdout' = Tail(stdout)
    /\ UNCHANGED <<procVars, inVars, tail, outOpen, written, reader, chan, callVars, userVars>>

(* Mutant: a last line without a newline is dropped at end of file.        *)
ReadEofDroppingTail ==
    /\ reader = "running"
    /\ held = <<>>
    /\ stdout = <<>>
    /\ ~outOpen
    /\ tail' = <<>>
    /\ reader' = "stopped"
    /\ UNCHANGED <<procVars, inVars, stdout, outOpen, written, held, chan, callVars, userVars>>

(* End of file: what was written without a newline is a last line, then    *)
(* read_line returns 0 and the thread ends, dropping its sender.           *)
ReadEof ==
    /\ reader = "running"
    /\ held = <<>>
    /\ stdout = <<>>
    /\ ~outOpen
    /\ IF tail # <<>>
       THEN held' = tail /\ tail' = <<>> /\ UNCHANGED reader
       ELSE reader' = "stopped" /\ UNCHANGED <<held, tail>>
    /\ UNCHANGED <<procVars, inVars, stdout, outOpen, written, chan, callVars, userVars>>

(* Mutant: a channel without a buffer, on which the sender waits for recv. *)
ChannelSendBounded ==
    /\ reader = "running"
    /\ held # <<>>
    /\ op = "dropped" \/ (op = "receiving" /\ chan = <<>>)
    /\ held' = <<>>
    /\ chan' = IF op = "dropped" THEN chan ELSE chan \o held
    /\ reader' = IF op = "dropped" \/ held[1] = Invalid THEN "stopped" ELSE reader
    /\ UNCHANGED <<procVars, inVars, outVars, callVars, userVars>>

(* tx.send: the channel has no bound, so this never blocks.  The thread    *)
(* ends after a read error, or when the receiver is gone.                  *)
ChannelSend ==
    /\ reader = "running"
    /\ held # <<>>
    /\ held' = <<>>
    /\ chan' = IF op = "dropped" THEN chan ELSE chan \o held
    /\ reader' = IF op = "dropped" \/ held[1] = Invalid THEN "stopped" ELSE reader
    /\ UNCHANGED <<procVars, inVars, outVars, callVars, userVars>>

----------------------------------------------------------------------------
(* Drop: kill sends SIGKILL, wait reaps; the receiver is dropped with the  *)
(* transport's fields right after.                                         *)

Drop ==
    /\ op = "idle"
    /\ op' = "killing"
    /\ UNCHANGED <<procVars, inVars, outVars, readerVars, unsent, ret, gated, userVars>>

(* Mutant: wait without a signal before it.                                *)
KillNothing ==
    /\ op = "killing"
    /\ op' = "waiting"
    /\ UNCHANGED <<procVars, inVars, outVars, readerVars, unsent, ret, gated, userVars>>

Kill ==
    /\ op = "killing"
    /\ proc' = IF proc = "running" THEN "killed" ELSE proc
    /\ op' = "waiting"
    /\ UNCHANGED <<inVars, outVars, readerVars, unsent, ret, gated, userVars>>

Wait ==
    /\ op = "waiting"
    /\ proc = "dead"
    /\ proc' = "reaped"
    /\ op' = "dropped"
    /\ UNCHANGED <<inVars, outVars, readerVars, unsent, ret, gated, userVars>>

----------------------------------------------------------------------------
(* The kernel and the server side.                                         *)

(* A dead process holds no pipe end; a process it forked may still do so.  *)
ChildGone ==
    /\ proc' = "dead"
    /\ inOpen' \in {FALSE, inOpen}
    /\ outOpen' \in {FALSE, outOpen}
    /\ UNCHANGED <<stdin, heard, stdout, tail, written, readerVars, callVars, userVars>>

KillTakesEffect == proc = "killed" /\ ChildGone

ChildExits == proc = "running" /\ ChildGone

CloseStdin ==
    /\ inOpen
    /\ inOpen' = FALSE
    /\ UNCHANGED <<procVars, stdin, heard, outVars, readerVars, callVars, userVars>>

CloseStdout ==
    /\ outOpen
    /\ outOpen' = FALSE
    /\ UNCHANGED <<procVars, inVars, stdout, tail, written, readerVars, callVars, userVars>>

(* The server reads one chunk; with the last one it has the message.       *)
ServerReads ==
    /\ inOpen
    /\ stdin # <<>>
    /\ stdin' = Tail(stdin)
    /\ heard' = IF Head(stdin).last THEN Append(heard, Head(stdin).message) ELSE heard
    /\ UNCHANGED <<procVars, inOpen, outVars, readerVars, callVars, userVars>>

(* It writes the text of a line, blocking while its stdout pipe is full,   *)
(* and then the newline; it can die in between.                            *)
ServerWrites(line) ==
    /\ outOpen
    /\ tail = <<>>
    /\ Len(stdout) < OutCap
    /\ tail' = <<line>>
    /\ written' = Append(written, line)
    /\ UNCHANGED <<procVars, inVars, stdout, outOpen, readerVars, callVars, userVars>>

ServerEndsLine ==
    /\ outOpen
    /\ tail # <<>>
    /\ stdout' = stdout \o tail
    /\ tail' = <<>>
    /\ UNCHANGED <<procVars, inVars, outOpen, written, readerVars, callVars, userVars>>

----------------------------------------------------------------------------
(* The parties and what schedules them.  A thread that can run eventually  *)
(* does, a deadline is eventually reached, a killed process dies.  Nothing *)
(* is assumed of the server.                                               *)

MainStep ==
    \/ WriteChunk \/ WriteFails
    \/ RecvLine \/ RecvTimeout \/ RecvDisconnected
    \/ Kill \/ Wait

ReaderStep == ReadLine \/ ReadEof \/ ChannelSend

ServerStep ==
    \/ ChildExits \/ CloseStdin \/ CloseStdout
    \/ ServerReads \/ ServerEndsLine
    \/ \E line \in Lines : ServerWrites(line)

UserStep ==
    \/ \E seconds \in {0, 30} : SpawnServer(seconds)
    \/ SpawnFails
    \/ \E message \in Messages : Send(message)
    \/ Recv
    \/ Drop

Next == MainStep \/ ReaderStep \/ KillTakesEffect \/ ServerStep \/ UserStep

Spec == Init /\ [][Next]_transportVars

SystemFairness ==
    /\ WF_transportVars(MainStep)
    /\ WF_transportVars(ReaderStep)
    /\ WF_transportVars(KillTakesEffect)

FairSpec == Spec /\ SystemFairness

----------------------------------------------------------------------------
(* Properties.                                                             *)

TypeOK ==
    /\ proc \in {"none", "running", "killed", "dead", "reaped"}
    /\ stdin \in Seq([message : Messages, last : BOOLEAN])
    /\ Len(stdin) <= InCap
    /\ inOpen \in BOOLEAN
    /\ heard \in Seq(Messages)
    /\ stdout \in Seq(Lines)
    /\ tail \in Seq(Lines)
    /\ Len(tail) <= 1
    /\ Len(stdout) + Len(tail) <= OutCap
    /\ outOpen \in BOOLEAN
    /\ written \in Seq(Lines)
    /\ reader \in {"none", "running", "stopped"}
    /\ held \in Seq(Lines)
    /\ Len(held) <= 1
    /\ chan \in Seq(Lines)
    /\ op \in {"start", "idle", "sending", "receiving", "killing", "waiting", "dropped"}
    /\ unsent \in Seq([message : Messages, last : BOOLEAN])
    /\ (op = "sending") = (unsent # <<>>)
    /\ gated \in BOOLEAN
    /\ ret \in {NoRet, Done, Failed(SpawnError)}
               \cup {Failed(TransportError(why)) : why \in TransportFailures}
               \cup {Received(json) : json \in Json}
    /\ asked \in {0, 30}
    /\ sent \in Seq(Messages)
    /\ got \in Seq(Lines)
    /\ ended \in BOOLEAN

(* Until the transport is dropped, every line the server wrote is where    *)
(* exactly one of recv's caller, the channel, the reader's hand or the     *)
(* pipe has it, in the order written: no interleaving of server, reader    *)
(* and main thread loses, duplicates or reorders a line, a timeout         *)
(* included (recv, transport.rs:154-192, leaves the late line for the next *)
(* call).                                                                  *)
NothingLost ==
    op # "dropped" => written = got \o chan \o held \o stdout \o tail

(* The server reads whole messages, in the order send was called: a write  *)
(* that failed half way (transport.rs:105-116) is never followed by one    *)
(* that succeeds and would glue two messages together.                     *)
HeardInOrder ==
    /\ Len(heard) <= Len(sent)
    /\ \A i \in DOMAIN heard : heard[i] = sent[i]

(* The threads, pipe and channel implement the abstract channel: lines in  *)
(* order, end of file only after the last of them and then for ever.       *)
Channel == INSTANCE LineChannel WITH closed <- op # "start" /\ ~outOpen

Delivers == Channel!Spec

(* An error that blames the server has its cause, whatever the threads and *)
(* the server did in between: a timeout only for a caller who asked for    *)
(* one, zero being no timeout (transport.rs:83-85); end of file only when  *)
(* nobody can write any more or a broken line ended the reader; a failed   *)
(* write only when nobody can read.                                        *)
FailsForCause ==
    /\ ret = Failed(TransportError("timeout")) => asked # 0
    /\ ret = Failed(TransportError("eof")) =>
        ~outOpen \/ \E i \in DOMAIN got : got[i] = Invalid
    /\ ret = Failed(TransportError("write")) => ~inOpen

(* A caller who asked for a timeout has recv return whatever the server    *)
(* does: half a line, silence, a stdout kept open by a helper of a dead    *)
(* launcher.                                                               *)
RecvReturns == (op = "receiving" /\ asked # 0) ~> (op # "receiving")

(* Dropping the transport ends with the child reaped, even when the child  *)
(* died before the signal or its pipes are held by someone else.           *)
DropReturns == (op = "killing") ~> (op = "dropped" /\ proc = "reaped")

(* Once the reader runs, a server blocked on a full stdout pipe is let go  *)
(* on, although the main thread may never receive again, or is itself      *)
(* blocked writing to that server: the two full pipes cannot hold each     *)
(* other up (transport.rs:128-145).                                        *)
PipeDrains ==
    (reader = "running" /\ Len(stdout) = OutCap)
        ~> (reader = "stopped" \/ Len(stdout) < OutCap)
============================================================================
