-------------------------- MODULE TransportProofs --------------------------
(***************************************************************************)
(* What holds of Transport for every set of lines and messages, every      *)
(* message size and every pipe capacity.                                   *)
(***************************************************************************)
EXTENDS Transport, SequenceTheorems, TLAPS

Chunk == [message : Messages, last : BOOLEAN]

(* A message fills at least one chunk, so a call of send always has        *)
(* something to write.                                                     *)
LEMMA ChunksType ==
    ASSUME NEW message \in Messages
    PROVE  Chunks(message) \in Seq(Chunk) /\ Chunks(message) # <<>>
<1>1. Size[message] \in Nat \ {0}
  BY SizesPositive
<1>2. Chunks(message) \in [1..Size[message] -> Chunk]
  BY <1>1 DEF Chunks, Chunk
<1>3. Chunks(message) \in Seq(Chunk)
  BY <1>1, <1>2
<1>4. 1 \in DOMAIN Chunks(message)
  BY <1>1 DEF Chunks
<1>. QED
  BY <1>3, <1>4

(* One element is a sequence of length one: a line in the hand of the      *)
(* reader, an unfinished line.                                             *)
LEMMA SingletonType ==
    ASSUME NEW S, NEW e \in S
    PROVE  <<e>> \in Seq(S) /\ Len(<<e>>) = 1
OBVIOUS

(* Append keeps the sort of a sequence and adds one to its length: a chunk *)
(* written, a line forwarded.                                              *)
LEMMA AppendType ==
    ASSUME NEW S, NEW s \in Seq(S), NEW e \in S
    PROVE  Append(s, e) \in Seq(S) /\ Len(Append(s, e)) = Len(s) + 1
OBVIOUS

(* Type correctness, the first inductive invariant.                        *)
LEMMA TypeInductive == TypeOK /\ [Next]_transportVars => TypeOK'
<1> SUFFICES ASSUME TypeOK, [Next]_transportVars PROVE TypeOK'
  OBVIOUS
<1> USE DEF TypeOK, procVars, inVars, outVars, readerVars, callVars, userVars
<1>1. ASSUME NEW seconds \in {0, 30}, SpawnServer(seconds) PROVE TypeOK'
  BY <1>1 DEF SpawnServer, Gated
<1>2. CASE SpawnFails
  BY <1>2 DEF SpawnFails
<1>3. ASSUME NEW message \in Messages, Send(message) PROVE TypeOK'
  BY <1>3, ChunksType, AppendType DEF Send, Chunk
<1>4. CASE WriteChunk
  <2>1. unsent # <<>> /\ Head(unsent) \in Chunk /\ Tail(unsent) \in Seq(Chunk)
    BY <1>4, HeadTailProperties DEF WriteChunk, Chunk
  <2>2. stdin' \in Seq(Chunk) /\ Len(stdin') <= InCap
    <3>1. stdin \in Seq(Chunk) /\ Len(stdin) \in Nat /\ Len(stdin) < InCap
      BY <1>4, LenProperties DEF WriteChunk, Chunk
    <3>2. Append(stdin, Head(unsent)) \in Seq(Chunk)
          /\ Len(Append(stdin, Head(unsent))) = Len(stdin) + 1
      BY ONLY <2>1, <3>1, AppendType
    <3>3. stdin' = Append(stdin, Head(unsent))
      BY <1>4 DEF WriteChunk
    <3>. QED
      BY ONLY <3>1, <3>2, <3>3, CapsPositive
  <2>3. CASE Tail(unsent) = <<>>
    BY <1>4, <2>1, <2>2, <2>3 DEF WriteChunk, Chunk
  <2>4. CASE Tail(unsent) # <<>>
    BY <1>4, <2>1, <2>2, <2>4 DEF WriteChunk, Chunk
  <2>. QED
    BY <2>3, <2>4
<1>5. CASE WriteFails
  BY <1>5 DEF WriteFails, TransportFailures
<1>6. CASE Recv
  BY <1>6 DEF Recv, EnsureReader
<1>7. CASE RecvLine
  <2>1. Head(chan) \in Lines /\ Tail(chan) \in Seq(Lines)
    BY <1>7, HeadTailProperties DEF RecvLine
  <2>2. got' \in Seq(Lines)
    BY <1>7, <2>1, AppendType DEF RecvLine
  <2>3. ret' \in {Failed(TransportError(why)) : why \in TransportFailures}
                 \cup {Received(json) : json \in Json}
    BY <1>7, <2>1 DEF RecvLine, Parse, Lines, TransportFailures
  <2>. QED
    BY <1>7, <2>1, <2>2, <2>3 DEF RecvLine
<1>8. CASE RecvTimeout
  BY <1>8 DEF RecvTimeout, TransportFailures
<1>9. CASE RecvDisconnected
  BY <1>9 DEF RecvDisconnected, TransportFailures
<1>10. CASE ReadLine
  <2>1. Head(stdout) \in Lines /\ Tail(stdout) \in Seq(Lines) /\ Len(Tail(stdout)) = Len(stdout) - 1
    BY <1>10, HeadTailProperties DEF ReadLine
  <2>2. held' \in Seq(Lines) /\ Len(held') <= 1
    BY <1>10, <2>1, SingletonType DEF ReadLine
  <2>. QED
    BY <1>10, <2>1, <2>2, CapsPositive DEF ReadLine
<1>11. CASE ReadEof
  <2>1. CASE tail # <<>>
    BY <1>11, <2>1, CapsPositive DEF ReadEof
  <2>2. CASE tail = <<>>
    BY <1>11, <2>2 DEF ReadEof
  <2>. QED
    BY <2>1, <2>2
<1>12. CASE ChannelSend
  <2>1. chan \o held \in Seq(Lines)
    BY ConcatProperties
  <2>. QED
    BY <1>12, <2>1 DEF ChannelSend
<1>13. CASE Drop
  BY <1>13 DEF Drop
<1>14. CASE Kill
  BY <1>14 DEF Kill
<1>15. CASE Wait
  BY <1>15 DEF Wait
<1>16. CASE KillTakesEffect
  <2>1. inOpen' \in BOOLEAN /\ outOpen' \in BOOLEAN
    BY <1>16, Zenon DEF KillTakesEffect, ChildGone
  <2>. QED
    BY <1>16, <2>1 DEF KillTakesEffect, ChildGone
<1>17. CASE ChildExits
  <2>1. inOpen' \in BOOLEAN /\ outOpen' \in BOOLEAN
    BY <1>17, Zenon DEF ChildExits, ChildGone
  <2>. QED
    BY <1>17, <2>1 DEF ChildExits, ChildGone
<1>18. CASE CloseStdin
  <2>1. inOpen' \in BOOLEAN /\ outOpen' \in BOOLEAN
    BY <1>18, Zenon DEF CloseStdin
  <2>. QED
    BY <1>18, <2>1 DEF CloseStdin
<1>19. CASE CloseStdout
  <2>1. inOpen' \in BOOLEAN /\ outOpen' \in BOOLEAN
    BY <1>19, Zenon DEF CloseStdout
  <2>. QED
    BY <1>19, <2>1 DEF CloseStdout
<1>20. CASE ServerReads
  <2>1. Head(stdin) \in Chunk /\ Tail(stdin) \in Seq(Chunk) /\ Len(Tail(stdin)) = Len(stdin) - 1
    BY <1>20, HeadTailProperties DEF ServerReads, Chunk
  <2>2. heard' \in Seq(Messages)
    BY <1>20, <2>1, AppendType DEF ServerReads, Chunk
  <2>. QED
    BY <1>20, <2>1, <2>2, CapsPositive DEF ServerReads, Chunk
<1>21. ASSUME NEW line \in Lines, ServerWrites(line) PROVE TypeOK'
  <2>1. tail' \in Seq(Lines) /\ Len(tail') = 1 /\ written' \in Seq(Lines)
    BY <1>21, SingletonType, AppendType DEF ServerWrites
  <2>2. Len(stdout') + Len(tail') <= OutCap
    BY <1>21, <2>1, CapsPositive DEF ServerWrites
  <2>. QED
    BY <1>21, <2>1, <2>2 DEF ServerWrites
<1>22. CASE ServerEndsLine
  <2>1. stdout' \in Seq(Lines) /\ Len(stdout') = Len(stdout) + Len(tail)
    BY <1>22, ConcatProperties DEF ServerEndsLine
  <2>. QED
    BY <1>22, <2>1, CapsPositive DEF ServerEndsLine
<1>23. CASE UNCHANGED transportVars
  BY <1>23 DEF transportVars
<1>. QED
  BY <1>1, <1>2, <1>3, <1>4, <1>5, <1>6, <1>7, <1>8, <1>9, <1>10, <1>11, <1>12, <1>13,
     <1>14, <1>15, <1>16, <1>17, <1>18, <1>19, <1>20, <1>21, <1>22, <1>23
     DEF Next, MainStep, ReaderStep, ServerStep, UserStep

(* Nothing has been spawned yet, and everything is empty.                  *)
LEMMA InitialTypes == Init => TypeOK
<1> SUFFICES ASSUME Init PROVE TypeOK
  OBVIOUS
<1>1. ASSUME NEW S PROVE <<>> \in Seq(S) /\ Len(<<>>) = 0
  BY EmptySeq
<1>2. /\ inOpen \in BOOLEAN /\ outOpen \in BOOLEAN /\ gated \in BOOLEAN /\ ended \in BOOLEAN
      /\ asked \in {0, 30}
  BY Zenon DEF Init
<1>3. /\ stdin \in Seq([message : Messages, last : BOOLEAN])
      /\ unsent \in Seq([message : Messages, last : BOOLEAN])
      /\ heard \in Seq(Messages) /\ sent \in Seq(Messages)
  BY <1>1 DEF Init
<1>4. /\ stdout \in Seq(Lines) /\ tail \in Seq(Lines) /\ written \in Seq(Lines)
      /\ held \in Seq(Lines) /\ chan \in Seq(Lines) /\ got \in Seq(Lines)
  BY <1>1 DEF Init
<1>5. /\ Len(stdin) <= InCap /\ Len(tail) <= 1 /\ Len(held) <= 1
      /\ Len(stdout) + Len(tail) <= OutCap
  BY <1>1, CapsPositive DEF Init
<1>6. /\ proc \in {"none", "running", "killed", "dead", "reaped"}
      /\ reader \in {"none", "running", "stopped"}
      /\ op \in {"start", "idle", "sending", "receiving", "killing", "waiting", "dropped"}
  BY DEF Init
<1>7. (op = "sending") = (unsent # <<>>)
  BY DEF Init
<1>8. ret \in {NoRet, Done, Failed(SpawnError)}
             \cup {Failed(TransportError(why)) : why \in TransportFailures}
             \cup {Received(json) : json \in Json}
  <2>1. ret = NoRet
    BY DEF Init
  <2>. QED
    BY <2>1, Zenon
<1>. QED
  BY <1>2, <1>3, <1>4, <1>5, <1>6, <1>7, <1>8, Zenon DEF TypeOK

(* In every reachable state the fields of Transport, the pipes and the     *)
(* channel have their types; the pipes stay within their capacities.       *)
THEOREM TypeCorrect == Spec => []TypeOK
BY InitialTypes, TypeInductive, PTL DEF Spec

----------------------------------------------------------------------------
(* Moving an element, or a whole sequence, from one stage of the pipeline  *)
(* to the next leaves their concatenation as it is.                        *)

(* Moving an element from the head of one sequence to the end of another   *)
(* keeps their concatenation.                                              *)
LEMMA MoveHead ==
    ASSUME NEW S, NEW s \in Seq(S), NEW t \in Seq(S), t # <<>>
    PROVE  /\ <<Head(t)>> \in Seq(S)
           /\ Tail(t) \in Seq(S)
           /\ (s \o <<Head(t)>>) \o Tail(t) = s \o t
<1>1. Head(t) \in S /\ Tail(t) \in Seq(S) /\ Len(Tail(t)) = Len(t) - 1
  BY HeadTailProperties
<1>2. <<Head(t)>> \in Seq(S) /\ Len(<<Head(t)>>) = 1
  BY <1>1
<1>3. <<Head(t)>> \o Tail(t) = t
  <2>1. <<Head(t)>> \o Tail(t) \in Seq(S) /\ Len(<<Head(t)>> \o Tail(t)) = Len(t)
    BY <1>1, <1>2, ConcatProperties
  <2>2. ASSUME NEW i \in 1..Len(t) PROVE (<<Head(t)>> \o Tail(t))[i] = t[i]
    BY <1>1, <1>2, ConcatProperties, HeadTailProperties
  <2>. QED
    BY <2>1, <2>2, SeqEqual
<1>4. (s \o <<Head(t)>>) \o Tail(t) = s \o (<<Head(t)>> \o Tail(t))
  BY <1>1, <1>2, ConcatAssociative
<1>. QED
  BY <1>1, <1>2, <1>3, <1>4

(* Adding a queue of one line, a held or an unfinished one, is appending   *)
(* that line.                                                              *)
LEMMA ConcatSingleton ==
    ASSUME NEW S, NEW s \in Seq(S), NEW e \in S
    PROVE  s \o <<e>> = Append(s, e)
OBVIOUS

(* NothingLost is inductive given the types: each action that touches the  *)
(* pipeline moves lines from one stage to the next, or adds one at its end.*)
LEMMA PipelineInductive ==
    TypeOK /\ NothingLost /\ [Next]_transportVars => NothingLost'
<1> SUFFICES ASSUME TypeOK, NothingLost, [Next]_transportVars, op' # "dropped"
             PROVE  written' = got' \o chan' \o held' \o stdout' \o tail'
  BY DEF NothingLost
<1>types. /\ got \in Seq(Lines) /\ chan \in Seq(Lines) /\ held \in Seq(Lines)
          /\ stdout \in Seq(Lines) /\ tail \in Seq(Lines) /\ written \in Seq(Lines)
          /\ got \o chan \in Seq(Lines)
          /\ got \o chan \o held \in Seq(Lines)
          /\ got \o chan \o held \o stdout \in Seq(Lines)
  <2>1. /\ got \in Seq(Lines) /\ chan \in Seq(Lines) /\ held \in Seq(Lines)
        /\ stdout \in Seq(Lines) /\ tail \in Seq(Lines) /\ written \in Seq(Lines)
    BY DEF TypeOK
  <2>. QED
    BY ONLY <2>1, ConcatProperties
<1>live. op # "dropped"
  BY DEF Next, MainStep, ReaderStep, ServerStep, UserStep, SpawnServer, SpawnFails, Send,
         WriteChunk, WriteFails, Recv, RecvLine, RecvTimeout, RecvDisconnected, ReadLine,
         ReadEof, ChannelSend, Drop, Kill, Wait, KillTakesEffect, ChildExits, ChildGone,
         CloseStdin, CloseStdout, ServerReads, ServerWrites, ServerEndsLine,
         transportVars, callVars
<1>old. written = got \o chan \o held \o stdout \o tail
  BY <1>live DEF NothingLost
<1>a. CASE UNCHANGED <<got, chan, held, stdout, tail, written>>
  BY <1>a, <1>old
<1>b. CASE RecvLine
  <2>1. /\ chan # <<>> /\ got' = Append(got, Head(chan)) /\ chan' = Tail(chan)
        /\ UNCHANGED <<held, stdout, tail, written>>
    BY <1>b DEF RecvLine, outVars
  <2>2. Head(chan) \in Lines
    BY <1>types, <2>1, HeadTailProperties
  <2>3. got' \o chan' = got \o chan
    BY <1>types, <2>1, <2>2, ConcatSingleton, MoveHead
  <2>. QED
    BY <2>1, <2>3, <1>old
<1>c. CASE ReadLine
  <2>1. /\ held = <<>> /\ stdout # <<>> /\ held' = <<Head(stdout)>> /\ stdout' = Tail(stdout)
        /\ UNCHANGED <<got, chan, tail, written>>
    BY <1>c DEF ReadLine, userVars
  <2>2. got \o chan \o held = got \o chan
    BY <1>types, <2>1, ConcatEmptySeq
  <2>3. (got \o chan) \o held' \o stdout' = (got \o chan) \o stdout
    BY <1>types, <2>1, MoveHead
  <2>. QED
    BY <2>1, <2>2, <2>3, <1>old
<1>d. CASE ReadEof
  <2>1. /\ held = <<>> /\ stdout = <<>>
        /\ UNCHANGED <<got, chan, stdout, written>>
        /\ \/ held' = tail /\ tail' = <<>>
           \/ UNCHANGED <<held, tail>>
    BY <1>d DEF ReadEof, userVars
  <2>2. CASE held' = tail /\ tail' = <<>>
    <3>1. /\ got \o chan \o held \o stdout \o tail = got \o chan \o tail
          /\ got \o chan \o tail \in Seq(Lines)
      BY <1>types, <2>1, ConcatEmptySeq, ConcatProperties
    <3>2. got' \o chan' \o held' \o stdout' \o tail' = got \o chan \o tail
      BY <2>1, <2>2, <3>1, ConcatEmptySeq
    <3>. QED
      BY <2>1, <3>1, <3>2, <1>old
  <2>3. CASE UNCHANGED <<held, tail>>
    BY <2>1, <2>3, <1>old
  <2>. QED
    BY <2>1, <2>2, <2>3
<1>e. CASE ChannelSend
  <2>1. /\ held' = <<>> /\ chan' = chan \o held
        /\ UNCHANGED <<got, stdout, tail, written>>
    BY <1>e, <1>live DEF ChannelSend, userVars, outVars
  <2>2. chan' \in Seq(Lines) /\ got \o chan' \in Seq(Lines)
    BY <1>types, <2>1, ConcatProperties
  <2>3. got \o (chan \o held) = (got \o chan) \o held
    <3>1. got \in Seq(Lines) /\ chan \in Seq(Lines) /\ held \in Seq(Lines)
      BY ONLY <1>types
    <3>. QED
      BY ONLY <3>1, ConcatAssociative
  <2>4. (got \o chan') \o <<>> = got \o chan'
    BY ONLY <2>2, ConcatEmptySeq
  <2>5. got' \o chan' \o held' = got \o chan \o held
    BY <2>1, <2>3, <2>4
  <2>. QED
    BY <2>1, <2>5, <1>old
<1>f. ASSUME NEW line \in Lines, ServerWrites(line)
      PROVE  written' = got' \o chan' \o held' \o stdout' \o tail'
  <2>1. /\ tail = <<>> /\ tail' = <<line>> /\ written' = Append(written, line)
        /\ UNCHANGED <<got, chan, held, stdout>>
    BY <1>f DEF ServerWrites, userVars, readerVars
  <2>2. got \o chan \o held \o stdout \o tail = got \o chan \o held \o stdout
    BY <1>types, <2>1, ConcatEmptySeq
  <2>3. written \o <<line>> = Append(written, line)
    BY ONLY <1>types, ConcatSingleton, <1>f
  <2>. QED
    BY <2>1, <2>2, <2>3, <1>old
<1>g. CASE ServerEndsLine
  <2>1. /\ stdout' = stdout \o tail /\ tail' = <<>>
        /\ UNCHANGED <<got, chan, held, written>>
    BY <1>g DEF ServerEndsLine, userVars, readerVars
  <2>2. stdout' \in Seq(Lines) /\ (got \o chan \o held) \o stdout' \in Seq(Lines)
    BY <1>types, <2>1, ConcatProperties
  <2>3. (got \o chan \o held) \o (stdout \o tail) = ((got \o chan \o held) \o stdout) \o tail
    <3> DEFINE ahead == got \o chan \o held
    <3>1. ahead \in Seq(Lines) /\ stdout \in Seq(Lines) /\ tail \in Seq(Lines)
      BY ONLY <1>types
    <3> HIDE DEF ahead
    <3>2. (ahead \o stdout) \o tail = ahead \o (stdout \o tail)
      BY ONLY <3>1, ConcatAssociative
    <3>. QED
      BY <3>2 DEF ahead
  <2>. QED
    BY <2>1, <2>2, <2>3, <1>old, ConcatEmptySeq
<1>h. \/ UNCHANGED <<got, chan, held, stdout, tail, written>>
      \/ RecvLine \/ ReadLine \/ ReadEof \/ ChannelSend \/ ServerEndsLine
      \/ \E line \in Lines : ServerWrites(line)
  BY DEF Next, MainStep, ReaderStep, ServerStep, UserStep, SpawnServer, SpawnFails, Send,
         WriteChunk, WriteFails, Recv, RecvTimeout, RecvDisconnected, Drop, Kill, Wait,
         KillTakesEffect, ChildExits, ChildGone, CloseStdin, CloseStdout, ServerReads,
         transportVars, outVars, readerVars, userVars
<1>. QED
  BY <1>a, <1>b, <1>c, <1>d, <1>e, <1>f, <1>g, <1>h

(* At the start no line was written, and none is on its way.               *)
LEMMA NoLinesYet == Init => NothingLost
<1>1. <<>> \in Seq(Lines)
  BY EmptySeq
<1>2. <<>> \o <<>> = <<>>
  BY ONLY <1>1, ConcatEmptySeq
<1>. QED
  BY <1>2 DEF Init, NothingLost

(* Every line the server wrote is delivered, or on its way, exactly once   *)
(* and in order, until the transport is dropped.                           *)
THEOREM LinesKept == Spec => []NothingLost
BY NoLinesYet, PipelineInductive, TypeCorrect, PTL DEF Spec

----------------------------------------------------------------------------
(* What the reader's having stopped means.  Either no line received or in  *)
(* the channel is undecodable, and then the reader stopped because the     *)
(* stream is over and drained; or the undecodable line is the last in the  *)
(* channel; or it is the last received, and the channel is empty.          *)

Clean(s) == \A i \in 1..Len(s) : s[i] # Invalid

LastUndecodable(s) ==
    /\ s # <<>>
    /\ s[Len(s)] = Invalid
    /\ \A i \in 1..Len(s) - 1 : s[i] # Invalid

StreamReadable ==
    /\ Clean(got)
    /\ Clean(chan)
    /\ reader = "stopped" => held = <<>>
    /\ reader = "stopped" /\ op # "dropped" =>
        ~outOpen /\ stdout = <<>> /\ tail = <<>>

StreamFailing ==
    /\ Clean(got)
    /\ LastUndecodable(chan)
    /\ held = <<>>
    /\ reader = "stopped"

StreamFailed ==
    /\ Channel!Broken
    /\ chan = <<>>
    /\ held = <<>>
    /\ reader = "stopped"

StreamInv ==
    /\ StreamReadable \/ StreamFailing \/ StreamFailed
    /\ ended => reader = "stopped" /\ chan = <<>>
    /\ op = "start" => reader = "none"

(* A step that moves no line and only starts the reader, closes pipes or   *)
(* ends the transport.                                                     *)
Quiet ==
    /\ UNCHANGED <<got, chan, held, ended>>
    /\ UNCHANGED reader \/ (reader = "none" /\ reader' = "running")
    /\ reader = "stopped" /\ op' # "dropped" =>
        /\ op # "dropped"
        /\ ~outOpen /\ stdout = <<>> /\ tail = <<>> =>
            ~outOpen' /\ stdout' = <<>> /\ tail' = <<>>
    /\ op' # "start" \/ UNCHANGED <<op, reader>>

(* A sequence of decodable lines stays one, or gets its one undecodable    *)
(* line at its end, when a line is appended.                               *)
LEMMA CleanAppend ==
    ASSUME NEW S, NEW s \in Seq(S), NEW e \in S, Clean(s)
    PROVE  /\ e # Invalid => Clean(Append(s, e))
           /\ e = Invalid => LastUndecodable(Append(s, e))
<1>1. /\ Len(Append(s, e)) = Len(s) + 1
      /\ Append(s, e)[Len(s) + 1] = e
      /\ \A i \in 1..Len(s) : Append(s, e)[i] = s[i]
      /\ Append(s, e) # <<>>
  BY AppendProperties
<1>2. Len(s) \in Nat
  BY LenProperties
<1>3. \A i \in 1..Len(s) : Append(s, e)[i] # Invalid
  BY <1>1 DEF Clean
<1>. QED
  BY <1>1, <1>2, <1>3 DEF Clean, LastUndecodable

(* Receiving the head of the channel: what remains is as decodable as      *)
(* before, and the undecodable line is received last.                      *)
LEMMA CleanTail ==
    ASSUME NEW S, NEW s \in Seq(S), s # <<>>
    PROVE  /\ Clean(s) => Head(s) # Invalid /\ Clean(Tail(s))
           /\ LastUndecodable(s) =>
                \/ Head(s) = Invalid /\ Tail(s) = <<>>
                \/ Head(s) # Invalid /\ LastUndecodable(Tail(s))
<1> DEFINE t == Tail(s)
<1>1. /\ t \in Seq(S) /\ Len(t) = Len(s) - 1 /\ Head(s) = s[1]
      /\ \A i \in 1..Len(t) : t[i] = s[i + 1]
      /\ Len(s) \in Nat \ {0} /\ Len(t) \in Nat
  BY HeadTailProperties, EmptySeq, LenProperties
<1> HIDE DEF t
<1>2. ASSUME Clean(s) PROVE Head(s) # Invalid /\ Clean(t)
  BY <1>1, <1>2 DEF Clean
<1>3. ASSUME LastUndecodable(s), t = <<>> PROVE Head(s) = Invalid
  <2>1. Len(t) = 0
    BY <1>3, EmptySeq
  <2>2. Len(s) = 1
    BY <1>1, <2>1
  <2>. QED
    BY <1>1, <1>3, <2>2 DEF LastUndecodable
<1>4. ASSUME LastUndecodable(s), t # <<>> PROVE Head(s) # Invalid /\ LastUndecodable(t)
  <2>1. Len(t) \in Nat \ {0}
    BY <1>1, <1>4, EmptySeq
  <2>2. Head(s) # Invalid
    BY <1>1, <1>4, <2>1 DEF LastUndecodable
  <2>3. t[Len(t)] = Invalid
    BY <1>1, <1>4, <2>1 DEF LastUndecodable
  <2>4. ASSUME NEW i \in 1..Len(t) - 1 PROVE t[i] # Invalid
    <3>1. i \in 1..Len(t) /\ i + 1 \in 1..Len(s) - 1
      BY <1>1, <2>1
    <3>. QED
      BY <1>1, <1>4, <3>1 DEF LastUndecodable
  <2>. QED
    BY <1>4, <2>2, <2>3, <2>4 DEF LastUndecodable
<1>. QED
  BY <1>2, <1>3, <1>4 DEF t

(* Every step keeps StreamInv: the reader stops only when the stream is    *)
(* over and drained, or at the undecodable line.                           *)
LEMMA StreamInductive == TypeOK /\ StreamInv /\ [Next]_transportVars => StreamInv'
<1> SUFFICES ASSUME TypeOK, StreamInv, [Next]_transportVars PROVE StreamInv'
  OBVIOUS
<1> USE DEF Channel!Broken
<1>types. /\ got \in Seq(Lines) /\ chan \in Seq(Lines)
          /\ held \in Seq(Lines) /\ Len(held) <= 1
  BY DEF TypeOK
<1>a. CASE RecvLine
  <2>1. /\ chan # <<>> /\ got' = Append(got, Head(chan)) /\ chan' = Tail(chan)
        /\ op # "dropped" /\ op' = "idle"
        /\ UNCHANGED <<outOpen, reader, held, stdout, tail, ended>>
    BY <1>a DEF RecvLine, outVars
  <2>2. Head(chan) \in Lines
    BY <1>types, <2>1, HeadTailProperties
  <2>3. ~StreamFailed /\ ~ended
    BY <2>1 DEF StreamFailed, StreamInv
  <2>4. CASE StreamReadable
    <3>1. Clean(got') /\ Clean(chan')
      BY <1>types, <2>1, <2>2, <2>4, CleanAppend, CleanTail DEF StreamReadable
    <3>. QED
      BY <2>1, <2>3, <2>4, <3>1 DEF StreamReadable, StreamInv
  <2>5. CASE StreamFailing
    <3>1. CASE Head(chan) = Invalid /\ Tail(chan) = <<>>
      <4>1. LastUndecodable(got')
        BY <1>types, <2>1, <2>2, <2>5, <3>1, CleanAppend DEF StreamFailing
      <4>2. StreamFailed'
        BY <2>1, <2>5, <3>1, <4>1 DEF StreamFailing, StreamFailed, LastUndecodable
      <4>. QED
        BY <2>1, <2>3, <4>2 DEF StreamInv
    <3>2. CASE Head(chan) # Invalid /\ LastUndecodable(Tail(chan))
      <4>1. Clean(got')
        BY <1>types, <2>1, <2>2, <2>5, <3>2, CleanAppend DEF StreamFailing
      <4>2. StreamFailing'
        BY <2>1, <2>5, <3>2, <4>1 DEF StreamFailing
      <4>. QED
        BY <2>1, <2>3, <4>2 DEF StreamInv
    <3>. QED
      BY <1>types, <2>1, <2>5, <3>1, <3>2, CleanTail DEF StreamFailing
  <2>. QED
    BY <2>3, <2>4, <2>5 DEF StreamInv
<1>b. CASE ReadLine \/ ReadEof
  <2>1. reader = "running" /\ held = <<>> /\ UNCHANGED <<got, chan, op, outOpen, ended>>
    BY <1>b DEF ReadLine, ReadEof, userVars, callVars
  <2>2. StreamReadable /\ ~ended
    BY <2>1 DEF StreamInv, StreamFailing, StreamFailed
  <2>3. reader' = "stopped" => held' = <<>> /\ ~outOpen' /\ stdout' = <<>> /\ tail' = <<>>
    BY <1>b, <2>1 DEF ReadLine, ReadEof
  <2>. QED
    BY <2>1, <2>2, <2>3 DEF StreamInv, StreamReadable
<1>c. CASE ChannelSend
  <2>1. /\ reader = "running" /\ held # <<>> /\ held' = <<>>
        /\ UNCHANGED <<got, op, outOpen, stdout, tail, ended>>
    BY <1>c DEF ChannelSend, userVars, callVars, outVars
  <2>2. StreamReadable /\ ~ended
    BY <2>1 DEF StreamInv, StreamFailing, StreamFailed
  <2>3. held = <<held[1]>> /\ held[1] \in Lines
    <3>1. Len(held) = 1
      <4>1. held \in Seq(Lines) /\ held # <<>> /\ Len(held) <= 1
        BY <1>types, <2>1
      <4>2. Tail(held) \in Seq(Lines) /\ Len(Tail(held)) = Len(held) - 1
        BY ONLY <4>1, HeadTailProperties
      <4>3. Len(held) \in Nat /\ Len(Tail(held)) \in Nat
        BY ONLY <4>1, <4>2, LenProperties
      <4>. QED
        BY ONLY <4>1, <4>2, <4>3
    <3>2. held[1] \in Lines
      BY <1>types, <3>1, ElementOfSeq
    <3>. QED
      BY <1>types, <3>1, <3>2, SeqEqual
  <2>4. chan \o held = Append(chan, held[1])
    BY <1>types, <2>3, ConcatSingleton
  <2>5. CASE op = "dropped"
    BY <1>c, <2>1, <2>2, <2>5 DEF ChannelSend, StreamInv, StreamReadable
  <2>6. CASE op # "dropped" /\ held[1] = Invalid
    <3>1. LastUndecodable(chan') /\ reader' = "stopped"
      BY <1>c, <1>types, <2>2, <2>3, <2>4, <2>6, CleanAppend DEF ChannelSend, StreamReadable
    <3>. QED
      BY <2>1, <2>2, <3>1 DEF StreamInv, StreamReadable, StreamFailing
  <2>7. CASE op # "dropped" /\ held[1] # Invalid
    <3>1. Clean(chan') /\ reader' = "running"
      BY <1>c, <1>types, <2>1, <2>2, <2>3, <2>4, <2>7, CleanAppend
         DEF ChannelSend, StreamReadable
    <3>. QED
      BY <2>1, <2>2, <3>1 DEF StreamInv, StreamReadable
  <2>. QED
    BY <2>5, <2>6, <2>7
<1>d. CASE RecvDisconnected
  BY <1>d DEF RecvDisconnected, StreamInv, StreamReadable, StreamFailing, StreamFailed,
              readerVars, outVars
<1>e. CASE Quiet
  BY <1>e DEF Quiet, StreamInv, StreamReadable, StreamFailing, StreamFailed
<1>f. RecvLine \/ ReadLine \/ ReadEof \/ ChannelSend \/ RecvDisconnected \/ Quiet
  <2> USE DEF Quiet, procVars, outVars, readerVars, callVars, userVars
  <2>1. CASE MainStep \/ ReaderStep
    BY <2>1 DEF MainStep, ReaderStep, WriteChunk, WriteFails, RecvTimeout, Kill, Wait
  <2>2. CASE UserStep
    BY <2>2 DEF UserStep, SpawnServer, SpawnFails, Send, Recv, EnsureReader, Drop, StreamInv
  <2>3. CASE ServerStep
    BY <2>3 DEF ServerStep, ChildExits, ChildGone, CloseStdin, CloseStdout, ServerReads,
                ServerEndsLine, ServerWrites
  <2>4. CASE KillTakesEffect
    BY <2>4 DEF KillTakesEffect, ChildGone
  <2>5. CASE UNCHANGED transportVars
    BY <2>5 DEF transportVars
  <2>. QED
    BY <2>1, <2>2, <2>3, <2>4, <2>5 DEF Next
<1>. QED
  BY <1>a, <1>b, <1>c, <1>d, <1>e, <1>f

(* In every reachable state a reader that stopped has left nothing behind  *)
(* that recv could still be given.                                         *)
LEMMA StreamCorrect == Spec => []StreamInv
<1>1. Init => StreamInv
  <2> SUFFICES ASSUME Init PROVE StreamInv
    OBVIOUS
  <2>1. Len(got) = 0 /\ Len(chan) = 0
    BY EmptySeq DEF Init
  <2>2. ~ended
    BY Zenon DEF Init
  <2>. QED
    BY <2>1, <2>2 DEF Init, StreamInv, StreamReadable, Clean
<1>. QED
  BY <1>1, StreamInductive, TypeCorrect, PTL DEF Spec

----------------------------------------------------------------------------
(* Every error recv and send return has its cause.  The gate is what the   *)
(* caller asked for; the rest follows from what StreamInv says of a reader *)
(* that stopped, and from pipe ends that are never opened again.           *)

GateAsAsked == gated = (asked # 0)

(* An error once justified stays so while it is the last thing returned.   *)
LEMMA CausesInductive ==
    /\ TypeOK /\ StreamInv /\ GateAsAsked /\ FailsForCause
    /\ [Next]_transportVars
    => GateAsAsked' /\ FailsForCause'
<1> SUFFICES ASSUME TypeOK, StreamInv, GateAsAsked, FailsForCause, [Next]_transportVars
             PROVE  GateAsAsked' /\ FailsForCause'
  OBVIOUS
<1> USE DEF procVars, inVars, outVars, readerVars, callVars, userVars
<1>gate. GateAsAsked'
  <2>1. CASE UNCHANGED <<gated, asked>>
    BY <2>1 DEF GateAsAsked
  <2>2. CASE \E seconds \in {0, 30} : asked' = seconds /\ gated' = Gated(seconds)
    BY <2>2 DEF GateAsAsked, Gated
  <2>. QED
    <3>1. CASE MainStep \/ ReaderStep
      BY <3>1, <2>1 DEF MainStep, ReaderStep, WriteChunk, WriteFails, RecvLine, RecvTimeout,
                        RecvDisconnected, Kill, Wait, ReadLine, ReadEof, ChannelSend
    <3>2. CASE UserStep
      BY <3>2, <2>1, <2>2 DEF UserStep, SpawnServer, SpawnFails, Send, Recv, Drop
    <3>3. CASE ServerStep \/ KillTakesEffect
      BY <3>3, <2>1 DEF ServerStep, KillTakesEffect, ChildExits, ChildGone, CloseStdin,
                        CloseStdout, ServerReads, ServerEndsLine, ServerWrites
    <3>4. CASE UNCHANGED transportVars
      BY <3>4, <2>1 DEF transportVars
    <3>. QED
      BY <3>1, <3>2, <3>3, <3>4 DEF Next
<1> DEFINE Errors == {Failed(TransportError(why)) : why \in {"timeout", "eof", "write"}}
<1>a. CASE ret' \notin Errors
  BY <1>gate, <1>a DEF FailsForCause
<1>b. CASE RecvTimeout
  BY <1>b, <1>gate DEF RecvTimeout, GateAsAsked, FailsForCause, Failed, TransportError
<1>c. CASE RecvDisconnected
  <2>1. /\ chan = <<>> /\ reader = "stopped" /\ op = "receiving" /\ UNCHANGED <<outOpen, got>>
        /\ ret' = Failed(TransportError("eof"))
    BY <1>c DEF RecvDisconnected
  <2>2. StreamReadable \/ StreamFailed
    BY <2>1 DEF StreamInv, StreamFailing, LastUndecodable
  <2>3. CASE StreamReadable
    BY <1>gate, <2>1, <2>3 DEF StreamReadable, FailsForCause, Failed, TransportError
  <2>4. CASE StreamFailed
    <3>1. got \in Seq(Lines) /\ got # <<>> /\ got[Len(got)] = Invalid
      BY <2>4 DEF StreamFailed, Channel!Broken, TypeOK
    <3>2. Len(got) \in DOMAIN got
      BY ONLY <3>1, EmptySeq, LenProperties
    <3>3. \E i \in DOMAIN got' : got'[i] = Invalid
      BY ONLY <2>1, <3>1, <3>2
    <3>. QED
      BY <1>gate, <2>1, <3>3 DEF FailsForCause, Failed, TransportError
  <2>. QED
    BY <2>2, <2>3, <2>4
<1>d. CASE WriteFails
  BY <1>d, <1>gate DEF WriteFails, FailsForCause, Failed, TransportError
<1>e. CASE UNCHANGED <<ret, asked, got>> /\ (~outOpen => ~outOpen') /\ (~inOpen => ~inOpen')
  BY <1>e, <1>gate DEF FailsForCause
<1>f. CASE RecvLine
  <2>1. Parse(Head(chan)) \notin Errors
    BY DEF Parse, Failed, TransportError, Received
  <2>2. ret' = Parse(Head(chan))
    BY <1>f DEF RecvLine
  <2>. QED
    BY <1>a, <2>1, <2>2
<1>g. CASE WriteChunk
  <2>1. ret' \in {Done, ret} /\ UNCHANGED <<asked, got, inOpen, outOpen>>
    BY <1>g DEF WriteChunk
  <2>. QED
    BY <1>a, <1>e, <2>1 DEF Done, Failed
<1>h. CASE UserStep
  <2>1. ret' \in {NoRet, Done, Failed(SpawnError)} \/ Drop
    BY <1>h DEF UserStep, SpawnServer, SpawnFails, Send, Recv
  <2>2. ret' \in {NoRet, Done, Failed(SpawnError)} => ret' \notin Errors
    BY DEF NoRet, Done, Failed, SpawnError, TransportError
  <2>3. CASE Drop
    BY <1>e, <2>3 DEF Drop
  <2>. QED
    BY <1>a, <2>1, <2>2, <2>3
<1>i. CASE ServerStep \/ ReaderStep \/ KillTakesEffect \/ Kill \/ Wait
  BY <1>e, <1>i DEF ServerStep, ReaderStep, KillTakesEffect, Kill, Wait, ChildExits, ChildGone,
                    CloseStdin, CloseStdout, ServerReads, ServerEndsLine, ServerWrites,
                    ReadLine, ReadEof, ChannelSend
<1>j. CASE UNCHANGED transportVars
  BY <1>e, <1>j DEF transportVars
<1>. QED
  BY <1>b, <1>c, <1>d, <1>f, <1>g, <1>h, <1>i, <1>j DEF Next, MainStep

(* In every reachable state the last error has its cause: no timeout       *)
(* without a deadline asked for, no end of file while the stream is sound  *)
(* and can still be written, no failed write while someone can read.       *)
THEOREM FailuresJustified == Spec => []FailsForCause
<1>1. Init => GateAsAsked /\ FailsForCause
  <2> SUFFICES ASSUME Init PROVE GateAsAsked /\ FailsForCause
    OBVIOUS
  <2>1. asked = 0 /\ gated = FALSE /\ ret = NoRet
    BY DEF Init
  <2>2. GateAsAsked
    BY <2>1 DEF GateAsAsked
  <2>3. \A why : NoRet # Failed(TransportError(why))
    BY DEF NoRet, Failed, TransportError
  <2>. QED
    BY <2>1, <2>2, <2>3, Zenon DEF FailsForCause
<1>. QED
  BY <1>1, CausesInductive, TypeCorrect, StreamCorrect, PTL DEF Spec

----------------------------------------------------------------------------
(* The step simulation: in a state that satisfies the three invariants     *)
(* every step of Transport is a step of the abstract channel, or none.     *)

Closed == op # "start" /\ ~outOpen

(* The head of the channel is the first line not received yet, whatever    *)
(* follows it.                                                             *)
LEMMA NextLine ==
    ASSUME NEW S, NEW s \in Seq(S), NEW t \in Seq(S), t # <<>>
    PROVE  /\ s \o t \in Seq(S)
           /\ Len(s) + 1 \in 1..Len(s \o t)
           /\ (s \o t)[Len(s) + 1] = Head(t)
<1>1. Len(t) \in Nat \ {0} /\ Len(s) \in Nat
  BY EmptySeq, LenProperties
<1>. QED
  BY <1>1, ConcatProperties

(* What follows a sequence does not change its elements: a line received   *)
(* stays the written line of the same number.                              *)
LEMMA StillThere ==
    ASSUME NEW S, NEW s \in Seq(S), NEW t \in Seq(S), NEW i \in 1..Len(s)
    PROVE  /\ s \o t \in Seq(S)
           /\ i \in 1..Len(s \o t)
           /\ (s \o t)[i] = s[i]
<1>1. Len(t) \in Nat /\ Len(s) \in Nat
  BY LenProperties
<1>. QED
  BY <1>1, ConcatProperties

(* What recv takes next is the first line written and not received yet.    *)
LEMMA ChannelHead ==
    ASSUME TypeOK, NothingLost, op # "dropped", chan # <<>>
    PROVE  Len(got) < Len(written) /\ written[Len(got) + 1] = Head(chan)
<1> DEFINE next == Len(got) + 1
<1>types. /\ got \in Seq(Lines) /\ chan \in Seq(Lines) /\ held \in Seq(Lines)
          /\ stdout \in Seq(Lines) /\ tail \in Seq(Lines)
          /\ written \in Seq(Lines)
  BY DEF TypeOK
<1>1. /\ got \o chan \in Seq(Lines)
      /\ next \in 1..Len(got \o chan)
      /\ (got \o chan)[next] = Head(chan)
  BY <1>types, NextLine
<1> HIDE DEF next
<1>2. /\ got \o chan \o held \in Seq(Lines)
      /\ next \in 1..Len(got \o chan \o held)
      /\ (got \o chan \o held)[next] = (got \o chan)[next]
  BY <1>types, <1>1, StillThere
<1>3. /\ got \o chan \o held \o stdout \in Seq(Lines)
      /\ next \in 1..Len(got \o chan \o held \o stdout)
      /\ (got \o chan \o held \o stdout)[next] = (got \o chan \o held)[next]
  BY <1>types, <1>2, StillThere
<1>4. next \in 1..Len(written) /\ written[next] = Head(chan)
  BY <1>types, <1>1, <1>2, <1>3, StillThere DEF NothingLost
<1>5. Len(got) \in Nat /\ Len(written) \in Nat
  BY <1>types, LenProperties
<1>. QED
  BY <1>4, <1>5 DEF next

(* Every step of Transport is a step of LineChannel or leaves its          *)
(* variables alone.                                                        *)
LEMMA ChannelStep ==
    TypeOK /\ NothingLost /\ StreamInv /\ [Next]_transportVars
        => [Channel!Next]_(Channel!vars)
<1> SUFFICES ASSUME TypeOK, NothingLost, StreamInv, [Next]_transportVars
             PROVE  [Channel!Next]_(Channel!vars)
  OBVIOUS
<1> USE DEF Channel!Next, Channel!vars, Channel!Broken
<1>types. /\ got \in Seq(Lines) /\ chan \in Seq(Lines) /\ held \in Seq(Lines)
          /\ stdout \in Seq(Lines) /\ tail \in Seq(Lines)
  BY DEF TypeOK
<1>a. CASE RecvLine
  <2>1. /\ op = "receiving" /\ op' = "idle" /\ chan # <<>>
        /\ got' = Append(got, Head(chan))
        /\ UNCHANGED <<written, outOpen, ended>>
    BY <1>a DEF RecvLine, outVars
  <2>2. Clean(got) /\ ~ended
    BY <2>1 DEF StreamInv, StreamReadable, StreamFailing, StreamFailed
  <2>3. Len(got) \in Nat /\ (got # <<>> => Len(got) \in 1..Len(got))
    BY <1>types, EmptySeq, LenProperties
  <2>4. ~Channel!Broken
    BY <2>2, <2>3 DEF Clean
  <2>5. Len(got) < Len(written) /\ written[Len(got) + 1] = Head(chan)
    BY <2>1, ChannelHead
  <2>. QED
    BY <2>1, <2>2, <2>4, <2>5 DEF Channel!Receive
<1>b. CASE RecvDisconnected
  <2>1. /\ op = "receiving" /\ op' = "idle" /\ chan = <<>> /\ reader = "stopped"
        /\ ended' = TRUE
        /\ UNCHANGED <<written, outOpen, got>>
    BY <1>b DEF RecvDisconnected, outVars
  <2>2. CASE StreamFailed
    BY <2>1, <2>2 DEF StreamFailed, Channel!End
  <2>3. CASE StreamReadable
    <3>1. held = <<>> /\ stdout = <<>> /\ tail = <<>> /\ ~outOpen
      BY <2>1, <2>3 DEF StreamReadable
    <3>2. got \o <<>> = got
      BY ONLY <1>types, ConcatEmptySeq
    <3>3. written = got
      BY <2>1, <3>1, <3>2 DEF NothingLost
    <3>. QED
      BY <2>1, <3>1, <3>3 DEF Channel!End
  <2>4. CASE StreamFailing
    BY <2>1, <2>4 DEF StreamFailing, LastUndecodable
  <2>. QED
    BY <2>2, <2>3, <2>4 DEF StreamInv
<1>c. ASSUME NEW line \in Lines, ServerWrites(line) PROVE Channel!Write
  BY <1>c DEF ServerWrites, Channel!Write, callVars, userVars
<1>d. CASE UNCHANGED <<written, got, ended>> /\ (Closed => Closed')
  BY <1>d DEF Channel!Close, Closed
<1>e. \/ RecvLine \/ RecvDisconnected
      \/ \E line \in Lines : ServerWrites(line)
      \/ UNCHANGED <<written, got, ended>> /\ (Closed => Closed')
  <2> USE DEF Closed, procVars, outVars, readerVars, callVars, userVars
  <2>1. CASE MainStep \/ ReaderStep
    BY <2>1 DEF MainStep, ReaderStep, WriteChunk, WriteFails, RecvTimeout, Kill, Wait,
                ReadLine, ReadEof, ChannelSend
  <2>2. CASE UserStep
    BY <2>2 DEF UserStep, SpawnServer, SpawnFails, Send, Recv, Drop
  <2>3. CASE ServerStep
    BY <2>3 DEF ServerStep, ChildExits, ChildGone, CloseStdin, CloseStdout, ServerReads,
                ServerEndsLine
  <2>4. CASE KillTakesEffect
    BY <2>4 DEF KillTakesEffect, ChildGone
  <2>5. CASE UNCHANGED transportVars
    BY <2>5 DEF transportVars
  <2>. QED
    BY <2>1, <2>2, <2>3, <2>4, <2>5 DEF Next
<1>. QED
  BY <1>a, <1>b, <1>c, <1>d, <1>e

(* Threads, pipes and channel implement the abstract channel: recv returns *)
(* the server's lines in order, none skipped and none twice, and reports   *)
(* end of file only when there is nothing left, or after a line that could *)
(* not be decoded, and then for ever.                                      *)
THEOREM ImplementsChannel == Spec => Delivers
<1>1. Init => Channel!Init
  BY DEF Init, Channel!Init
<1>2. Spec => [](TypeOK /\ NothingLost /\ StreamInv)
  BY TypeCorrect, LinesKept, StreamCorrect, PTL
<1>. QED
  BY <1>1, <1>2, ChannelStep, PTL DEF Spec, Delivers, Channel!Spec
----------------------------------------------------------------------------
(* The other direction: what is written and not yet read, with what is     *)
(* still to be written, is the rest of the messages given to send, in      *)
(* order, from the one after those the server has read.  num gives each    *)
(* chunk the number of its message.                                        *)

Aligned(chunks, read, given) ==
    \E num \in [1..Len(chunks) -> 1..Len(given)] :
        /\ \A i \in 1..Len(chunks) : chunks[i].message = given[num[i]]
        /\ \A i \in 1..Len(chunks) : i = 1 => num[i] = Len(read) + 1
        /\ \A i \in 1..Len(chunks) - 1 :
               num[i + 1] = IF chunks[i].last THEN num[i] + 1 ELSE num[i]
        /\ \A i \in 1..Len(chunks) : i = Len(chunks) => chunks[i].last /\ num[i] = Len(given)
        /\ Len(chunks) = 0 => Len(read) = Len(given)

(* Once nobody can read stdin any more the rest of a message may be lost,  *)
(* but then nothing more is read either.                                   *)
StdinInv == (op = "start" \/ inOpen) => Aligned(stdin \o unsent, heard, sent)

InOrder(read, given) ==
    /\ Len(read) <= Len(given)
    /\ \A i \in DOMAIN read : read[i] = given[i]

(* The server takes a chunk: with the last one it has read the message     *)
(* that send was given next.                                               *)
LEMMA AlignedTail ==
    ASSUME NEW q \in Seq(Chunk), q # <<>>,
           NEW h \in Seq(Messages), NEW s \in Seq(Messages),
           Aligned(q, h, s), InOrder(h, s),
           NEW g, g = IF Head(q).last THEN Append(h, Head(q).message) ELSE h
    PROVE  Aligned(Tail(q), g, s) /\ InOrder(g, s)
<1>1. PICK num \in [1..Len(q) -> 1..Len(s)] :
          /\ \A i \in 1..Len(q) : q[i].message = s[num[i]]
          /\ \A i \in 1..Len(q) : i = 1 => num[i] = Len(h) + 1
          /\ \A i \in 1..Len(q) - 1 :
                 num[i + 1] = IF q[i].last THEN num[i] + 1 ELSE num[i]
          /\ \A i \in 1..Len(q) : i = Len(q) => q[i].last /\ num[i] = Len(s)
  BY DEF Aligned
<1>2. /\ Len(q) \in Nat \ {0} /\ Len(h) \in Nat /\ Len(s) \in Nat
      /\ Head(q) = q[1] /\ q[1] \in Chunk
  BY EmptySeq, LenProperties
<1>3. /\ Tail(q) \in Seq(Chunk) /\ Len(Tail(q)) = Len(q) - 1
      /\ \A i \in 1..Len(q) - 1 : Tail(q)[i] = q[i + 1]
  BY HeadTailProperties
<1>4. num[1] = Len(h) + 1 /\ Len(h) + 1 \in 1..Len(s) /\ q[1].message = s[Len(h) + 1]
  BY <1>1, <1>2
<1>5. /\ g \in Seq(Messages)
      /\ Len(g) = IF q[1].last THEN Len(h) + 1 ELSE Len(h)
      /\ InOrder(g, s)
  <2>1. CASE q[1].last
    <3>1. g = Append(h, q[1].message) /\ q[1].message \in Messages
      BY <1>2, <2>1 DEF Chunk
    <3>2. /\ g \in Seq(Messages) /\ Len(g) = Len(h) + 1
          /\ \A i \in 1..Len(h) : g[i] = h[i]
          /\ g[Len(h) + 1] = q[1].message
      BY <3>1, AppendProperties
    <3>. QED
      BY <1>2, <1>4, <2>1, <3>2, LenProperties DEF InOrder
  <2>2. CASE ~q[1].last
    BY <1>2, <2>2
  <2>. QED
    BY <2>1, <2>2
<1> DEFINE rest == [i \in 1..Len(q) - 1 |-> num[i + 1]]
<1>6. rest \in [1..Len(Tail(q)) -> 1..Len(s)]
  <2>1. \A i \in 1..Len(q) - 1 : i + 1 \in 1..Len(q)
    BY <1>2
  <2>2. \A i \in 1..Len(q) - 1 : num[i + 1] \in 1..Len(s)
    BY ONLY <1>1, <2>1
  <2>. QED
    BY ONLY <1>3, <2>2
<1>7. /\ \A i \in 1..Len(Tail(q)) : Tail(q)[i].message = s[rest[i]]
      /\ \A i \in 1..Len(Tail(q)) : i = 1 => rest[i] = Len(g) + 1
      /\ \A i \in 1..Len(Tail(q)) - 1 :
             rest[i + 1] = IF Tail(q)[i].last THEN rest[i] + 1 ELSE rest[i]
      /\ \A i \in 1..Len(Tail(q)) :
             i = Len(Tail(q)) => Tail(q)[i].last /\ rest[i] = Len(s)
  <2>1. ASSUME NEW i \in 1..Len(Tail(q))
        PROVE  /\ i + 1 \in 1..Len(q) /\ i \in 1..Len(q) - 1
               /\ rest[i] = num[i + 1] /\ Tail(q)[i] = q[i + 1]
    BY <1>2, <1>3
  <2>2. ASSUME NEW i \in 1..Len(Tail(q)), i = 1 PROVE rest[i] = Len(g) + 1
    BY <1>1, <1>2, <1>4, <1>5, <2>1, <2>2
  <2>3. ASSUME NEW i \in 1..Len(Tail(q)) - 1
        PROVE  rest[i + 1] = IF Tail(q)[i].last THEN rest[i] + 1 ELSE rest[i]
    <3>1. i \in 1..Len(Tail(q)) /\ i + 1 \in 1..Len(Tail(q)) /\ i + 1 \in 1..Len(q) - 1
      BY <1>2, <1>3
    <3>2. num[(i + 1) + 1] = IF q[i + 1].last THEN num[i + 1] + 1 ELSE num[i + 1]
      BY <1>1, <3>1
    <3>. QED
      BY <2>1, <3>1, <3>2
  <2>4. ASSUME NEW i \in 1..Len(Tail(q)), i = Len(Tail(q))
        PROVE  Tail(q)[i].last /\ rest[i] = Len(s)
    <3>1. i + 1 = Len(q)
      BY <1>2, <1>3, <2>4
    <3>2. q[i + 1].last /\ num[i + 1] = Len(s)
      BY <1>1, <2>1, <3>1
    <3>. QED
      BY <2>1, <3>2
  <2>. QED
    BY <1>1, <2>1, <2>2, <2>3, <2>4
<1>8. Len(Tail(q)) = 0 => Len(g) = Len(s)
  <2> SUFFICES ASSUME Len(Tail(q)) = 0 PROVE Len(g) = Len(s)
    OBVIOUS
  <2>1. Len(q) = 1 /\ 1 \in 1..Len(q)
    BY <1>2, <1>3
  <2>2. q[1].last /\ num[1] = Len(s)
    BY <1>1, <2>1
  <2>. QED
    BY <1>4, <1>5, <2>2
<1>. QED
  BY <1>5, <1>6, <1>7, <1>8 DEF Aligned

(* A call of send adds the chunks of its message at the end.               *)
LEMMA AlignedSend ==
    ASSUME NEW q \in Seq(Chunk), NEW h \in Seq(Messages), NEW s \in Seq(Messages),
           NEW message \in Messages, Aligned(q, h, s)
    PROVE  Aligned(q \o Chunks(message), h, Append(s, message))
<1> DEFINE more == Chunks(message)
           given == Append(s, message)
           all == q \o more
<1>1. PICK num \in [1..Len(q) -> 1..Len(s)] :
          /\ \A i \in 1..Len(q) : q[i].message = s[num[i]]
          /\ \A i \in 1..Len(q) : i = 1 => num[i] = Len(h) + 1
          /\ \A i \in 1..Len(q) - 1 :
                 num[i + 1] = IF q[i].last THEN num[i] + 1 ELSE num[i]
          /\ \A i \in 1..Len(q) : i = Len(q) => q[i].last /\ num[i] = Len(s)
          /\ Len(q) = 0 => Len(h) = Len(s)
  BY DEF Aligned
<1>2. /\ more \in Seq(Chunk) /\ Len(more) \in Nat \ {0}
      /\ \A i \in 1..Len(more) :
             more[i].message = message /\ more[i].last = (i = Len(more))
  <2>1. Size[message] \in Nat \ {0} /\ Len(more) = Size[message]
    BY SizesPositive DEF Chunks
  <2>. QED
    BY <2>1, ChunksType DEF Chunks
<1>3. Len(q) \in Nat /\ Len(s) \in Nat /\ Len(h) \in Nat
  BY LenProperties
<1>4. /\ given \in Seq(Messages) /\ Len(given) = Len(s) + 1
      /\ \A i \in 1..Len(s) : given[i] = s[i]
      /\ given[Len(s) + 1] = message
  BY AppendProperties
<1>5. /\ Len(all) = Len(q) + Len(more)
      /\ \A i \in 1..Len(q) : all[i] = q[i]
      /\ \A i \in 1..Len(more) : all[Len(q) + i] = more[i]
  BY <1>2, <1>3
<1> HIDE DEF more, given, all
<1> DEFINE ext == [i \in 1..Len(all) |-> IF i <= Len(q) THEN num[i] ELSE Len(s) + 1]
<1>6. ASSUME NEW i \in 1..Len(all)
      PROVE  \/ i \in 1..Len(q) /\ all[i] = q[i] /\ ext[i] = num[i]
             \/ /\ i - Len(q) \in 1..Len(more) /\ all[i] = more[i - Len(q)]
                /\ ext[i] = Len(s) + 1
  <2>1. CASE i <= Len(q)
    BY <1>2, <1>3, <1>5, <2>1
  <2>2. CASE ~(i <= Len(q))
    <3>1. i - Len(q) \in 1..Len(more) /\ Len(q) + (i - Len(q)) = i
      BY <1>2, <1>3, <1>5, <2>2
    <3>. QED
      BY <1>5, <2>2, <3>1
  <2>. QED
    BY <2>1, <2>2
<1>7. ext \in [1..Len(all) -> 1..Len(given)]
  BY <1>1, <1>3, <1>4, <1>6
<1>8. ASSUME NEW i \in 1..Len(all) PROVE all[i].message = given[ext[i]]
  <2>1. CASE i \in 1..Len(q) /\ all[i] = q[i] /\ ext[i] = num[i]
    <3>1. num[i] \in 1..Len(s) /\ q[i].message = s[num[i]]
      BY <1>1, <2>1
    <3>. QED
      BY <1>4, <2>1, <3>1
  <2>2. CASE /\ i - Len(q) \in 1..Len(more) /\ all[i] = more[i - Len(q)]
             /\ ext[i] = Len(s) + 1
    BY <1>2, <1>4, <2>2
  <2>. QED
    BY <1>6, <2>1, <2>2
<1>9. ASSUME NEW i \in 1..Len(all), i = 1 PROVE ext[i] = Len(h) + 1
  BY <1>1, <1>2, <1>3, <1>6, <1>9
<1>10. ASSUME NEW i \in 1..Len(all) - 1
       PROVE  ext[i + 1] = IF all[i].last THEN ext[i] + 1 ELSE ext[i]
  <2>1. i \in 1..Len(all) /\ i + 1 \in 1..Len(all)
    BY <1>2, <1>3, <1>5
  <2>2. CASE i + 1 <= Len(q)
    <3>1. i \in 1..Len(q) - 1 /\ i \in 1..Len(q) /\ i + 1 \in 1..Len(q)
      BY <1>3, <2>2
    <3>2. num[i + 1] = IF q[i].last THEN num[i] + 1 ELSE num[i]
      BY <1>1, <3>1
    <3>. QED
      BY <1>5, <2>1, <3>1, <3>2
  <2>3. CASE i = Len(q)
    <3>1. /\ i \in 1..Len(q) /\ all[i] = q[i] /\ ext[i] = num[i]
          /\ ext[i + 1] = Len(s) + 1
      BY <1>3, <1>5, <2>1, <2>3
    <3>2. q[i].last /\ num[i] = Len(s)
      BY <1>1, <2>3, <3>1
    <3>. QED
      BY <3>1, <3>2
  <2>4. CASE i > Len(q)
    <3>1. i - Len(q) \in 1..Len(more) /\ i - Len(q) # Len(more) /\ all[i] = more[i - Len(q)]
      BY <1>2, <1>3, <1>5, <1>6, <2>1, <2>4
    <3>. QED
      <4>1. ~all[i].last
        BY <1>2, <3>1
      <4>2. ext[i + 1] = Len(s) + 1 /\ ext[i] = Len(s) + 1
        BY <1>3, <2>1, <2>4
      <4>. QED
        BY <4>1, <4>2
  <2>. QED
    BY <1>3, <2>2, <2>3, <2>4
<1>11. ASSUME NEW i \in 1..Len(all), i = Len(all) PROVE all[i].last /\ ext[i] = Len(given)
  <2>1. i - Len(q) = Len(more) /\ ~(i \in 1..Len(q))
    BY <1>2, <1>3, <1>5, <1>11
  <2>. QED
    BY <1>2, <1>4, <1>6, <2>1
<1>12. Len(all) # 0
  BY <1>2, <1>3, <1>5
<1> HIDE DEF ext
<1>13. Aligned(all, h, given)
  BY <1>7, <1>8, <1>9, <1>10, <1>11, <1>12 DEF Aligned
<1>. QED
  BY <1>13 DEF all, given, more

(* What stands first in a sequence that is not empty stands first whatever *)
(* is put behind it.                                                       *)
LEMMA HeadTailConcat ==
    ASSUME NEW S, NEW s \in Seq(S), NEW t \in Seq(S), s # <<>>
    PROVE  /\ s \o t # <<>>
           /\ Head(s \o t) = Head(s)
           /\ Tail(s \o t) = Tail(s) \o t
<1>1. Len(s) \in Nat \ {0} /\ Len(t) \in Nat
  BY EmptySeq, LenProperties
<1>2. /\ s \o t \in Seq(S) /\ Len(s \o t) = Len(s) + Len(t)
      /\ \A i \in 1..Len(s) + Len(t) :
             (s \o t)[i] = IF i <= Len(s) THEN s[i] ELSE t[i - Len(s)]
  BY ConcatProperties
<1>3. s \o t # <<>> /\ Head(s \o t) = Head(s)
  <2>1. Len(s \o t) # 0
    BY <1>1, <1>2
  <2>2. s \o t # <<>>
    BY <1>2, <2>1, EmptySeq
  <2>. QED
    BY <1>1, <1>2, <2>2, HeadTailProperties
<1>4. /\ Tail(s) \in Seq(S) /\ Len(Tail(s)) = Len(s) - 1
      /\ \A i \in 1..Len(Tail(s)) : Tail(s)[i] = s[i + 1]
      /\ Tail(s \o t) \in Seq(S) /\ Len(Tail(s \o t)) = Len(s) + Len(t) - 1
      /\ \A i \in 1..Len(Tail(s \o t)) : Tail(s \o t)[i] = (s \o t)[i + 1]
  BY <1>1, <1>2, <1>3, HeadTailProperties
<1>5. /\ Tail(s) \o t \in Seq(S) /\ Len(Tail(s) \o t) = Len(s) + Len(t) - 1
      /\ \A i \in 1..Len(s) + Len(t) - 1 :
             (Tail(s) \o t)[i] = IF i <= Len(s) - 1 THEN Tail(s)[i] ELSE t[i - (Len(s) - 1)]
  BY <1>1, <1>4, ConcatProperties
<1>6. ASSUME NEW i \in 1..Len(s) + Len(t) - 1
      PROVE  Tail(s \o t)[i] = (Tail(s) \o t)[i]
  <2>1. /\ i + 1 \in 1..Len(s) + Len(t) /\ (i + 1) - Len(s) = i - (Len(s) - 1)
        /\ (i <= Len(s) - 1) = (i + 1 <= Len(s))
    BY <1>1
  <2>2. Tail(s \o t)[i] = (s \o t)[i + 1]
    BY <1>4
  <2>3. CASE i <= Len(s) - 1
    <3>1. i \in 1..Len(Tail(s))
      BY <1>1, <1>4, <2>3
    <3>. QED
      BY <1>2, <1>4, <1>5, <2>1, <2>2, <2>3, <3>1
  <2>4. CASE ~(i <= Len(s) - 1)
    BY <1>2, <1>5, <2>1, <2>2, <2>4
  <2>. QED
    BY <2>3, <2>4
<1>7. Tail(s \o t) = Tail(s) \o t
  BY <1>4, <1>5, <1>6, SeqEqual
<1>. QED
  BY <1>3, <1>7

(* Every step keeps both: send adds a message at the end of the chunks,    *)
(* write_all moves a chunk, the server takes one, a failed write ends it.  *)
LEMMA HeardInductive ==
    TypeOK /\ StdinInv /\ HeardInOrder /\ [Next]_transportVars => StdinInv' /\ HeardInOrder'
<1> SUFFICES ASSUME TypeOK, StdinInv, HeardInOrder, [Next]_transportVars
             PROVE  StdinInv' /\ HeardInOrder'
  OBVIOUS
<1>types. /\ stdin \in Seq(Chunk) /\ unsent \in Seq(Chunk) /\ stdin \o unsent \in Seq(Chunk)
          /\ heard \in Seq(Messages) /\ sent \in Seq(Messages)
          /\ (op = "sending") = (unsent # <<>>)
  <2>1. stdin \in Seq(Chunk) /\ unsent \in Seq(Chunk)
    BY DEF TypeOK, Chunk
  <2>. QED
    BY <2>1, ConcatProperties DEF TypeOK
<1>old. InOrder(heard, sent)
  BY DEF InOrder, HeardInOrder
<1>a. CASE /\ UNCHANGED <<stdin, unsent, heard, sent>>
           /\ (op' = "start" \/ inOpen') => (op = "start" \/ inOpen)
  BY <1>a DEF StdinInv, HeardInOrder
<1>b. ASSUME NEW message \in Messages, Send(message) PROVE StdinInv' /\ HeardInOrder'
  <2>1. /\ op = "idle" /\ op' = "sending" /\ unsent' = Chunks(message)
        /\ sent' = Append(sent, message) /\ UNCHANGED <<stdin, heard, inOpen>>
    BY <1>b DEF Send, inVars
  <2>2. stdin \o unsent = stdin
    BY <1>types, <2>1, ConcatEmptySeq
  <2>3. StdinInv'
    BY <1>types, <2>1, <2>2, AlignedSend DEF StdinInv
  <2>4. /\ Len(sent') = Len(sent) + 1 /\ Len(sent) \in Nat /\ Len(heard) \in Nat
        /\ \A i \in 1..Len(sent) : sent'[i] = sent[i]
    BY <1>types, <2>1, AppendProperties, LenProperties
  <2>5. DOMAIN heard = 1..Len(heard)
    BY <1>types, LenProperties
  <2>. QED
    BY <2>1, <2>3, <2>4, <2>5 DEF HeardInOrder
<1>c. CASE WriteChunk
  <2>1. /\ op = "sending" /\ inOpen /\ stdin' = Append(stdin, Head(unsent))
        /\ unsent' = Tail(unsent) /\ UNCHANGED <<heard, sent, inOpen>>
    BY <1>c DEF WriteChunk, userVars
  <2>2. Head(unsent) \in Chunk
    BY <1>types, <2>1, HeadTailProperties
  <2>3. stdin' \o unsent' = stdin \o unsent
    <3>1. unsent # <<>>
      BY ONLY <1>types, <2>1
    <3>2. Append(stdin, Head(unsent)) = stdin \o <<Head(unsent)>>
      BY ONLY <1>types, <2>2, ConcatSingleton
    <3>3. (stdin \o <<Head(unsent)>>) \o Tail(unsent) = stdin \o unsent
      BY ONLY <1>types, <3>1, MoveHead
    <3>. QED
      BY ONLY <2>1, <3>2, <3>3
  <2>. QED
    BY <2>1, <2>3 DEF StdinInv, HeardInOrder
<1>d. CASE WriteFails
  BY <1>d DEF WriteFails, StdinInv, HeardInOrder, inVars, userVars
<1>e. CASE ServerReads
  <2>1. /\ inOpen /\ stdin # <<>> /\ stdin' = Tail(stdin)
        /\ heard' = IF Head(stdin).last THEN Append(heard, Head(stdin).message) ELSE heard
        /\ UNCHANGED <<unsent, sent>>
    BY <1>e DEF ServerReads, callVars, userVars
  <2>2. /\ stdin \o unsent # <<>>
        /\ Head(stdin \o unsent) = Head(stdin)
        /\ Tail(stdin \o unsent) = Tail(stdin) \o unsent
    BY ONLY <1>types, <2>1, HeadTailConcat
  <2>3. Aligned(stdin \o unsent, heard, sent)
    BY <2>1 DEF StdinInv
  <2>4. Aligned(Tail(stdin) \o unsent, heard', sent) /\ InOrder(heard', sent)
    <3> DEFINE q == stdin \o unsent
    <3>1. /\ q \in Seq(Chunk) /\ q # <<>> /\ Aligned(q, heard, sent)
          /\ heard' = IF Head(q).last THEN Append(heard, Head(q).message) ELSE heard
      BY <1>types, <2>1, <2>2, <2>3
    <3> HIDE DEF q
    <3>2. Aligned(Tail(q), heard', sent) /\ InOrder(heard', sent)
      BY ONLY <1>types, <1>old, <3>1, AlignedTail
    <3>. QED
      BY <2>2, <3>2 DEF q
  <2>. QED
    BY <2>1, <2>4 DEF StdinInv, HeardInOrder, InOrder
<1>f. \/ /\ UNCHANGED <<stdin, unsent, heard, sent>>
         /\ (op' = "start" \/ inOpen') => (op = "start" \/ inOpen)
      \/ \E message \in Messages : Send(message)
      \/ WriteChunk \/ WriteFails \/ ServerReads
  <2> USE DEF procVars, inVars, outVars, readerVars, callVars, userVars
  <2>1. CASE MainStep \/ ReaderStep
    BY <2>1 DEF MainStep, ReaderStep, RecvLine, RecvTimeout, RecvDisconnected, Kill, Wait,
                ReadLine, ReadEof, ChannelSend
  <2>2. CASE UserStep
    BY <2>2 DEF UserStep, SpawnServer, SpawnFails, Recv, Drop
  <2>3. CASE ServerStep
    BY <2>3 DEF ServerStep, ChildExits, ChildGone, CloseStdin, CloseStdout, ServerWrites,
                ServerEndsLine
  <2>4. CASE KillTakesEffect
    BY <2>4 DEF KillTakesEffect, ChildGone
  <2>5. CASE UNCHANGED transportVars
    BY <2>5 DEF transportVars
  <2>. QED
    BY <2>1, <2>2, <2>3, <2>4, <2>5 DEF Next
<1>. QED
  BY <1>a, <1>b, <1>c, <1>d, <1>e, <1>f

(* At the start nothing was sent, and nothing is on its way.               *)
LEMMA NoMessagesYet == Init => StdinInv /\ HeardInOrder
<1> SUFFICES ASSUME Init PROVE StdinInv /\ HeardInOrder
  OBVIOUS
<1>1. /\ <<>> \in Seq(Chunk) /\ <<>> \in Seq(Messages) /\ Len(<<>>) = 0
      /\ <<>> \o <<>> = <<>>
  BY EmptySeq, ConcatEmptySeq
<1>2. Aligned(<<>>, <<>>, <<>>)
  <2>1. 1..Len(<<>>) = {} /\ 1..Len(<<>>) - 1 = {}
    BY <1>1
  <2>2. [i \in {} |-> 0] \in [1..Len(<<>>) -> 1..Len(<<>>)]
    BY ONLY <2>1
  <2>. QED
    BY ONLY <2>1, <2>2 DEF Aligned
<1>. QED
  BY <1>1, <1>2 DEF Init, StdinInv, HeardInOrder

(* The server reads the messages given to send, whole and in order, for    *)
(* every way a message is cut into chunks and whenever stdin breaks.       *)
THEOREM SentIsHeard == Spec => []HeardInOrder
BY NoMessagesYet, HeardInductive, TypeCorrect, PTL DEF Spec
============================================================================
