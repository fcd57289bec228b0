------------------------------- MODULE AsyncLog -------------------------------
(* AsynLogging and LogFile of ChronoLite: threads append to the current      *)
(* buffer, full buffers queue up to a limit, and one worker writes them; a   *)
(* flush writes what is buffered itself.  A message is a pair of its thread  *)
(* and its number; sizes count messages.                                     *)
EXTENDS Naturals, FiniteSets, SequencesExt

CONSTANTS Appenders,
          Messages,    \* bound: messages of each thread
          BufferSize,  \* messages a buffer holds
          MaxBuffers,  \* maxBuffers_
          RollSize,    \* messages after which a file is full
          MaxFiles,    \* maxFiles
          LogSeeds     \* instances: the overflow policy, and whether flush and stop are called

ASSUME LogAssumption == BufferSize \in Nat \ {0} /\ MaxBuffers \in Nat \ {0} /\ MaxFiles \in Nat \ {0}

VARIABLES logging,   \* the instance of this behaviour, a member of LogSeeds
          running,   \* running_
          current,   \* currentBuffer_
          buffers,   \* buffers_
          writer,    \* the worker: "waiting", "writing", "ended"
          toWrite,   \* buffersToWrite of the worker
          flusher,   \* bufferToWriter of a flush under way, or NotFlushing
          appender,  \* per thread: "idle", "blocked", "woken", "direct"
          appended,  \* per thread: messages begun
          written,   \* history: what reached the output, in order
          accepted,  \* history: messages put into the current buffer, in order
          given,     \* history: messages dropped, and those written without a buffer
          files,     \* sizes of the log files that are kept, the open one last
          newSecond  \* the clock has left the second of the last roll

logVars == <<logging, running, current, buffers, writer, toWrite, flusher, appender, appended,
             written, accepted, given, files, newSecond>>
outputVars == <<written, files, newSecond>>

NotFlushing == <<>>   \* a flush that finds nothing only flushes the file

LogInit(seeds) ==
    /\ logging \in seeds
    /\ running = TRUE /\ writer = "waiting" /\ toWrite = <<>> /\ flusher = NotFlushing
    /\ current = <<>> /\ buffers = <<>> /\ written = <<>> /\ accepted = <<>>
    /\ given = [dropped |-> {}, direct |-> {}, late |-> {}]
    /\ appender = [a \in Appenders |-> "idle"] /\ appended = [a \in Appenders |-> 0]
    /\ files = <<0>> /\ newSecond = FALSE

LogTypeOK ==
    /\ Len(current) <= BufferSize /\ (running => Len(buffers) <= MaxBuffers)
    /\ writer \in {"waiting", "writing", "ended"}
    /\ appender \in [Appenders -> {"idle", "blocked", "woken", "direct"}]
    /\ Len(files) \in 1 .. MaxFiles

Wake == appender' = [a \in Appenders |-> IF appender[a] = "blocked" THEN "woken" ELSE appender[a]]

-----------------------------------------------------------------------------
(* The files                                                                 *)

(* LogFile::append: a full file is rolled, but not twice in a second, since  *)
(* the name would be the same; of the closed files the oldest are removed.   *)
Output(messages) ==
    LET full == files[Len(files)] + Len(messages) > RollSize
        grown == [files EXCEPT ![Len(files)] = @ + Len(messages)]
        rolled == Append(grown, 0)
    IN /\ written' = written \o messages
       /\ IF full /\ newSecond
          THEN /\ files' = (IF Len(rolled) > MaxFiles THEN Tail(rolled) ELSE rolled)
               /\ newSecond' = FALSE
          ELSE files' = grown /\ UNCHANGED newSecond

SecondPasses ==
    /\ ~newSecond /\ files[Len(files)] > RollSize
    /\ newSecond' = TRUE
    /\ UNCHANGED <<logging, running, current, buffers, writer, toWrite, flusher, appender, appended,
                   written, accepted, given, files>>

-----------------------------------------------------------------------------
(* append                                                                    *)

Put(m) ==
    /\ current' = Append(current, m) /\ accepted' = Append(accepted, m)
    /\ UNCHANGED <<buffers, given>>

PutInNewBuffer(m, full, more) ==
    /\ buffers' = full /\ current' = <<m>> /\ accepted' = Append(accepted, m)
    /\ given' = more

Done(a) == appender' = [appender EXCEPT ![a] = "idle"]
Late(m) == IF running THEN given ELSE [given EXCEPT !.late = @ \cup {m}]

(* The buffer is full: what happens to message m when the queue is too.      *)
Overflow(a, m) ==
    IF Len(buffers) < MaxBuffers \/ ~running
    THEN PutInNewBuffer(m, Append(buffers, current), Late(m)) /\ Done(a)
    ELSE \/ /\ logging.policy = "DropNewest"
            /\ given' = [given EXCEPT !.dropped = @ \cup {m}] /\ Done(a)
            /\ UNCHANGED <<buffers, current, accepted>>
         \/ /\ logging.policy = "DropOldest"
            /\ PutInNewBuffer(m, Append(Tail(buffers), current),
                              [given EXCEPT !.dropped = @ \cup ToSet(Head(buffers))])
            /\ Done(a)
         \/ /\ logging.policy = "Block"
            /\ appender' = [appender EXCEPT ![a] = "blocked"]
            /\ UNCHANGED <<buffers, current, accepted, given>>

AppendMessage(a) ==
    /\ appender[a] = "idle" /\ appended[a] < Messages
    /\ appended' = [appended EXCEPT ![a] = @ + 1]
    /\ LET m == <<a, appended[a] + 1>>
       IN \/ /\ ~running
             /\ appender' = [appender EXCEPT ![a] = "direct"]
             /\ UNCHANGED <<current, buffers, accepted, given>>
          \/ /\ running /\ Len(current) < BufferSize
             /\ Put(m) /\ UNCHANGED appender
          \/ /\ running /\ Len(current) >= BufferSize
             /\ Overflow(a, m)
    /\ UNCHANGED <<logging, running, writer, toWrite, flusher, outputVars>>

(* The blocked thread runs again and repeats its test.                       *)
ContinueBlocked(a) ==
    /\ appender[a] = "woken"
    /\ Overflow(a, <<a, appended[a]>>)
    /\ UNCHANGED <<logging, running, writer, toWrite, flusher, appended, outputVars>>

(* After stop a message goes to the output at once.                          *)
WriteDirectly(a) ==
    /\ appender[a] = "direct"
    /\ Output(<<<<a, appended[a]>>>>) /\ Done(a)
    /\ given' = [given EXCEPT !.direct = @ \cup {<<a, appended[a]>>}]
    /\ UNCHANGED <<logging, running, current, buffers, writer, toWrite, flusher, appended, accepted>>

-----------------------------------------------------------------------------
(* The worker, flush and stop                                                *)

Collected == IF current = <<>> THEN buffers ELSE Append(buffers, current)

(* The worker wakes up when there is something to write or it has to end.    *)
TakeBuffers ==
    /\ writer = "waiting" /\ (~running \/ Collected # <<>>)
    /\ toWrite' = Collected /\ buffers' = <<>> /\ current' = <<>>
    /\ writer' = "writing" /\ Wake
    /\ UNCHANGED <<logging, running, flusher, appended, accepted, given, outputVars>>

WriteBuffersOnce ==
    /\ writer = "writing"
    /\ Output(FlattenSeq(toWrite))
    /\ toWrite' = <<>> /\ writer' = (IF ~running THEN "ended" ELSE "waiting")
    /\ UNCHANGED <<logging, running, current, buffers, flusher, appender, appended, accepted, given>>

(* It ends after a round that had nothing to write.                          *)
WriteBuffers ==
    /\ writer = "writing"
    /\ Output(FlattenSeq(toWrite))
    /\ toWrite' = <<>> /\ writer' = (IF ~running /\ toWrite = <<>> THEN "ended" ELSE "waiting")
    /\ UNCHANGED <<logging, running, current, buffers, flusher, appender, appended, accepted, given>>

StartFlush ==
    /\ "flush" \in logging.calls /\ flusher = NotFlushing /\ Collected # <<>>
    /\ flusher' = Collected /\ buffers' = <<>> /\ current' = <<>> /\ Wake
    /\ UNCHANGED <<logging, running, writer, toWrite, appended, accepted, given, outputVars>>

WriteFlushed ==
    /\ flusher # NotFlushing
    /\ Output(FlattenSeq(flusher)) /\ flusher' = NotFlushing
    /\ UNCHANGED <<logging, running, current, buffers, writer, toWrite, appender, appended, accepted, given>>

(* stop takes no lock; both conditions are notified.                         *)
StopLogging ==
    /\ "stop" \in logging.calls /\ running
    /\ running' = FALSE /\ Wake
    /\ UNCHANGED <<logging, current, buffers, writer, toWrite, flusher, appended, accepted, given, outputVars>>

LogNext ==
    \/ \E a \in Appenders : AppendMessage(a) \/ ContinueBlocked(a) \/ WriteDirectly(a)
    \/ TakeBuffers \/ WriteBuffers \/ StartFlush \/ WriteFlushed \/ StopLogging \/ SecondPasses

-----------------------------------------------------------------------------
Buffered == FlattenSeq(toWrite) \o FlattenSeq(buffers) \o current

(* s without the members of D, in the same order.                            *)
Without(s, D) ==
    LET rest[i \in 0 .. Len(s)] ==
            IF i = 0 THEN <<>> ELSE IF s[i] \in D THEN rest[i - 1] ELSE Append(rest[i - 1], s[i])
    IN rest[Len(s)]

(* What went through the buffers to the output.                              *)
Through == Without(written, given.direct)

(* Without flush, what went through the buffers comes out in the order in    *)
(* which it was accepted, the buffers that an overflow dropped excepted.     *)
KeptInOrder ==
    "flush" \notin logging.calls => Through \o Buffered = Without(accepted, given.dropped)

(* With flush the order may be another, but every message is once somewhere. *)
KeptOnce ==
    LET here == Through \o Buffered \o FlattenSeq(flusher)
    IN IsInjective(here) /\ ToSet(here) = ToSet(accepted) \ given.dropped

(* stop() stops and writes what is buffered: when the worker has ended, only *)
(* a message whose thread was blocked while it stopped may be left.          *)
NothingLeft == writer = "ended" => ToSet(Buffered) \subseteq given.late

LogInOrder == KeptInOrder /\ KeptOnce /\ NothingLeft
=============================================================================
