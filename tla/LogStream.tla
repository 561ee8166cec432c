------------------------------- MODULE LogStream -------------------------------
(***************************************************************************)
(* LogStream and LogCore: log statements of several threads.  A statement  *)
(* writes its head and its operands to the one stream its thread has,      *)
(* g_stream, and hands all that the stream holds to one sink after the     *)
(* other; a sink has a lock while it writes a text.  A function called for *)
(* an operand may log as well: its statement uses the same stream.  The    *)
(* vector of the sinks has no lock.                                        *)
(***************************************************************************)
EXTENDS Integers, SequencesExt

CONSTANTS
  Threads,
  Sinks,          \* sinks a program adds itself
  Levels,         \* log levels, TRACE being 0
  MaxSinks,       \* bound: entries of the vector of sinks
  MaxStatements,  \* bound: statements of all threads
  MaxPieces       \* bound: operands of a statement

WARN == 3

ASSUME LogStreamAssumption ==
  /\ Levels \subseteq 0 .. 5 /\ WARN \in Levels
  /\ Sinks \cap {"stdout", "file"} = {}
  /\ MaxStatements \in Nat /\ MaxPieces \in Nat /\ MaxSinks \in Nat \ {0}

VARIABLES
  alive,   \* is there a process?
  level,   \* level_
  sinks_,  \* the vector LogCore has
  stream,  \* g_stream of each thread, a sequence of what was written to it
  active,  \* the statements each thread has begun, the innermost last
  call,    \* LogCore::Log, while a thread is in it
  written, \* by each thread's calls, through each entry
  count,   \* statements begun
  logged,  \* ghost: what each thread's statements have handed to Log
  due      \* ghost: of that, what is for each entry

streamVars == <<alive, level, sinks_, stream, active, call, written, count, logged, due>>

(* An entry of the vector: a sink, for the n-th time.                       *)
Entries == (Sinks \cup {"stdout", "file"}) \X (1 .. MaxSinks)

(* What a statement writes: its head, as part 0, its n-th operand, its end, *)
(* and the text of Format, which has an end of its own.                     *)
END == -1
TEXT == -2
Piece(t, id, part) == [thread |-> t, id |-> id, part |-> part]

Statement(id) == [id |-> id, pieces |-> 0, interrupted |-> FALSE]
NoCall == [text |-> << >>, of |-> << >>, at |-> 0]

Streaming(t) == active[t] # << >> /\ call[t] = NoCall

-----------------------------------------------------------------------------
(* LogCore: which sinks there are and what is logged comes from the         *)
(* environment; WARN unless that names a level.                             *)
Environments == [stdout : BOOLEAN, file : BOOLEAN, level : Levels \cup {-1}]

SinksFromEnv(env) ==
  (IF env.stdout THEN << <<"stdout", 1>> >> ELSE << >>)
    \o (IF env.file THEN << <<"file", 1>> >> ELSE << >>)

GetLogLevelFromEnv(env) == IF env.level \in Levels THEN env.level ELSE WARN

InitStream ==
  /\ alive = TRUE
  /\ \E env \in Environments : sinks_ = SinksFromEnv(env) /\ level = GetLogLevelFromEnv(env)
  /\ stream = [t \in Threads |-> << >>]
  /\ active = [t \in Threads |-> << >>]
  /\ call = [t \in Threads |-> NoCall]
  /\ written = [e \in Entries |-> [t \in Threads |-> << >>]]
  /\ count = 0
  /\ logged = [t \in Threads |-> << >>]
  /\ due = written

(* A change of the vector is a race with each thread that runs through it:  *)
(* its iterators may be invalid from then on, so that it may write to any   *)
(* sink or to none and return at any time.  Nothing more is due of its      *)
(* text, and what it still writes is not recorded.                          *)
Disturb ==
  /\ call' = [t \in Threads |->
       IF call[t] = NoCall THEN NoCall ELSE [call[t] EXCEPT !.of = << >>]]
  /\ due' = [e \in Entries |->
       [t \in Threads |-> IF call[t] = NoCall THEN due[e][t] ELSE written[e][t]]]

(* AddSink, of a sink that may be there already; for a null pointer it is a *)
(* statement of level ERROR, no more.                                       *)
AddSink(s) ==
  /\ Len(sinks_) < MaxSinks
  /\ \E n \in 1 .. MaxSinks :
       /\ <<s, n>> \notin Range(sinks_) /\ \A m \in 1 .. n - 1 : <<s, m>> \in Range(sinks_)
       /\ sinks_' = Append(sinks_, <<s, n>>)
  /\ Disturb
  /\ UNCHANGED <<alive, level, stream, active, written, count, logged>>

(* DeleteLogFileSink: the last one goes, whichever it is.  Without any,     *)
(* pop_back destroys what lies in front of the array, and the process ends. *)
DeleteLogFileSink ==
  /\ sinks_' = Front(sinks_) /\ alive' = (sinks_ # << >>)
  /\ Disturb
  /\ UNCHANGED <<level, stream, active, written, count, logged>>

SetLogLevel(l) ==
  /\ level' = l
  /\ UNCHANGED <<alive, sinks_, stream, active, call, written, count, logged, due>>

-----------------------------------------------------------------------------
Interrupt(statements) ==
  IF statements = << >> THEN << >>
  ELSE [statements EXCEPT ![Len(statements)].interrupted = TRUE]

(* Mutant of Begin: the stream is not emptied.                              *)
BeginBehind(t, l) ==
  /\ active[t] = << >> \/ Streaming(t)
  /\ l >= level /\ count < MaxStatements
  /\ count' = count + 1
  /\ stream' = [stream EXCEPT ![t] = Append(@, Piece(t, count', 0))]
  /\ active' = [active EXCEPT ![t] = Append(Interrupt(@), Statement(count'))]
  /\ UNCHANGED <<alive, level, sinks_, call, written, logged, due>>

(* MKI_LOG and MKI_FLOG, if the level is high enough, also for an operand   *)
(* of a statement: the constructor empties the stream and writes the head.  *)
Begin(t, l) ==
  /\ active[t] = << >> \/ Streaming(t)
  /\ l >= level /\ count < MaxStatements
  /\ count' = count + 1
  /\ stream' = [stream EXCEPT ![t] = <<Piece(t, count', 0)>>]
  /\ active' = [active EXCEPT ![t] = Append(Interrupt(@), Statement(count'))]
  /\ UNCHANGED <<alive, level, sinks_, call, written, logged, due>>

(* operator<<.                                                              *)
Operand(t) ==
  /\ Streaming(t)
  /\ LET s == Last(active[t]) IN
       /\ s.pieces < MaxPieces
       /\ active' = [active EXCEPT ![t][Len(active[t])].pieces = @ + 1]
       /\ stream' = [stream EXCEPT ![t] = Append(@, Piece(t, s.id, s.pieces + 1))]
  /\ UNCHANGED <<alive, level, sinks_, call, written, count, logged, due>>

(* LogCore::Log begins, with the sinks there are now; without any it ends.  *)
CoreLog(t, text) ==
  /\ call' = [call EXCEPT ![t] = [text |-> text, of |-> sinks_, at |-> 1]]
  /\ logged' = [logged EXCEPT ![t] =
       Append(@, [text |-> text, statement |-> Last(active[t])])]
  /\ due' = [e \in Entries |->
       IF e \in Range(sinks_) THEN [due[e] EXCEPT ![t] = Append(@, text)] ELSE due[e]]

(* The destructor.                                                          *)
End(t) ==
  /\ Streaming(t)
  /\ LET text == Append(stream[t], Piece(t, Last(active[t]).id, END)) IN
       /\ stream' = [stream EXCEPT ![t] = text]
       /\ CoreLog(t, text)
  /\ UNCHANGED <<alive, level, sinks_, active, written, count>>

(* Format: what the stream holds and the text, which stays out of the       *)
(* stream; a text of more than 1024 characters is not logged.               *)
Format(t) ==
  /\ Streaming(t) /\ Last(active[t]).pieces = 0
  /\ \/ CoreLog(t, Append(stream[t], Piece(t, Last(active[t]).id, TEXT)))
        /\ UNCHANGED active
     \/ /\ active' = [active EXCEPT ![t] = Front(@)]
        /\ UNCHANGED <<call, logged, due>>
  /\ UNCHANGED <<alive, level, sinks_, stream, written, count>>

(* Mutant of WriteSink: the loop starts with the second sink.               *)
WriteSinkNext(t) ==
  /\ call[t].at < Len(call[t].of)
  /\ written' = [written EXCEPT ![call[t].of[call[t].at + 1]][t] = Append(@, call[t].text)]
  /\ call' = [call EXCEPT ![t].at = @ + 1]
  /\ UNCHANGED <<alive, level, sinks_, stream, active, count, logged, due>>

(* The next sink writes the text, under its lock.                           *)
WriteSink(t) ==
  /\ call[t].at \in 1 .. Len(call[t].of)
  /\ written' = [written EXCEPT ![call[t].of[call[t].at]][t] = Append(@, call[t].text)]
  /\ call' = [call EXCEPT ![t].at = @ + 1]
  /\ UNCHANGED <<alive, level, sinks_, stream, active, count, logged, due>>

(* Log returns, the statement is over, and one around it goes on.           *)
Return(t) ==
  /\ call[t].at > Len(call[t].of)
  /\ call' = [call EXCEPT ![t] = NoCall]
  /\ active' = [active EXCEPT ![t] = Front(@)]
  /\ UNCHANGED <<alive, level, sinks_, stream, written, count, logged, due>>

-----------------------------------------------------------------------------
NextStream ==
  /\ alive
  /\ \/ \E t \in Threads :
          \/ \E l \in Levels : Begin(t, l)
          \/ Operand(t) \/ End(t) \/ Format(t) \/ WriteSink(t) \/ Return(t)
     \/ \E s \in Sinks : AddSink(s)
     \/ DeleteLogFileSink
     \/ \E l \in Levels : SetLogLevel(l)

StreamSpec == InitStream /\ [][NextStream]_streamVars

-----------------------------------------------------------------------------
(* The head and the operands of a statement.                                *)
OwnPieces(t, s) ==
  [k \in 1 .. s.pieces + 1 |-> Piece(t, s.id, k - 1)]

(***************************************************************************)
(* What a statement logs is its head, its own operands in order and its    *)
(* end, whatever other threads log meanwhile; for a statement of which an  *)
(* operand has logged this is not so, but the inner one is as any other,   *)
(* and nothing in a text is another thread's.                              *)
(***************************************************************************)
OwnMessage ==
  \A t \in Threads : \A i \in DOMAIN logged[t] :
    LET m == logged[t][i]
        own == OwnPieces(t, m.statement)
    IN  /\ \A k \in DOMAIN m.text : m.text[k].thread = t
        /\ ~m.statement.interrupted =>
             \E last \in {END, TEXT} : m.text = Append(own, Piece(t, m.statement.id, last))

(***************************************************************************)
(* Each sink gets what each thread has logged, whole and in order, once    *)
(* for every time it was added, while it is among the sinks; a message     *)
(* during whose call somebody changed the sinks may be lost or come twice, *)
(* those before and after it not, and that of a call in progress may not   *)
(* have got to the sink yet.                                               *)
(***************************************************************************)
EverySinkOnce ==
  \A t \in Threads, e \in Entries :
    LET awaits == \E i \in DOMAIN call[t].of : i >= call[t].at /\ call[t].of[i] = e
    IN  due[e][t] = IF awaits THEN Append(written[e][t], call[t].text) ELSE written[e][t]
=============================================================================
