------------------------------- MODULE LogProofs -------------------------------
(***************************************************************************)
(* Proofs about logging: about LogStream, which hands texts to sinks, and  *)
(* about LogSinkFile, the sink that writes files.                          *)
(*                                                                         *)
(* LogStream, for any threads and sinks and any number of statements one   *)
(* within the other: what a thread's actions do concerns that thread only, *)
(* so the invariant is one of each thread by itself.                       *)
(*                                                                         *)
(* LogSinkFile, for any number of processes, files and restarts: to bound  *)
(* the files the argument counts, for every set S of processes that have   *)
(* listed the directory and not yet opened their new file, the files that  *)
(* none of S is about to delete, and the files S is about to create.       *)
(***************************************************************************)
EXTENDS LogStream, LogSinkFile, FiniteSetTheorems, TLAPS

Pieces == [thread : Threads, id : Nat, part : Int]
Statements == [id : Nat, pieces : Nat, interrupted : BOOLEAN]
Messages == [text : Seq(Pieces), statement : Statements]
Calls == [text : Seq(Pieces), of : Seq(Entries), at : Nat]

(* Of a message, or one that is about to be logged.                         *)
Own(t, text, s) ==
  /\ \A k \in DOMAIN text : text[k].thread = t
  /\ ~s.interrupted => \E last \in {END, TEXT} : text = Append(OwnPieces(t, s), Piece(t, s.id, last))

(* A thread of which a is active, st the stream, c the call, lg what it has *)
(* logged: all statements but the innermost have been interrupted, and that *)
(* one has the stream for itself, unless it has been as well.               *)
ThreadInv(t, a, st, c, lg) ==
  /\ a \in Seq(Statements) /\ st \in Seq(Pieces) /\ c \in Calls /\ lg \in Seq(Messages)
  /\ c # NoCall => a # << >> /\ c.at >= 1
  /\ \A i \in 1 .. Len(a) - 1 : a[i].interrupted
  /\ \A k \in DOMAIN st : st[k].thread = t
  /\ a # << >> /\ c = NoCall /\ ~a[Len(a)].interrupted => st = OwnPieces(t, a[Len(a)])
  /\ \A i \in DOMAIN lg : Own(t, lg[i].text, lg[i].statement)

IInv ==
  /\ sinks_ \in Seq(Entries)
  /\ count \in Nat
  /\ active \in [Threads -> Seq(Statements)] /\ stream \in [Threads -> Seq(Pieces)]
  /\ call \in [Threads -> Calls] /\ logged \in [Threads -> Seq(Messages)]
  /\ \A t \in Threads : ThreadInv(t, active[t], stream[t], call[t], logged[t])

-----------------------------------------------------------------------------
(* Facts about sequences.                                                   *)
LEMMA FrontFacts ==
  ASSUME NEW S, NEW s \in Seq(S), s # << >>
  PROVE  /\ Front(s) \in Seq(S) /\ Len(Front(s)) = Len(s) - 1
         /\ \A i \in 1 .. Len(s) - 1 : Front(s)[i] = s[i]
         /\ Len(s) \in Nat \ {0} /\ Last(s) = s[Len(s)] /\ Last(s) \in S
  <1>1. Len(s) \in Nat /\ s \in [1 .. Len(s) -> S] /\ Len(s) # 0
    OBVIOUS
  <1>2. Front(s) = [i \in 1 .. Len(s) - 1 |-> s[i]]
    BY DEF Front
  <1>3. Front(s) \in Seq(S) /\ Len(Front(s)) = Len(s) - 1
    BY <1>1, <1>2
  <1> QED
    BY <1>1, <1>2, <1>3 DEF Last

LEMMA FrontOfNone == Front(<< >>) = << >>
  BY DEF Front

(* A piece is the thread's that wrote it.                                   *)
LEMMA PieceType ==
  ASSUME NEW t \in Threads, NEW id \in Nat, NEW part \in Int
  PROVE  Piece(t, id, part) \in Pieces /\ Piece(t, id, part).thread = t
  BY DEF Piece, Pieces

(* An innermost statement, and the stream that is its own.                  *)
LEMMA OwnPiecesType ==
  ASSUME NEW t \in Threads, NEW s \in Statements
  PROVE  /\ OwnPieces(t, s) \in Seq(Pieces)
         /\ Len(OwnPieces(t, s)) = s.pieces + 1
  <1>1. s.id \in Nat /\ s.pieces \in Nat
    BY DEF Statements
  <1>2. \A k \in 1 .. s.pieces + 1 : Piece(t, s.id, k - 1) \in Pieces
    BY <1>1, PieceType
  <1> QED
    BY <1>1, <1>2 DEF OwnPieces

(* One operand more.                                                        *)
LEMMA OwnPiecesGrow ==
  ASSUME NEW t \in Threads, NEW s \in Statements
  PROVE  OwnPieces(t, [s EXCEPT !.pieces = @ + 1])
           = Append(OwnPieces(t, s), Piece(t, s.id, s.pieces + 1))
  <1> DEFINE n == s.pieces
             g == [s EXCEPT !.pieces = @ + 1]
             new == Append(OwnPieces(t, s), Piece(t, s.id, n + 1))
  <1>1. n \in Nat /\ g.pieces = n + 1 /\ g.id = s.id
    BY DEF Statements
  <1>2. OwnPieces(t, g) = [k \in 1 .. (n + 1) + 1 |-> Piece(t, s.id, k - 1)]
    BY <1>1 DEF OwnPieces
  <1>3. OwnPieces(t, s) = [k \in 1 .. n + 1 |-> Piece(t, s.id, k - 1)]
    BY DEF OwnPieces
  <1>4. new = [k \in 1 .. (n + 1) + 1 |->
                 IF k = (n + 1) + 1 THEN Piece(t, s.id, n + 1) ELSE OwnPieces(t, s)[k]]
    BY OwnPiecesType, <1>1
  <1>5. \A k \in 1 .. (n + 1) + 1 :
          Piece(t, s.id, k - 1) = IF k = (n + 1) + 1 THEN Piece(t, s.id, n + 1)
                                  ELSE OwnPieces(t, s)[k]
    BY <1>1, <1>3
  <1> QED
    BY <1>2, <1>4, <1>5

(* A statement with an operand more.                                        *)
LEMMA GrownType ==
  ASSUME NEW s \in Statements
  PROVE  /\ [s EXCEPT !.pieces = @ + 1] \in Statements
         /\ [s EXCEPT !.pieces = @ + 1].interrupted = s.interrupted
         /\ s.id \in Nat /\ s.pieces \in Nat
  BY DEF Statements

(* Appending a piece of the thread.                                         *)
LEMMA AppendPiece ==
  ASSUME NEW t \in Threads, NEW st \in Seq(Pieces), NEW id \in Nat, NEW part \in Int,
         \A k \in DOMAIN st : st[k].thread = t
  PROVE  /\ Append(st, Piece(t, id, part)) \in Seq(Pieces)
         /\ \A k \in DOMAIN Append(st, Piece(t, id, part)) :
              Append(st, Piece(t, id, part))[k].thread = t
  BY PieceType

(* A message more, of which the pieces are its own.                         *)
LEMMA AppendMessage ==
  ASSUME NEW t \in Threads, NEW lg \in Seq(Messages), NEW text \in Seq(Pieces),
         NEW s \in Statements,
         \A i \in DOMAIN lg : Own(t, lg[i].text, lg[i].statement),
         Own(t, text, s)
  PROVE  LET new == Append(lg, [text |-> text, statement |-> s])
         IN  new \in Seq(Messages) /\ \A i \in DOMAIN new : Own(t, new[i].text, new[i].statement)
  <1> DEFINE m == [text |-> text, statement |-> s]
  <1>1. m \in Messages /\ m.text = text /\ m.statement = s
    BY DEF Messages
  <1> HIDE DEF m
  <1>2. Append(lg, m) \in Seq(Messages)
    BY <1>1
  <1>3. ASSUME NEW i \in DOMAIN Append(lg, m)
        PROVE  Own(t, Append(lg, m)[i].text, Append(lg, m)[i].statement)
    <2>1. CASE i \in DOMAIN lg
      BY <2>1, <1>1
    <2>2. CASE i = Len(lg) + 1
      BY <2>2, <1>1
    <2> QED
      BY <2>1, <2>2, <1>1, <1>3
  <1> QED
    BY <1>2, <1>3 DEF m

-----------------------------------------------------------------------------
(* To begin with no thread has a statement.                                 *)
(* The sinks the environment asks for, each for the first time.             *)
LEMMA FromEnvironment ==
  <<"stdout", 1>> \in Entries /\ <<"file", 1>> \in Entries
  BY LogStreamAssumption DEF Entries

LEMMA InitInv == InitStream => IInv
  <1> SUFFICES ASSUME InitStream PROVE IInv
    OBVIOUS
  <1>1. sinks_ \in Seq(Entries)
    <2> DEFINE out == <<"stdout", 1>>
               file == <<"file", 1>>
    <2>1. out \in Entries /\ file \in Entries
      BY FromEnvironment
    <2> HIDE DEF out, file
    <2>2. <<out>> \in Seq(Entries) /\ <<file>> \in Seq(Entries) /\ << >> \in Seq(Entries)
      BY <2>1
    <2>3. PICK env \in Environments : sinks_ = SinksFromEnv(env)
      BY DEF InitStream
    <2>4. sinks_ = (IF env.stdout THEN <<out>> ELSE << >>) \o (IF env.file THEN <<file>> ELSE << >>)
      BY <2>3 DEF SinksFromEnv, out, file
    <2> QED
      BY <2>2, <2>4
  <1>2. NoCall \in Calls
    BY DEF NoCall, Calls
  <1>3. ASSUME NEW t \in Threads
        PROVE  ThreadInv(t, << >>, << >>, NoCall, << >>)
    BY <1>2 DEF ThreadInv
  <1> QED
    <2>1. /\ active \in [Threads -> Seq(Statements)] /\ stream \in [Threads -> Seq(Pieces)]
          /\ logged \in [Threads -> Seq(Messages)] /\ call \in [Threads -> Calls]
          /\ count \in Nat
      BY <1>2 DEF InitStream
    <2>2. ASSUME NEW t \in Threads
          PROVE  ThreadInv(t, active[t], stream[t], call[t], logged[t])
      BY <1>3 DEF InitStream
    <2> QED
      BY <1>1, <2>1, <2>2 DEF IInv

(* A step of one thread keeps the invariant if that thread's does.          *)
LEMMA OneThread ==
  ASSUME IInv, NEW t \in Threads,
         NEW a, NEW st, NEW c, NEW lg,
         active' = [active EXCEPT ![t] = a], stream' = [stream EXCEPT ![t] = st],
         call' = [call EXCEPT ![t] = c], logged' = [logged EXCEPT ![t] = lg],
         count' \in Nat, sinks_' = sinks_,
         ThreadInv(t, a, st, c, lg)
  PROVE  IInv'
  <1>1. \A x \in Threads : ThreadInv(x, active'[x], stream'[x], call'[x], logged'[x])
    BY DEF IInv
  <1>2. a \in Seq(Statements) /\ st \in Seq(Pieces) /\ c \in Calls /\ lg \in Seq(Messages)
    BY DEF ThreadInv
  <1> QED
    BY <1>1, <1>2 DEF IInv

(* The new statement is the innermost and has the stream for itself.        *)
LEMMA BeginInv ==
  ASSUME IInv, NEW t \in Threads, NEW l \in Levels, Begin(t, l)
  PROVE  IInv'
  <1> DEFINE a == active[t]
             n == count'
             new == Append(Interrupt(a), Statement(n))
  <1>1. ThreadInv(t, a, stream[t], call[t], logged[t]) /\ n \in Nat /\ count' \in Nat
    BY DEF IInv, Begin
  <1>2. call[t] = NoCall
    BY <1>1 DEF Begin, Streaming, ThreadInv
  <1>3. /\ Interrupt(a) \in Seq(Statements) /\ Len(Interrupt(a)) = Len(a)
        /\ \A i \in 1 .. Len(a) : Interrupt(a)[i].interrupted
    <2>1. a \in Seq(Statements) /\ \A i \in 1 .. Len(a) - 1 : a[i].interrupted
      BY <1>1 DEF ThreadInv
    <2>2. CASE a = << >>
      BY <2>1, <2>2 DEF Interrupt
    <2>3. CASE a # << >>
      <3>1. Len(a) \in 1 .. Len(a) /\ a[Len(a)] \in Statements
        BY <2>1, <2>3
      <3>2. [a[Len(a)] EXCEPT !.interrupted = TRUE] \in Statements
        BY <3>1 DEF Statements
      <3>3. Interrupt(a) = [a EXCEPT ![Len(a)] = [a[Len(a)] EXCEPT !.interrupted = TRUE]]
        BY <2>3 DEF Interrupt
      <3>4. [a[Len(a)] EXCEPT !.interrupted = TRUE].interrupted
        BY <3>1 DEF Statements
      <3> QED
        BY <2>1, <3>1, <3>2, <3>3, <3>4
    <2> QED
      BY <2>2, <2>3
  <1>4. Statement(n) \in Statements /\ Statement(n).pieces = 0 /\ Statement(n).id = n
    BY <1>1 DEF Statement, Statements
  <1>5. /\ new \in Seq(Statements) /\ Len(new) = Len(a) + 1 /\ new # << >>
        /\ new[Len(new)] = Statement(n)
        /\ \A i \in 1 .. Len(new) - 1 : new[i].interrupted
    <2>1. PICK b \in Seq(Statements), s \in Statements : b = Interrupt(a) /\ s = Statement(n)
      BY <1>3, <1>4
    <2>2. Len(a) \in Nat /\ Len(b) = Len(a) /\ \A i \in 1 .. Len(a) : b[i].interrupted
      BY <1>3, <2>1
    <2>3. /\ Append(b, s) \in Seq(Statements) /\ Len(Append(b, s)) = Len(b) + 1
          /\ Append(b, s)[Len(b) + 1] = s /\ \A i \in 1 .. Len(b) : Append(b, s)[i] = b[i]
      OBVIOUS
    <2>4. new = Append(b, s)
      BY <2>1
    <2> HIDE DEF new
    <2> QED
      BY <2>1, <2>2, <2>3, <2>4
  <1>6. <<Piece(t, n, 0)>> = OwnPieces(t, Statement(n)) /\ <<Piece(t, n, 0)>> \in Seq(Pieces)
    <2>1. OwnPieces(t, Statement(n)) = [k \in 1 .. 1 |-> Piece(t, n, k - 1)]
      BY <1>4 DEF OwnPieces
    <2> QED
      BY <2>1, <1>1, PieceType
  <1>7. ThreadInv(t, new, <<Piece(t, n, 0)>>, call[t], logged[t])
    <2>1. \A k \in DOMAIN <<Piece(t, n, 0)>> : <<Piece(t, n, 0)>>[k].thread = t
      BY <1>1, PieceType
    <2> HIDE DEF new
    <2> QED
      BY <1>1, <1>5, <1>6, <2>1 DEF ThreadInv
  <1> HIDE DEF new
  <1>8. /\ active' = [active EXCEPT ![t] = new]
        /\ stream' = [stream EXCEPT ![t] = <<Piece(t, n, 0)>>]
        /\ call' = [call EXCEPT ![t] = call[t]] /\ logged' = [logged EXCEPT ![t] = logged[t]]
        /\ sinks_' = sinks_
    BY DEF Begin, new, IInv
  <1> QED
    BY <1>1, <1>7, <1>8, OneThread

(* The innermost statement writes on.                                       *)
LEMMA OperandInv ==
  ASSUME IInv, NEW t \in Threads, Operand(t)
  PROVE  IInv'
  <1> DEFINE a == active[t]
             s == a[Len(a)]
             g == [s EXCEPT !.pieces = @ + 1]
             new == [a EXCEPT ![Len(a)] = g]
             st == Append(stream[t], Piece(t, s.id, s.pieces + 1))
  <1>1. ThreadInv(t, a, stream[t], call[t], logged[t]) /\ a # << >> /\ call[t] = NoCall
    BY DEF IInv, Operand, Streaming
  <1>2. a \in Seq(Statements) /\ s \in Statements /\ Last(a) = s /\ Len(a) \in Nat \ {0}
    BY <1>1, FrontFacts DEF ThreadInv
  <1>3. g \in Statements /\ g.interrupted = s.interrupted /\ s.id \in Nat /\ s.pieces \in Nat
    BY <1>2, GrownType
  <1>4. /\ new \in Seq(Statements) /\ Len(new) = Len(a) /\ new # << >> /\ new[Len(a)] = g
        /\ \A i \in 1 .. Len(a) - 1 : new[i] = a[i]
    <2> HIDE DEF g
    <2> QED
      BY <1>2, <1>3
  <1>5. st \in Seq(Pieces) /\ \A k \in DOMAIN st : st[k].thread = t
    <2>1. stream[t] \in Seq(Pieces) /\ \A k \in DOMAIN stream[t] : stream[t][k].thread = t
      BY <1>1 DEF ThreadInv
    <2>2. s.id \in Nat /\ s.pieces + 1 \in Int
      BY <1>3
    <2> HIDE DEF s, g
    <2> QED
      BY <2>1, <2>2, AppendPiece
  <1>6. ~s.interrupted => st = OwnPieces(t, g)
    BY <1>1, <1>2, OwnPiecesGrow DEF ThreadInv
  <1>7. ThreadInv(t, new, st, call[t], logged[t])
    <2> HIDE DEF new, st, g
    <2> QED
      BY <1>1, <1>3, <1>4, <1>5, <1>6 DEF ThreadInv
  <1>8. /\ active' = [active EXCEPT ![t] = new] /\ stream' = [stream EXCEPT ![t] = st]
    BY <1>2 DEF Operand, IInv
  <1>9. /\ call' = [call EXCEPT ![t] = call[t]] /\ logged' = [logged EXCEPT ![t] = logged[t]]
        /\ sinks_' = sinks_ /\ count' \in Nat
    BY DEF Operand, IInv
  <1> HIDE DEF new, st
  <1> QED
    BY <1>7, <1>8, <1>9, OneThread

(* What is handed to Log is the innermost statement's own.                  *)
LEMMA LogInv ==
  ASSUME IInv, NEW t \in Threads, Streaming(t), NEW last \in {END, TEXT}, NEW st,
         CoreLog(t, Append(stream[t], Piece(t, Last(active[t]).id, last))),
         st \in {stream[t], Append(stream[t], Piece(t, Last(active[t]).id, last))},
         stream' = [stream EXCEPT ![t] = st],
         active' = active, sinks_' = sinks_, count' = count
  PROVE  IInv'
  <1> DEFINE a == active[t]
             s == Last(a)
             text == Append(stream[t], Piece(t, s.id, last))
             c == [text |-> text, of |-> sinks_, at |-> 1]
             lg == Append(logged[t], [text |-> text, statement |-> s])
  <1>1. ThreadInv(t, a, stream[t], call[t], logged[t]) /\ a # << >> /\ call[t] = NoCall
    BY DEF IInv, Streaming
  <1>2. a \in Seq(Statements) /\ s \in Statements /\ s = a[Len(a)] /\ s.id \in Nat /\ last \in Int
    <2>1. a \in Seq(Statements)
      BY <1>1 DEF ThreadInv
    <2>2. s \in Statements /\ s = a[Len(a)]
      BY <1>1, <2>1, FrontFacts
    <2>3. last \in Int
      BY DEF END, TEXT
    <2> QED
      BY <2>1, <2>2, <2>3, GrownType
  <1>3. stream[t] \in Seq(Pieces) /\ \A k \in DOMAIN stream[t] : stream[t][k].thread = t
    BY <1>1 DEF ThreadInv
  <1>4. text \in Seq(Pieces) /\ \A k \in DOMAIN text : text[k].thread = t
    BY <1>2, <1>3, AppendPiece
  <1>5. Own(t, text, s)
    BY <1>1, <1>2, <1>4 DEF ThreadInv, Own
  <1>6. lg \in Seq(Messages) /\ \A i \in DOMAIN lg : Own(t, lg[i].text, lg[i].statement)
    <2>1. logged[t] \in Seq(Messages) /\ \A i \in DOMAIN logged[t] : Own(t, logged[t][i].text, logged[t][i].statement)
      BY <1>1 DEF ThreadInv
    <2> HIDE DEF text
    <2> QED
      BY <1>2, <1>4, <1>5, <2>1, AppendMessage
  <1>7. c \in Calls /\ c # NoCall /\ c.at >= 1
    <2> HIDE DEF text
    <2> QED
      BY <1>4 DEF IInv, Calls, NoCall
  <1>8. ThreadInv(t, a, st, c, lg)
    <2>1. st \in Seq(Pieces) /\ \A k \in DOMAIN st : st[k].thread = t
      BY <1>3, <1>4
    <2> HIDE DEF c, lg
    <2> QED
      BY <1>1, <1>6, <1>7, <2>1 DEF ThreadInv
  <1>9. /\ call' = [call EXCEPT ![t] = c] /\ logged' = [logged EXCEPT ![t] = lg]
         /\ active' = [active EXCEPT ![t] = a] /\ count' \in Nat
    BY DEF CoreLog, IInv
  <1> HIDE DEF c, lg
  <1> QED
    BY <1>8, <1>9, OneThread

(* The two ways to log.                                                     *)
LEMMA EndInv ==
  ASSUME IInv, NEW t \in Threads, End(t)
  PROVE  IInv'
  BY LogInv DEF End

(* Format may also end its statement without logging it.                    *)
LEMMA FormatInv ==
  ASSUME IInv, NEW t \in Threads, Format(t)
  PROVE  IInv'
  <1>1. CASE /\ CoreLog(t, Append(stream[t], Piece(t, Last(active[t]).id, TEXT)))
             /\ UNCHANGED active
    <2>1. stream' = [stream EXCEPT ![t] = stream[t]]
      BY DEF Format, IInv
    <2> QED
      BY <1>1, <2>1, LogInv DEF Format
  <1>2. CASE active' = [active EXCEPT ![t] = Front(@)] /\ UNCHANGED <<call, logged>>
    <2> DEFINE a == active[t]
    <2>1. ThreadInv(t, a, stream[t], call[t], logged[t]) /\ a # << >> /\ call[t] = NoCall
      BY DEF IInv, Format, Streaming
    <2>2. /\ Front(a) \in Seq(Statements) /\ Len(Front(a)) = Len(a) - 1 /\ Len(a) \in Nat
          /\ \A i \in 1 .. Len(a) - 1 : Front(a)[i] = a[i]
      BY <2>1, FrontFacts DEF ThreadInv
    <2>3. Front(a) # << >> => Front(a)[Len(Front(a))].interrupted
      BY <2>1, <2>2 DEF ThreadInv
    <2>4. \A i \in 1 .. Len(Front(a)) - 1 : Front(a)[i].interrupted
      BY <2>1, <2>2 DEF ThreadInv
    <2>5. ThreadInv(t, Front(a), stream[t], call[t], logged[t])
      BY <2>1, <2>2, <2>3, <2>4 DEF ThreadInv
    <2>6. /\ active' = [active EXCEPT ![t] = Front(a)] /\ stream' = [stream EXCEPT ![t] = stream[t]]
          /\ call' = [call EXCEPT ![t] = call[t]] /\ logged' = [logged EXCEPT ![t] = logged[t]]
          /\ sinks_' = sinks_ /\ count' \in Nat
      BY <1>2 DEF Format, IInv
    <2> QED
      BY <2>5, <2>6, OneThread
  <1> QED
    BY <1>1, <1>2 DEF Format

(* The statements wait while a sink writes.                                 *)
LEMMA WriteSinkInv ==
  ASSUME IInv, NEW t \in Threads, WriteSink(t)
  PROVE  IInv'
  <1> DEFINE c == [call[t] EXCEPT !.at = @ + 1]
  <1>1. ThreadInv(t, active[t], stream[t], call[t], logged[t]) /\ call[t] \in Calls
    BY DEF IInv, ThreadInv
  <1>2. c \in Calls /\ c # NoCall /\ c.at >= 1 /\ call[t] # NoCall
    <2>1. call[t].at \in Nat /\ call[t].at \in 1 .. Len(call[t].of)
      BY <1>1 DEF WriteSink, Calls
    <2>2. c \in Calls /\ c.at = call[t].at + 1
      BY <1>1, <2>1 DEF Calls
    <2> QED
      BY <2>1, <2>2 DEF NoCall
  <1>3. ThreadInv(t, active[t], stream[t], c, logged[t])
    <2> HIDE DEF c
    <2> QED
      BY <1>1, <1>2 DEF ThreadInv
  <1>4. /\ active' = [active EXCEPT ![t] = active[t]] /\ stream' = [stream EXCEPT ![t] = stream[t]]
        /\ call' = [call EXCEPT ![t] = c] /\ logged' = [logged EXCEPT ![t] = logged[t]]
        /\ sinks_' = sinks_ /\ count' \in Nat
    BY DEF WriteSink, IInv
  <1> HIDE DEF c
  <1> QED
    BY <1>3, <1>4, OneThread

(* The statement around goes on, and has been interrupted.                  *)
LEMMA ReturnInv ==
  ASSUME IInv, NEW t \in Threads, Return(t)
  PROVE  IInv'
  <1> DEFINE a == active[t]
  <1>1. ThreadInv(t, a, stream[t], call[t], logged[t]) /\ call[t] # NoCall /\ NoCall \in Calls
    BY DEF IInv, Return, NoCall, Calls
  <1>2. a # << >> /\ a \in Seq(Statements)
    BY <1>1 DEF ThreadInv
  <1>3. /\ Front(a) \in Seq(Statements) /\ Len(Front(a)) = Len(a) - 1 /\ Len(a) \in Nat
        /\ \A i \in 1 .. Len(a) - 1 : Front(a)[i] = a[i]
    BY <1>2, FrontFacts
  <1>4. Front(a) # << >> => Front(a)[Len(Front(a))].interrupted
    BY <1>1, <1>3 DEF ThreadInv
  <1>5. \A i \in 1 .. Len(Front(a)) - 1 : Front(a)[i].interrupted
    <2>1. \A i \in 1 .. Len(a) - 1 : a[i].interrupted
      BY <1>1 DEF ThreadInv
    <2> HIDE DEF a
    <2> QED
      BY <1>3, <2>1
  <1>6. ThreadInv(t, Front(a), stream[t], NoCall, logged[t])
    BY <1>1, <1>3, <1>4, <1>5 DEF ThreadInv
  <1>7. /\ active' = [active EXCEPT ![t] = Front(a)] /\ stream' = [stream EXCEPT ![t] = stream[t]]
        /\ call' = [call EXCEPT ![t] = NoCall] /\ logged' = [logged EXCEPT ![t] = logged[t]]
        /\ sinks_' = sinks_ /\ count' \in Nat
    BY DEF Return, IInv
  <1> QED
    BY <1>6, <1>7, OneThread

(* A call that is disturbed has its text still, and goes through no sinks.  *)
LEMMA CallsDisturbed ==
  ASSUME Disturb, NEW t \in Threads, call[t] \in Calls, call[t] = NoCall \/ call[t].at >= 1
  PROVE  /\ call'[t] \in Calls
         /\ call'[t] = NoCall <=> call[t] = NoCall
         /\ call[t] # NoCall => call'[t].of = << >> /\ call'[t].at = call[t].at
  <1>1. CASE call[t] = NoCall
    BY <1>1 DEF Disturb
  <1>2. CASE call[t] # NoCall
    <2> DEFINE c == [call[t] EXCEPT !.of = << >>]
    <2>1. call'[t] = c
      BY <1>2 DEF Disturb
    <2>2. c \in Calls /\ c.of = << >> /\ c.at = call[t].at
      <3>1. << >> \in Seq(Entries)
        OBVIOUS
      <3> QED
        BY <3>1 DEF Calls
    <2>3. c # NoCall
      BY <1>2, <2>2 DEF NoCall
    <2> QED
      BY <1>2, <2>1, <2>2, <2>3
  <1> QED
    BY <1>1, <1>2

(* The sinks and the level are no thread's.                                 *)
LEMMA CoreInv ==
  ASSUME IInv,
         \/ \E s \in Sinks : AddSink(s)
         \/ DeleteLogFileSink
         \/ \E l \in Levels : SetLogLevel(l)
  PROVE  IInv'
  <1>1. UNCHANGED <<stream, active, count, logged>>
    BY DEF AddSink, DeleteLogFileSink, SetLogLevel
  <1>2. sinks_' \in Seq(Entries)
    <2>1. CASE \E s \in Sinks : AddSink(s)
      BY <2>1 DEF AddSink, IInv, Entries
    <2>2. CASE DeleteLogFileSink
      BY <2>2, FrontFacts, FrontOfNone DEF DeleteLogFileSink, IInv
    <2>3. CASE \E l \in Levels : SetLogLevel(l)
      BY <2>3 DEF SetLogLevel, IInv
    <2> QED
      BY <2>1, <2>2, <2>3
  <1>3. ASSUME NEW t \in Threads
        PROVE  /\ call'[t] \in Calls
               /\ ThreadInv(t, active[t], stream[t], call'[t], logged[t])
    <2>1. ThreadInv(t, active[t], stream[t], call[t], logged[t]) /\ call[t] \in Calls
      BY DEF IInv
    <2>2. CASE Disturb
      <3>1. call[t] = NoCall \/ call[t].at >= 1
        BY <2>1 DEF ThreadInv
      <3>2. /\ call'[t] \in Calls /\ (call'[t] = NoCall <=> call[t] = NoCall)
            /\ call[t] # NoCall => call'[t].at = call[t].at
        BY <2>1, <2>2, <3>1, CallsDisturbed
      <3> QED
        BY <2>1, <3>2 DEF ThreadInv
    <2>3. CASE call' = call
      BY <2>1, <2>3
    <2> QED
      BY <2>2, <2>3 DEF AddSink, DeleteLogFileSink, SetLogLevel
  <1>4. call' \in [Threads -> Calls]
    <2>1. call' = [t \in Threads |-> call'[t]]
      BY DEF AddSink, DeleteLogFileSink, Disturb, SetLogLevel, IInv
    <2> QED
      BY <1>3, <2>1
  <1> QED
    BY <1>1, <1>2, <1>3, <1>4 DEF IInv

-----------------------------------------------------------------------------
(* The invariant of the threads holds throughout.                           *)
THEOREM ThreadsHold == StreamSpec => []IInv
  <1>1. IInv /\ [NextStream]_streamVars => IInv'
    <2> SUFFICES ASSUME IInv, [NextStream]_streamVars
                 PROVE  IInv'
      OBVIOUS
    <2>1. ASSUME NEW t \in Threads, NEW l \in Levels, Begin(t, l) PROVE IInv'
      BY <2>1, BeginInv
    <2>2. ASSUME NEW t \in Threads,
                 Operand(t) \/ End(t) \/ Format(t) \/ WriteSink(t) \/ Return(t)
          PROVE  IInv'
      BY <2>2, OperandInv, EndInv, FormatInv, WriteSinkInv, ReturnInv
    <2>3. CASE UNCHANGED streamVars
      BY <2>3 DEF streamVars, IInv
    <2> QED
      BY <2>1, <2>2, <2>3, CoreInv DEF NextStream
  <1> QED
    BY InitInv, <1>1, PTL DEF StreamSpec

(* Whatever else is logged meanwhile, a statement of which no operand has   *)
(* logged hands its own text to Log, and no text has another thread's.      *)
THEOREM MessagesAreOwn == StreamSpec => []OwnMessage
  <1>1. IInv => OwnMessage
    BY DEF IInv, ThreadInv, OwnMessage, Own
  <1> QED
    BY <1>1, ThreadsHold, PTL

-----------------------------------------------------------------------------
(* A call c waits for a sink it has not got to.                             *)
Awaits(c, s) == \E i \in DOMAIN c.of : i >= c.at /\ c.of[i] = s

Texts == Seq(Seq(Pieces))

(* A call goes through the entries there are, of which no two are the same, *)
(* or, once they have changed, through no more.                             *)
DeliveryInv ==
  /\ IInv
  /\ written \in [Entries -> [Threads -> Texts]] /\ due \in [Entries -> [Threads -> Texts]]
  /\ \A i, j \in DOMAIN sinks_ : sinks_[i] = sinks_[j] => i = j
  /\ \A t \in Threads : call[t].of \in {sinks_, << >>}
  /\ EverySinkOnce

(* A thread that is not in Log waits for no sink, ...                       *)
LEMMA NothingAwaited ==
  ASSUME NEW s
  PROVE  ~Awaits(NoCall, s)
  BY DEF Awaits, NoCall

(* ... and one that has just begun for all of them.                         *)
LEMMA AllAwaited ==
  ASSUME NEW text, NEW s, sinks_ \in Seq(Entries)
  PROVE  Awaits([text |-> text, of |-> sinks_, at |-> 1], s) <=> s \in Range(sinks_)
  BY DEF Awaits, Range

(* Once a sink is written to, the call waits for the others as before.      *)
LEMMA OneAwaitedLess ==
  ASSUME NEW c \in Calls, c.at \in 1 .. Len(c.of), NEW s,
         \A i, j \in DOMAIN c.of : c.of[i] = c.of[j] => i = j
  PROVE  LET d == [c EXCEPT !.at = @ + 1]
         IN  /\ Awaits(c, c.of[c.at]) /\ ~Awaits(d, c.of[c.at])
             /\ s # c.of[c.at] => (Awaits(d, s) <=> Awaits(c, s))
  <1> DEFINE d == [c EXCEPT !.at = @ + 1]
  <1>1. c.of \in Seq(Entries) /\ c.at \in Nat /\ d.of = c.of /\ d.at = c.at + 1
    BY DEF Calls
  <1>2. DOMAIN c.of = 1 .. Len(c.of) /\ Len(c.of) \in Nat
    BY <1>1
  <1> HIDE DEF d
  <1>3. Awaits(c, c.of[c.at])
    BY <1>1, <1>2 DEF Awaits
  <1>4. ~Awaits(d, c.of[c.at])
    BY <1>1, <1>2 DEF Awaits
  <1>5. s # c.of[c.at] => (Awaits(d, s) <=> Awaits(c, s))
    BY <1>1, <1>2 DEF Awaits
  <1> QED
    BY <1>3, <1>4, <1>5 DEF d

(* The texts are left alone where the calls are.                            *)
LEMMA SameDelivery ==
  ASSUME DeliveryInv, IInv', UNCHANGED <<written, due, call>>,
         sinks_' = sinks_
  PROVE  DeliveryInv'
  BY DEF DeliveryInv, EverySinkOnce

(* What Log is given is due to the sinks there are, which all wait for it.  *)
LEMMA LogDelivery ==
  ASSUME DeliveryInv, IInv', NEW t \in Threads, call[t] = NoCall, NEW text \in Seq(Pieces),
         CoreLog(t, text), UNCHANGED <<sinks_, written>>
  PROVE  DeliveryInv'
  <1> DEFINE c == [text |-> text, of |-> sinks_, at |-> 1]
  <1>1. /\ call' = [call EXCEPT ![t] = c] /\ call'[t] = c
        /\ \A x \in Threads : x # t => call'[x] = call[x]
    BY DEF CoreLog, DeliveryInv, IInv
  <1>2. due' = [s \in Entries |->
                  IF s \in Range(sinks_) THEN [due[s] EXCEPT ![t] = Append(@, text)] ELSE due[s]]
    BY DEF CoreLog
  <1>3. ASSUME NEW s \in Entries
        PROVE  /\ due'[s] \in [Threads -> Texts]
               /\ \A x \in Threads : x # t => due'[s][x] = due[s][x]
               /\ due'[s][t] = IF s \in Range(sinks_) THEN Append(due[s][t], text) ELSE due[s][t]
    <2>1. due[s] \in [Threads -> Texts] /\ Append(due[s][t], text) \in Texts
      BY DEF DeliveryInv, Texts
    <2> HIDE DEF Texts
    <2> QED
      BY <1>2, <2>1
  <1>4. due' \in [Entries -> [Threads -> Texts]]
    BY <1>2, <1>3
  <1>5. ASSUME NEW s \in Entries
        PROVE  due'[s][t] = IF Awaits(call'[t], s) THEN Append(written[s][t], call'[t].text)
                            ELSE written[s][t]
    <2>1. due[s][t] = written[s][t]
      BY NothingAwaited DEF DeliveryInv, EverySinkOnce, Awaits
    <2>2. Awaits(c, s) <=> s \in Range(sinks_)
      BY AllAwaited DEF DeliveryInv, IInv
    <2> QED
      BY <1>1, <1>3, <2>1, <2>2
  <1>6. ASSUME NEW x \in Threads, x # t, NEW s \in Entries
        PROVE  due'[s][x] = IF Awaits(call'[x], s) THEN Append(written[s][x], call'[x].text)
                            ELSE written[s][x]
    BY <1>1, <1>3, <1>6 DEF DeliveryInv, EverySinkOnce, Awaits
  <1>7. EverySinkOnce'
    BY <1>5, <1>6 DEF EverySinkOnce, Awaits
  <1>8. \A x \in Threads : call'[x].of \in {sinks_', << >>}
    BY <1>1 DEF DeliveryInv
  <1> QED
    BY <1>4, <1>7, <1>8 DEF DeliveryInv

(* The sink written to has all that is due.                                 *)
LEMMA WriteDelivery ==
  ASSUME DeliveryInv, IInv', NEW t \in Threads, WriteSink(t)
  PROVE  DeliveryInv'
  <1> DEFINE c == call[t]
             d == [c EXCEPT !.at = @ + 1]
             s == c.of[c.at]
  <1>1. c \in Calls /\ c.at \in 1 .. Len(c.of)
    BY DEF WriteSink, DeliveryInv, IInv
  <1>2. c.of = sinks_ /\ c.at >= 1 /\ s \in Entries
    <2>2. c.of = sinks_ /\ c.at >= 1
      BY <1>1 DEF DeliveryInv
    <2> QED
      BY <1>1, <2>2 DEF DeliveryInv, IInv
  <1>3. /\ written' = [written EXCEPT ![s][t] = Append(@, c.text)]
        /\ call' = [call EXCEPT ![t] = d] /\ UNCHANGED <<sinks_, due>>
    BY <1>2 DEF WriteSink
  <1>4. /\ d.of = sinks_ /\ d.at >= 1 /\ d.text = c.text /\ c.text \in Seq(Pieces)
    BY <1>1, <1>2 DEF Calls
  <1>5. call'[t] = d /\ \A x \in Threads : x # t => call'[x] = call[x]
    BY <1>3 DEF DeliveryInv, IInv
  <1>6. \A r : /\ Awaits(c, s) /\ ~Awaits(d, s)
               /\ r # s => (Awaits(d, r) <=> Awaits(c, r))
    BY <1>1, <1>2, OneAwaitedLess DEF DeliveryInv
  <1> HIDE DEF c, d, s
  <1>7. /\ written' \in [Entries -> [Threads -> Texts]]
        /\ written'[s][t] = Append(written[s][t], c.text)
        /\ \A r \in Entries, x \in Threads : r # s \/ x # t => written'[r][x] = written[r][x]
    <2>1. /\ written \in [Entries -> [Threads -> Texts]]
          /\ Append(written[s][t], c.text) \in Texts
      BY <1>2, <1>4 DEF DeliveryInv, Texts
    <2> HIDE DEF Texts
    <2> QED
      BY <1>2, <1>3, <2>1
  <1>8. ASSUME NEW r \in Entries
        PROVE  due[r][t] = IF Awaits(d, r) THEN Append(written'[r][t], d.text) ELSE written'[r][t]
    <2>1. due[r][t] = IF Awaits(c, r) THEN Append(written[r][t], c.text) ELSE written[r][t]
      BY DEF DeliveryInv, EverySinkOnce, Awaits, c
    <2> QED
      BY <1>4, <1>6, <1>7, <2>1
  <1>9. ASSUME NEW x \in Threads, x # t, NEW r \in Entries
        PROVE  due[r][x] = IF Awaits(call'[x], r) THEN Append(written'[r][x], call'[x].text)
                           ELSE written'[r][x]
    <2>1. due[r][x] = IF Awaits(call[x], r) THEN Append(written[r][x], call[x].text)
                      ELSE written[r][x]
      BY DEF DeliveryInv, EverySinkOnce, Awaits
    <2> QED
      BY <1>5, <1>7, <1>9, <2>1
  <1>10. EverySinkOnce'
    BY <1>3, <1>5, <1>8, <1>9 DEF EverySinkOnce, Awaits
  <1>11. \A x \in Threads : call'[x].of \in {sinks_', << >>}
    BY <1>3, <1>4, <1>5 DEF DeliveryInv
  <1> QED
    BY <1>3, <1>7, <1>10, <1>11 DEF DeliveryInv

(* Log returns when no sink waits.                                          *)
LEMMA ReturnDelivery ==
  ASSUME DeliveryInv, IInv', NEW t \in Threads, Return(t)
  PROVE  DeliveryInv'
  <1>1. /\ call' = [call EXCEPT ![t] = NoCall] /\ UNCHANGED <<sinks_, written, due>>
        /\ call[t] \in Calls /\ call[t].at > Len(call[t].of)
    BY DEF Return, DeliveryInv, IInv
  <1>2. call'[t] = NoCall /\ \A x \in Threads : x # t => call'[x] = call[x]
    BY <1>1 DEF DeliveryInv, IInv
  <1>3. \A s : ~Awaits(call[t], s)
    BY <1>1 DEF Awaits, Calls
  <1>4. ASSUME NEW x \in Threads, NEW s \in Entries
        PROVE  due[s][x] = IF Awaits(call'[x], s) THEN Append(written[s][x], call'[x].text)
                           ELSE written[s][x]
    <2>1. due[s][x] = IF Awaits(call[x], s) THEN Append(written[s][x], call[x].text)
                      ELSE written[s][x]
      BY DEF DeliveryInv, EverySinkOnce, Awaits
    <2> QED
      BY <1>2, <1>3, <2>1, NothingAwaited
  <1>5. EverySinkOnce'
    BY <1>1, <1>4 DEF EverySinkOnce, Awaits
  <1>6. \A x \in Threads : call'[x].of \in {sinks_', << >>}
    BY <1>1, <1>2 DEF DeliveryInv, NoCall
  <1> QED
    BY <1>1, <1>5, <1>6 DEF DeliveryInv

(* Entries are added once, and one taken away leaves the others.  Nothing   *)
(* more is due of what is being logged, and all else stays as it is.        *)
LEMMA SinksDelivery ==
  ASSUME DeliveryInv, IInv', (\E s \in Sinks : AddSink(s)) \/ DeleteLogFileSink
  PROVE  DeliveryInv'
  <1>1. written' = written /\ Disturb
    BY DEF AddSink, DeleteLogFileSink
  <1>2. sinks_ \in Seq(Entries) /\ \A i, j \in DOMAIN sinks_ : sinks_[i] = sinks_[j] => i = j
    BY DEF DeliveryInv, IInv
  <1>3. \A i, j \in DOMAIN sinks_' : sinks_'[i] = sinks_'[j] => i = j
    <2>1. ASSUME NEW s \in Sinks, AddSink(s)
          PROVE  \A i, j \in DOMAIN sinks_' : sinks_'[i] = sinks_'[j] => i = j
      <3>1. PICK e : e \notin Range(sinks_) /\ sinks_' = Append(sinks_, e)
        BY <2>1 DEF AddSink
      <3> QED
        BY <1>2, <3>1 DEF Range
    <2>2. CASE DeleteLogFileSink
      <3>1. sinks_' = Front(sinks_)
        BY <2>2 DEF DeleteLogFileSink
      <3>2. CASE sinks_ = << >>
        BY <3>1, <3>2, FrontOfNone
      <3>3. CASE sinks_ # << >>
        <4>1. /\ Len(sinks_') = Len(sinks_) - 1 /\ sinks_' \in Seq(Entries)
              /\ \A i \in 1 .. Len(sinks_) - 1 : sinks_'[i] = sinks_[i]
          BY <1>2, <3>1, <3>3, FrontFacts
        <4>2. DOMAIN sinks_' = 1 .. Len(sinks_) - 1 /\ DOMAIN sinks_ = 1 .. Len(sinks_)
          BY <1>2, <4>1
        <4> QED
          BY <1>2, <4>1, <4>2
      <3> QED
        BY <3>2, <3>3
    <2> QED
      BY <2>1, <2>2
  <1>4. ASSUME NEW t \in Threads
        PROVE  /\ call'[t].of = << >>
               /\ call[t] = NoCall => call'[t] = NoCall
    <2>1. call[t] \in Calls /\ (call[t] = NoCall \/ call[t].at >= 1)
      BY DEF DeliveryInv, IInv, ThreadInv
    <2>2. call'[t] = NoCall => call'[t].of = << >>
      BY DEF NoCall
    <2> QED
      BY <1>1, <2>1, <2>2, CallsDisturbed
  <1>5. ASSUME NEW e \in Entries, NEW t \in Threads
        PROVE  due'[e][t] = written[e][t] /\ due'[e][t] \in Texts
    <2>1. due'[e][t] = IF call[t] = NoCall THEN due[e][t] ELSE written[e][t]
      BY <1>1 DEF Disturb
    <2>2. call[t] = NoCall => due[e][t] = written[e][t]
      BY NothingAwaited DEF DeliveryInv, EverySinkOnce, Awaits
    <2> QED
      BY <2>1, <2>2 DEF DeliveryInv
  <1>6. due' \in [Entries -> [Threads -> Texts]]
    <2>1. due' = [e \in Entries |-> [t \in Threads |-> due'[e][t]]]
      BY <1>1 DEF Disturb
    <2> QED
      BY <1>5, <2>1
  <1>7. EverySinkOnce'
    BY <1>1, <1>4, <1>5 DEF EverySinkOnce
  <1> QED
    BY <1>1, <1>3, <1>4, <1>6, <1>7 DEF DeliveryInv

(* The other steps write no text.                                           *)
LEMMA DeliveryStep ==
  ASSUME DeliveryInv, IInv', [NextStream]_streamVars
  PROVE  DeliveryInv'
  <1>1. CASE UNCHANGED <<written, due, call, sinks_>>
    BY <1>1, SameDelivery DEF DeliveryInv
  <1>2. ASSUME NEW t \in Threads, End(t) \/ Format(t), ~UNCHANGED <<written, due, call, sinks_>>
        PROVE  DeliveryInv'
    <2>1. /\ call[t] = NoCall /\ active[t] # << >> /\ UNCHANGED <<sinks_, written>>
          /\ \E last \in {END, TEXT} : CoreLog(t, Append(stream[t], Piece(t, Last(active[t]).id, last)))
      BY <1>2 DEF End, Format, Streaming
    <2>2. PICK last \in {END, TEXT} :
            CoreLog(t, Append(stream[t], Piece(t, Last(active[t]).id, last)))
      BY <2>1
    <2>3. ThreadInv(t, active[t], stream[t], call[t], logged[t])
      BY DEF DeliveryInv, IInv
    <2>4. stream[t] \in Seq(Pieces) /\ Last(active[t]) \in Statements
      BY <2>1, <2>3, FrontFacts DEF ThreadInv
    <2> DEFINE text == Append(stream[t], Piece(t, Last(active[t]).id, last))
    <2>5. text \in Seq(Pieces)
      <3>1. Last(active[t]).id \in Nat
        BY <2>4 DEF Statements
      <3>2. last \in Int
        BY DEF END, TEXT
      <3>3. Piece(t, Last(active[t]).id, last) \in Pieces
        BY <3>1, <3>2, PieceType
      <3> QED
        BY <2>4, <3>3
    <2>6. CoreLog(t, text)
      BY <2>2
    <2> HIDE DEF text
    <2> QED
      BY <2>1, <2>5, <2>6, LogDelivery
  <1>3. ASSUME NEW t \in Threads, Operand(t) \/ \E l \in Levels : Begin(t, l)
        PROVE  UNCHANGED <<written, due, call, sinks_>>
    BY <1>3 DEF Begin, Operand
  <1>4. ASSUME NEW l \in Levels, SetLogLevel(l)
        PROVE  UNCHANGED <<written, due, call, sinks_>>
    BY <1>4 DEF SetLogLevel
  <1>5. UNCHANGED streamVars => UNCHANGED <<written, due, call, sinks_>>
    BY DEF streamVars
  <1> QED
    BY <1>1, <1>2, <1>3, <1>4, <1>5, WriteDelivery, ReturnDelivery, SinksDelivery DEF NextStream

(* A sink that the environment may ask for is there once or not at all.     *)
LEMMA OneIfAny ==
  ASSUME NEW S, NEW x \in S, NEW q, q = <<x>> \/ q = << >>
  PROVE  q \in Seq(S) /\ Len(q) \in 0 .. 1 /\ \A i \in 1 .. Len(q) : q[i] = x
  <1>1. CASE q = <<x>>
    <2>1. q \in Seq(S)
      BY <1>1
    <2>2. Len(q) = 1
      BY <1>1
    <2>3. q[1] = x
      BY <1>1
    <2> QED
      BY <2>1, <2>2, <2>3
  <1>2. CASE q = << >>
    BY <1>2
  <1> QED
    BY <1>1, <1>2

(* To begin with nothing is due, and a sink is there once.                  *)
LEMMA DeliveryInit ==
  ASSUME InitStream
  PROVE  DeliveryInv
  <1>1. \A i, j \in DOMAIN sinks_ : sinks_[i] = sinks_[j] => i = j
    <2>1. PICK env \in Environments : sinks_ = SinksFromEnv(env)
      BY DEF InitStream
    <2> DEFINE out == <<"stdout", 1>>
               file == <<"file", 1>>
               a == IF env.stdout THEN <<out>> ELSE << >>
               b == IF env.file THEN <<file>> ELSE << >>
    <2>2. sinks_ = a \o b
      BY <2>1 DEF SinksFromEnv
    <2>7. out \in Entries /\ file \in Entries /\ out # file
      BY FromEnvironment
    <2> HIDE DEF out, file
    <2>3. /\ a \in Seq(Entries) /\ Len(a) \in 0 .. 1 /\ \A i \in 1 .. Len(a) : a[i] = out
          /\ b \in Seq(Entries) /\ Len(b) \in 0 .. 1 /\ \A i \in 1 .. Len(b) : b[i] = file
      <3>1. (a = <<out>> \/ a = << >>) /\ (b = <<file>> \/ b = << >>)
        BY Zenon
      <3> HIDE DEF a, b
      <3> QED
        BY <2>7, <3>1, OneIfAny
    <2> HIDE DEF a, b
    <2>4. /\ DOMAIN sinks_ = 1 .. Len(a) + Len(b)
          /\ \A i \in 1 .. Len(a) + Len(b) :
               sinks_[i] = IF i <= Len(a) THEN a[i] ELSE b[i - Len(a)]
      BY <2>2, <2>3
    <2>5. \A i \in 1 .. Len(a) + Len(b) : sinks_[i] = IF i <= Len(a) THEN out ELSE file
      BY <2>3, <2>4
    <2>6. \A i, j \in 1 .. Len(a) + Len(b) :
            (i <= Len(a) <=> j <= Len(a)) => i = j
      BY <2>3
    <2> QED
      BY <2>4, <2>5, <2>6, <2>7
  <1>2. written \in [Entries -> [Threads -> Texts]] /\ due = written
    BY DEF InitStream, Texts
  <1>3. \A t \in Threads : call[t] = NoCall
    BY DEF InitStream
  <1>4. EverySinkOnce
    BY <1>2, <1>3, NothingAwaited DEF EverySinkOnce, Awaits
  <1>5. \A t \in Threads : call[t].of \in {sinks_, << >>}
    BY <1>3 DEF NoCall
  <1> QED
    BY <1>1, <1>2, <1>4, <1>5, InitInv DEF DeliveryInv

(* Every sink gets each text that was logged while it was one of them, in   *)
(* order and once for every time it was added, but for the one text of a    *)
(* call on its way there, and for texts during whose call the sinks were    *)
(* changed; whoever changes them, and when.                                 *)
THEOREM EverySinkGetsAll == StreamSpec => []EverySinkOnce
  <1>1. InitStream => DeliveryInv
    BY DeliveryInit
  <1>2. DeliveryInv /\ IInv' /\ [NextStream]_streamVars => DeliveryInv'
    BY DeliveryStep
  <1>3. DeliveryInv => EverySinkOnce
    BY DEF DeliveryInv
  <1> QED
    BY <1>1, <1>2, <1>3, ThreadsHold, PTL DEF StreamSpec

-----------------------------------------------------------------------------
Places == {"idle", "list", "delete", "disk", "open", "write"}

(* Processes between DeleteOldestFile's listing and the open that follows.  *)
Listed == {p \in Procs : pc[p] \in {"delete", "disk", "open"}}

Kept(S) == {f \in DOMAIN files : \A p \in S : f \notin doomed[p]}

(* Where processes are, and that only one in DeleteOldestFile has something *)
(* to delete.                                                               *)
ShapeInv ==
  /\ IsFiniteSet(DOMAIN files)
  /\ pc \in [Procs -> Places]
  /\ DOMAIN doomed = Procs
  /\ \A p \in Procs : pc[p] \in {"disk", "open"} => doomed[p] = {}

CountInv ==
  \A S \in SUBSET Listed :
    Cardinality(Kept(S)) + Cardinality(S) <= MaxFiles + Cardinality(Procs)

FInv == ShapeInv /\ CountInv

-----------------------------------------------------------------------------
(* All sets counted are finite.                                             *)
LEMMA Finite ==
  ASSUME ShapeInv
  PROVE  /\ Cardinality(Procs) \in Nat
         /\ \A S \in SUBSET Procs : IsFiniteSet(S) /\ Cardinality(S) \in Nat
                                      /\ Cardinality(S) <= Cardinality(Procs)
         /\ \A S \in SUBSET Procs : IsFiniteSet(Kept(S)) /\ Cardinality(Kept(S)) \in Nat
  <1>1. Cardinality(Procs) \in Nat
    BY LogSinkFileAssumption, FS_CardinalityType
  <1>2. \A S \in SUBSET Procs : IsFiniteSet(S) /\ Cardinality(S) \in Nat
                                  /\ Cardinality(S) <= Cardinality(Procs)
    BY LogSinkFileAssumption, FS_CardinalityType, FS_Subset
  <1>3. ASSUME NEW S \in SUBSET Procs
        PROVE  IsFiniteSet(Kept(S)) /\ Cardinality(Kept(S)) \in Nat
    <2>1. Kept(S) \subseteq DOMAIN files
      BY DEF Kept
    <2>2. IsFiniteSet(Kept(S))
      BY <2>1, FS_Subset DEF ShapeInv
    <2> QED
      BY <2>2, FS_CardinalityType
  <1> QED
    BY <1>1, <1>2, <1>3

(* A step after which no set of processes keeps more keeps the count.       *)
LEMMA NoMoreKept ==
  ASSUME FInv, ShapeInv', Listed' \subseteq Listed,
         \A S \in SUBSET Listed' : Kept(S)' \subseteq Kept(S)
  PROVE  CountInv'
  <1> SUFFICES ASSUME NEW S \in SUBSET Listed'
               PROVE  Cardinality(Kept(S)') + Cardinality(S) <= MaxFiles + Cardinality(Procs)
    BY DEF CountInv
  <1>1. S \in SUBSET Listed /\ S \in SUBSET Procs
    BY DEF Listed
  <1>2. /\ IsFiniteSet(Kept(S)) /\ Cardinality(Kept(S)) \in Nat
        /\ Cardinality(S) \in Nat /\ Cardinality(Procs) \in Nat
    BY <1>1, Finite DEF FInv
  <1>3. Cardinality(Kept(S)') <= Cardinality(Kept(S)) /\ Cardinality(Kept(S)') \in Nat
    BY <1>2, FS_Subset, FS_CardinalityType
  <1>4. Cardinality(Kept(S)) + Cardinality(S) <= MaxFiles + Cardinality(Procs)
    BY <1>1 DEF FInv, CountInv
  <1> QED
    BY <1>2, <1>3, <1>4, LogSinkFileAssumption

(* Closing a file, or writing to it, leaves the directory's names.          *)
LEMMA SameNames ==
  ASSUME NEW p \in Procs
  PROVE  /\ \A n : DOMAIN Wrote(p, n) = DOMAIN files
         /\ \A fs : DOMAIN Protected(p, fs) = DOMAIN fs
         /\ \A fs : CloseFile(p, fs) => DOMAIN files' = DOMAIN fs
  BY DEF Wrote, Protected, CloseFile

-----------------------------------------------------------------------------
(* DeleteOldestFile reads the directory: what it dooms leaves MaxFiles.     *)
LEMMA ListStep ==
  ASSUME FInv, NEW p \in Procs, ListFiles(p)
  PROVE  FInv'
  <1>0. PICK old \in kSubset(Excess(DOMAIN files), DOMAIN files) :
          doomed' = [doomed EXCEPT ![p] = old]
    BY DEF ListFiles
  <1>1. IsFiniteSet(DOMAIN files) /\ Cardinality(DOMAIN files) \in Nat
    BY FS_CardinalityType DEF FInv, ShapeInv
  <1>2. old \in SUBSET DOMAIN files /\ Cardinality(old) = Excess(DOMAIN files)
    BY DEF kSubset
  <1>3. /\ files' = files /\ pc[p] = "list" /\ pc'[p] = "delete"
        /\ \A q \in Procs : q # p => pc'[q] = pc[q] /\ doomed'[q] = doomed[q]
        /\ doomed'[p] = old
    BY <1>0 DEF ListFiles, Goto, FInv, ShapeInv
  <1>4. ShapeInv'
    BY <1>3 DEF ListFiles, Goto, FInv, ShapeInv, Places
  <1>5. ASSUME NEW S \in SUBSET Listed', p \in S
        PROVE  Cardinality(Kept(S)') + Cardinality(S) <= MaxFiles + Cardinality(Procs)
    <2>1. Kept(S)' \subseteq DOMAIN files \ old
      BY <1>3, <1>5 DEF Kept
    <2>2. IsFiniteSet(old) /\ IsFiniteSet(DOMAIN files \ old)
      BY <1>1, <1>2, FS_Subset
    <2>3. Cardinality(DOMAIN files \ old) = Cardinality(DOMAIN files) - Cardinality(old)
      <3>1. IsFiniteSet((DOMAIN files \ old) \cup old)
            /\ Cardinality((DOMAIN files \ old) \cup old)
                 = Cardinality(DOMAIN files \ old) + Cardinality(old)
                     - Cardinality((DOMAIN files \ old) \cap old)
        BY <2>2, FS_Union
      <3>2. (DOMAIN files \ old) \cup old = DOMAIN files /\ (DOMAIN files \ old) \cap old = {}
        BY <1>2
      <3>3. Cardinality({}) = 0
        BY FS_EmptySet
      <3>4. Cardinality(old) \in Nat /\ Cardinality(DOMAIN files \ old) \in Nat
        BY <2>2, FS_CardinalityType
      <3> QED
        BY <3>1, <3>2, <3>3, <3>4, <1>1
    <2>4. Cardinality(DOMAIN files \ old) <= MaxFiles
      BY <1>1, <1>2, <2>3, LogSinkFileAssumption DEF Excess
    <2>5. Cardinality(Kept(S)') <= Cardinality(DOMAIN files \ old)
          /\ Cardinality(Kept(S)') \in Nat /\ Cardinality(DOMAIN files \ old) \in Nat
      BY <2>1, <2>2, FS_Subset, FS_CardinalityType
    <2>6. Cardinality(S) <= Cardinality(Procs) /\ Cardinality(S) \in Nat /\ Cardinality(Procs) \in Nat
      BY Finite DEF FInv, Listed
    <2> QED
      BY <2>4, <2>5, <2>6, LogSinkFileAssumption
  <1>6. ASSUME NEW S \in SUBSET Listed', p \notin S
        PROVE  Cardinality(Kept(S)') + Cardinality(S) <= MaxFiles + Cardinality(Procs)
    <2>1. S \in SUBSET Listed
      BY <1>3, <1>6 DEF Listed
    <2>2. Kept(S)' = Kept(S)
      BY <1>3, <1>6, <2>1 DEF Kept, Listed
    <2> QED
      BY <2>1, <2>2 DEF FInv, CountInv
  <1>7. CountInv'
    BY <1>5, <1>6 DEF CountInv
  <1> QED
    BY <1>4, <1>7 DEF FInv

(* DeleteOldestFile removes a file it has doomed.                           *)
LEMMA DeleteStep ==
  ASSUME FInv, NEW p \in Procs, DeleteFile(p)
  PROVE  FInv'
  <1>0. PICK f \in doomed[p] :
          /\ files' = [g \in DOMAIN files \ {f} |-> files[g]]
          /\ doomed' = [doomed EXCEPT ![p] = @ \ {f}]
    BY DEF DeleteFile
  <1>1. /\ DOMAIN files' = DOMAIN files \ {f} /\ pc' = pc /\ pc[p] = "delete"
        /\ \A q \in Procs : q # p => doomed'[q] = doomed[q]
        /\ doomed'[p] = doomed[p] \ {f} /\ DOMAIN doomed' = Procs
    BY <1>0 DEF DeleteFile, FInv, ShapeInv
  <1>2. ShapeInv'
    <2>1. IsFiniteSet(DOMAIN files')
      BY <1>1, FS_RemoveElement DEF FInv, ShapeInv
    <2> QED
      BY <1>1, <2>1 DEF FInv, ShapeInv
  <1>3. Listed' = Listed
    BY <1>1 DEF Listed
  <1>4. ASSUME NEW S \in SUBSET Listed PROVE Kept(S)' \subseteq Kept(S)
    BY <1>1 DEF Kept, Listed
  <1>5. CountInv'
    BY <1>2, <1>3, <1>4, NoMoreKept
  <1> QED
    BY <1>2, <1>5 DEF FInv

(* open: one file more for one process less.                                *)
LEMMA OpenStep ==
  ASSUME FInv, NEW p \in Procs, OpenFile(p)
  PROVE  FInv'
  <1> DEFINE f == sinks[p].file
  <1>0. /\ pc[p] = "open" /\ doomed' = doomed /\ doomed[p] = {}
        /\ DOMAIN files' \subseteq DOMAIN files \cup {f}
        /\ pc' \in [Procs -> Places] /\ pc'[p] \in {"write", "idle"}
        /\ \A q \in Procs : q # p => pc'[q] = pc[q]
    BY DEF OpenFile, Set, Goto, FInv, ShapeInv, Places
  <1>1. ShapeInv'
    <2>1. IsFiniteSet(DOMAIN files \cup {f})
      BY FS_AddElement DEF FInv, ShapeInv
    <2>2. IsFiniteSet(DOMAIN files')
      BY <1>0, <2>1, FS_Subset
    <2> QED
      BY <1>0, <2>2 DEF FInv, ShapeInv
  <1>2. ASSUME NEW S \in SUBSET Listed'
        PROVE  Cardinality(Kept(S)') + Cardinality(S) <= MaxFiles + Cardinality(Procs)
    <2> DEFINE T == S \cup {p}
    <2>1. S \in SUBSET Procs /\ T \in SUBSET Listed /\ T \in SUBSET Procs /\ p \notin S
      BY <1>0 DEF Listed
    <2>2. Kept(S)' \subseteq Kept(T) \cup {f}
      BY <1>0, <2>1 DEF Kept
    <2>3. /\ IsFiniteSet(Kept(T)) /\ Cardinality(Kept(T)) \in Nat
          /\ IsFiniteSet(S) /\ Cardinality(S) \in Nat /\ Cardinality(Procs) \in Nat
      BY <2>1, Finite DEF FInv
    <2>4. Cardinality(T) = Cardinality(S) + 1
      BY <2>1, <2>3, FS_AddElement
    <2>5. /\ IsFiniteSet(Kept(T) \cup {f})
          /\ Cardinality(Kept(T) \cup {f}) <= Cardinality(Kept(T)) + 1
          /\ Cardinality(Kept(T) \cup {f}) \in Nat
      <3>1. IsFiniteSet(Kept(T)) /\ Cardinality(Kept(T)) \in Nat
        BY <2>3
      <3> HIDE DEF T, f
      <3>2. /\ IsFiniteSet(Kept(T) \cup {f})
            /\ Cardinality(Kept(T) \cup {f}) =
                 IF f \in Kept(T) THEN Cardinality(Kept(T)) ELSE Cardinality(Kept(T)) + 1
        BY <3>1, FS_AddElement
      <3> QED
        BY <3>1, <3>2
    <2>6. /\ Cardinality(Kept(S)') <= Cardinality(Kept(T) \cup {f})
          /\ Cardinality(Kept(S)') \in Nat
      BY <2>2, <2>5, FS_Subset, FS_CardinalityType
    <2>7. Cardinality(Kept(T)) + Cardinality(T) <= MaxFiles + Cardinality(Procs)
      BY <2>1 DEF FInv, CountInv
    <2> HIDE DEF T, f
    <2> QED
      BY <2>3, <2>4, <2>5, <2>6, <2>7, LogSinkFileAssumption
  <1> QED
    BY <1>1, <1>2 DEF FInv, CountInv

-----------------------------------------------------------------------------
(* Steps that create no file and list none.                                 *)
LEMMA OtherStep ==
  ASSUME FInv, NEW p \in Procs,
         \/ \E n \in Lengths : Log(p, n)
         \/ Deleted(p) \/ DiskFull(p) \/ NewLogFilePath(p)
         \/ Write(p) \/ WriteShort(p) \/ Exit(p) \/ Crash(p)
  PROVE  FInv'
  <1>1. DOMAIN files' = DOMAIN files
    BY SameNames DEF Log, Deleted, DiskFull, NewLogFilePath, Write, WriteShort, Exit, Crash
  <1>2. /\ pc' \in [Procs -> Places]
        /\ \A q \in Procs : q # p => pc'[q] = pc[q]
        /\ \/ pc'[p] \in {"idle", "list", "write"}
           \/ pc[p] = "delete" /\ doomed[p] = {} /\ pc'[p] = "disk"
           \/ pc[p] = "disk" /\ pc'[p] = "open"
    BY DEF Log, Deleted, DiskFull, NewLogFilePath, Write, WriteShort, Exit, Crash, Restart, Goto,
           FInv, ShapeInv, Places
  <1>3. /\ DOMAIN doomed' = Procs
        /\ \A q \in Procs : q # p => doomed'[q] = doomed[q]
        /\ doomed'[p] = doomed[p] \/ pc'[p] = "idle"
    BY DEF Log, Deleted, DiskFull, NewLogFilePath, Write, WriteShort, Exit, Crash, Restart, Goto,
           FInv, ShapeInv
  <1>4. ShapeInv'
    BY <1>1, <1>2, <1>3 DEF FInv, ShapeInv
  <1>5. Listed' \subseteq Listed
    BY <1>2 DEF Listed
  <1>6. ASSUME NEW S \in SUBSET Listed' PROVE Kept(S)' \subseteq Kept(S)
    BY <1>1, <1>2, <1>3 DEF Kept, Listed
  <1>7. CountInv'
    BY <1>4, <1>5, <1>6, NoMoreKept
  <1> QED
    BY <1>4, <1>7 DEF FInv

(* Every step keeps the count.                                              *)
LEMMA FStep ==
  ASSUME FInv, [Next]_vars
  PROVE  FInv'
  <1>1. ASSUME Tick \/ UNCHANGED vars PROVE FInv'
    BY <1>1 DEF Tick, vars, FInv, ShapeInv, CountInv, Kept, Listed
  <1> QED
    BY <1>1, ListStep, DeleteStep, OpenStep, OtherStep DEF Next

(* The counting invariant is inductive.                                     *)
THEOREM CountHolds == Spec => []FInv
  <1>1. Init => FInv
    <2> SUFFICES ASSUME Init PROVE FInv
      OBVIOUS
    <2>1. ShapeInv
      BY FS_EmptySet DEF Init, ShapeInv, Places
    <2>2. Listed = {} /\ Kept({}) = {}
      BY DEF Init, Listed, Kept
    <2>3. Cardinality(Procs) \in Nat
      BY LogSinkFileAssumption, FS_CardinalityType
    <2>4. CountInv
      <3>1. Cardinality({}) = 0
        BY FS_EmptySet
      <3>2. \A S \in SUBSET Listed : S = {}
        BY <2>2
      <3> QED
        <4>1. Cardinality(Kept({})) + Cardinality({}) <= MaxFiles + Cardinality(Procs)
          BY <2>2, <2>3, <3>1, LogSinkFileAssumption
        <4> QED
          BY <3>2, <4>1 DEF CountInv
    <2> QED
      BY <2>1, <2>4 DEF FInv
  <1>2. FInv /\ [Next]_vars => FInv'
    BY FStep
  <1> QED
    BY <1>1, <1>2, PTL DEF Spec

(* Although no process locks the directory between DeleteOldestFile and the *)
(* open, it never has more than MAX_LOG_FILE_COUNT files and one for each   *)
(* process.                                                                 *)
THEOREM DirectoryBounded == Spec => []FilesBounded
  <1>1. FInv => FilesBounded
    <2> SUFFICES ASSUME FInv PROVE FilesBounded
      OBVIOUS
    <2>1. Kept({}) = DOMAIN files /\ {} \in SUBSET Listed
      BY DEF Kept
    <2>2. Cardinality(DOMAIN files) \in Nat /\ Cardinality({}) = 0
      BY FS_CardinalityType, FS_EmptySet DEF FInv, ShapeInv
    <2>3. Cardinality(Kept({})) + Cardinality({}) <= MaxFiles + Cardinality(Procs)
      BY <2>1 DEF FInv, CountInv
    <2> QED
      BY <2>1, <2>2, <2>3 DEF FilesBounded
  <1> QED
    BY <1>1, CountHolds, PTL

-----------------------------------------------------------------------------
(* The sink of a process in Log: a file is open when the process writes and *)
(* none while it looks for a new one; the open file bears its process id,   *)
(* and has room for the message.                                            *)
SinkInv(p) ==
  /\ pc[p] = "write" => IsOpen(p)
  /\ pc[p] \in {"list", "delete", "disk", "open"} => ~IsOpen(p)
  /\ IsOpen(p) \/ pc[p] = "open" =>
       sinks[p].file \in Names /\ sinks[p].file.owner = p /\ sinks[p].file.run = run[p]
  /\ ~IsOpen(p) => sinks[p].currentFileSize = 0
  /\ sinks[p].currentFileSize < MaxSize
  /\ pc[p] # "idle" => len[p] \in Lengths
  /\ pc[p] = "write" => sinks[p].currentFileSize + len[p] < MaxSize

(* A file of the directory: only the process that has it open, or one that  *)
(* died, leaves it writable.                                                *)
FileInv(f) ==
  LET p == f.owner IN
  /\ files[f].size < MaxSize
  /\ IsOpen(p) /\ sinks[p].file = f => files[f].size = sinks[p].currentFileSize
  /\ files[f].writable => f.run < run[p] \/ (IsOpen(p) /\ sinks[p].file = f)

SInv == TypeOK /\ (\A p \in Procs : SinkInv(p)) /\ (\A f \in DOMAIN files : FileInv(f))

OthersKept(p) ==
  \A q \in Procs \ {p} :
    sinks'[q] = sinks[q] /\ pc'[q] = pc[q] /\ len'[q] = len[q] /\ run'[q] = run[q]

(* A step of process p concerns its own sink and the files that bear its    *)
(* process ids.                                                             *)
LEMMA OwnStep ==
  ASSUME SInv, TypeOK', NEW p \in Procs, OthersKept(p), SinkInv(p)',
         \A f \in DOMAIN files' :
           f.owner # p => f \in DOMAIN files /\ files'[f] = files[f],
         \A f \in DOMAIN files' : f.owner = p => FileInv(f)'
  PROVE  SInv'
  <1>1. ASSUME NEW q \in Procs PROVE SinkInv(q)'
    BY <1>1 DEF SInv, SinkInv, OthersKept, IsOpen
  <1>2. ASSUME NEW f \in DOMAIN files' PROVE FileInv(f)'
    <2>1. f.owner \in Procs
      BY <1>2 DEF TypeOK, Names
    <2>2. CASE f.owner # p
      <3>1. f \in DOMAIN files /\ files'[f] = files[f] /\ FileInv(f)
        BY <1>2, <2>2 DEF SInv
      <3> QED
        BY <2>1, <2>2, <3>1 DEF FileInv, OthersKept, IsOpen
    <2> QED
      BY <1>2, <2>2
  <1> QED
    BY <1>1, <1>2 DEF SInv

(* A message alone does not fill a file.                                    *)
LEMMA LengthsFit ==
  /\ \A n \in Lengths : n \in Nat /\ 0 < n /\ n < MaxSize
  /\ MaxSize \in Nat /\ 0 < MaxSize /\ Fd \in Nat
  BY LogSinkFileAssumption

(* Protecting a file makes it read-only and leaves its size.                *)
LEMMA ProtectedEffect ==
  ASSUME Fd > 0, TypeOK, NEW p \in Procs, NEW fs, \A f \in DOMAIN fs : fs[f] \in File
  PROVE  /\ DOMAIN Protected(p, fs) = DOMAIN fs
         /\ \A f \in DOMAIN fs :
              /\ Protected(p, fs)[f] \in File
              /\ Protected(p, fs)[f].size = fs[f].size
              /\ IsOpen(p) /\ f = sinks[p].file => ~Protected(p, fs)[f].writable
              /\ ~(IsOpen(p) /\ f = sinks[p].file) => Protected(p, fs)[f] = fs[f]
  <1>1. IsOpen(p) <=> sinks[p].currentFd > 0
    BY LogSinkFileAssumption DEF TypeOK, IsOpen
  <1> QED
    BY <1>1 DEF Protected, File

(* Writing n adds n to the size of the process's file.                      *)
LEMMA WroteEffect ==
  ASSUME TypeOK, NEW p \in Procs, NEW n
  PROVE  /\ DOMAIN Wrote(p, n) = DOMAIN files
         /\ \A f \in DOMAIN files :
              Wrote(p, n)[f] = IF f = sinks[p].file
                               THEN [files[f] EXCEPT !.size = @ + n] ELSE files[f]
  BY DEF Wrote

(* Closing resets the sink, if a file is open.                              *)
LEMMA CloseEffect ==
  ASSUME Fd > 0, TypeOK, NEW p \in Procs, NEW fs, CloseFile(p, fs)
  PROVE  /\ files' = Protected(p, fs)
         /\ sinks' = IF IsOpen(p) THEN [sinks EXCEPT ![p] = NewSink] ELSE sinks
  <1>1. IsOpen(p) <=> sinks[p].currentFd > 0
    BY LogSinkFileAssumption DEF TypeOK, IsOpen
  <1> QED
    BY <1>1 DEF CloseFile

-----------------------------------------------------------------------------
(* Log keeps the file if the message fits, and closes it otherwise.         *)
LEMMA LogKeeps ==
  ASSUME Fd > 0, SInv, NEW p \in Procs, NEW n \in Lengths, Log(p, n)
  PROVE  SInv'
  <1> USE DEF SInv
  <1>1. /\ pc[p] = "idle" /\ SinkInv(p) /\ TypeOK
        /\ len' = [len EXCEPT ![p] = n]
        /\ UNCHANGED <<now, doomed, run>>
        /\ pc' = [pc EXCEPT ![p] = IF sinks'[p].currentFd < 0 THEN "list" ELSE "write"]
    BY DEF Log, Goto
  <1>2. n \in Nat /\ 0 < n /\ n < MaxSize /\ MaxSize \in Nat
    BY LengthsFit
  <1>3. CASE ~Full(p, n)
    <2>1. sinks' = sinks /\ files' = files
      BY <1>3 DEF Log
    <2>2. TypeOK'
      BY <1>1, <2>1 DEF TypeOK
    <2>a. /\ len'[p] = n /\ pc'[p] = IF IsOpen(p) THEN "write" ELSE "list"
          /\ (IsOpen(p))' = IsOpen(p) /\ run' = run
      BY <1>1, <2>1, LogSinkFileAssumption DEF TypeOK, IsOpen
    <2>b. sinks[p].currentFileSize \in Nat /\ sinks[p].currentFileSize + n < MaxSize
      BY <1>1, <1>2, <1>3 DEF Full, TypeOK
    <2>3. SinkInv(p)'
      BY <1>1, <2>1, <2>a, <2>b DEF SinkInv
    <2>4. \A f \in DOMAIN files' : FileInv(f)'
      BY <1>1, <2>1 DEF FileInv, IsOpen
    <2>5. OthersKept(p)
      BY <1>1, <2>1 DEF OthersKept, TypeOK
    <2> QED
      BY <2>1, <2>2, <2>3, <2>4, <2>5, OwnStep
  <1>4. CASE Full(p, n)
    <2>1. /\ files' = Protected(p, files)
          /\ sinks' = IF IsOpen(p) THEN [sinks EXCEPT ![p] = NewSink] ELSE sinks
      BY <1>1, <1>4, CloseEffect DEF Log
    <2>2. /\ DOMAIN files' = DOMAIN files
          /\ \A f \in DOMAIN files :
               /\ files'[f] \in File
               /\ files'[f].size = files[f].size
               /\ IsOpen(p) /\ f = sinks[p].file => ~files'[f].writable
               /\ ~(IsOpen(p) /\ f = sinks[p].file) => files'[f] = files[f]
      BY <2>1, ProtectedEffect DEF TypeOK
    <2>3. NewSink.currentFd = -1 /\ NewSink.currentFileSize = 0 /\ NewSink.file = NoFile
      BY DEF NewSink
    <2>4. ~(IsOpen(p))' /\ sinks'[p].currentFileSize = 0
      BY <1>1, <2>1, <2>3, LogSinkFileAssumption DEF IsOpen, TypeOK, SinkInv
    <2>5. pc' = [pc EXCEPT ![p] = "list"]
      <3>1. sinks'[p].currentFd \in {-1, Fd}
        BY <2>1, <2>3, <1>1 DEF TypeOK
      <3>2. sinks'[p].currentFd < 0
        BY <2>4, <3>1, LogSinkFileAssumption DEF IsOpen
      <3> QED
        BY <1>1, <3>2
    <2>6. TypeOK'
      BY <1>1, <2>1, <2>2, <2>5, LogSinkFileAssumption DEF TypeOK, NewSink
    <2>7. SinkInv(p)'
      BY <1>1, <1>2, <2>4, <2>5 DEF SinkInv, TypeOK
    <2>8. OthersKept(p)
      BY <1>1, <2>1, <2>5 DEF OthersKept, TypeOK
    <2>9. ASSUME NEW f \in DOMAIN files', f.owner = p PROVE FileInv(f)'
      <3>1. FileInv(f)
        BY <2>2, <2>9
      <3> QED
        BY <1>1, <2>2, <2>4, <2>9, <3>1 DEF FileInv
    <2>10. \A f \in DOMAIN files' : f.owner # p => f \in DOMAIN files /\ files'[f] = files[f]
      BY <1>1, <2>2 DEF SinkInv
    <2> QED
      BY <2>6, <2>7, <2>8, <2>9, <2>10, OwnStep
  <1> QED
    BY <1>3, <1>4

(* DeleteOldestFile and the checks before the open leave the sink closed.   *)
LEMMA SearchKeeps ==
  ASSUME SInv, NEW p \in Procs,
         ListFiles(p) \/ DeleteFile(p) \/ Deleted(p) \/ DiskFull(p)
  PROVE  SInv'
  <1> USE DEF SInv
  <1>1. /\ sinks' = sinks /\ len' = len /\ run' = run /\ now' = now
        /\ pc[p] \in {"list", "delete", "disk"}
        /\ pc' \in [Procs -> {"idle", "list", "delete", "disk", "open", "write"}]
        /\ pc'[p] \in {"delete", "disk", "idle"}
        /\ \A q \in Procs \ {p} : pc'[q] = pc[q]
    BY DEF ListFiles, DeleteFile, Deleted, DiskFull, Goto, TypeOK
  <1>2. /\ DOMAIN files' \subseteq DOMAIN files
        /\ \A f \in DOMAIN files' : files'[f] = files[f]
    BY DEF ListFiles, DeleteFile, Deleted, DiskFull
  <1>3. doomed' \in [Procs -> SUBSET Names]
    <2>1. CASE ListFiles(p)
      BY <2>1 DEF ListFiles, kSubset, TypeOK
    <2>2. CASE DeleteFile(p)
      BY <2>2 DEF DeleteFile, TypeOK
    <2>3. CASE Deleted(p) \/ DiskFull(p)
      BY <2>3 DEF Deleted, DiskFull, TypeOK
    <2> QED
      BY <2>1, <2>2, <2>3
  <1>4. TypeOK'
    BY <1>1, <1>2, <1>3 DEF TypeOK
  <1>5. SinkInv(p)'
    BY <1>1 DEF SinkInv, IsOpen
  <1>6. \A f \in DOMAIN files' : FileInv(f)'
    BY <1>1, <1>2 DEF FileInv, IsOpen
  <1> QED
    BY <1>1, <1>2, <1>4, <1>5, <1>6, OwnStep DEF OthersKept

(* The name of the new file carries the process id.                         *)
LEMMA NamingKeeps ==
  ASSUME SInv, NEW p \in Procs, NewLogFilePath(p)
  PROVE  SInv'
  <1> USE DEF SInv
  <1> DEFINE name == [owner |-> p, run |-> run[p], time |-> now]
  <1>1. /\ pc[p] = "disk" /\ SinkInv(p) /\ TypeOK /\ name \in Names
        /\ sinks' = [sinks EXCEPT ![p].file = name]
        /\ pc' = [pc EXCEPT ![p] = "open"]
        /\ UNCHANGED <<now, files, len, doomed, run>>
    BY DEF NewLogFilePath, Goto, TypeOK, Names
  <1>2. TypeOK'
    BY <1>1 DEF TypeOK
  <1>3. /\ (IsOpen(p))' = IsOpen(p) /\ ~IsOpen(p)
        /\ sinks'[p].file = name /\ sinks'[p].currentFileSize = sinks[p].currentFileSize
    BY <1>1 DEF TypeOK, IsOpen, SinkInv
  <1>4. SinkInv(p)'
    BY <1>1, <1>3 DEF SinkInv, TypeOK
  <1>5. OthersKept(p)
    BY <1>1 DEF OthersKept, TypeOK
  <1>6. ASSUME NEW f \in DOMAIN files', f.owner = p PROVE FileInv(f)'
    BY <1>1, <1>3, <1>6 DEF FileInv
  <1> QED
    BY <1>1, <1>2, <1>4, <1>5, <1>6, OwnStep

(* The file that open creates or truncates is empty, as its sink says.      *)
LEMMA OpenKeeps ==
  ASSUME SInv, NEW p \in Procs, OpenFile(p)
  PROVE  SInv'
  <1> USE DEF SInv
  <1> DEFINE f == sinks[p].file
  <1>1. /\ pc[p] = "open" /\ SinkInv(p) /\ TypeOK /\ ~IsOpen(p)
        /\ f \in Names /\ f.owner = p /\ f.run = run[p]
        /\ sinks[p].currentFileSize = 0 /\ len[p] \in Lengths
        /\ UNCHANGED <<now, len, doomed, run>>
    BY DEF OpenFile, SinkInv
  <1>2. len[p] \in Nat /\ len[p] < MaxSize /\ 0 < MaxSize /\ MaxSize \in Nat /\ Fd \in Nat
    BY <1>1, LengthsFit
  <1>3. CASE MayOpen(f)
    <2>1. /\ files' = [g \in DOMAIN files \cup {f} |->
                         IF g = f THEN [size |-> 0, writable |-> TRUE] ELSE files[g]]
          /\ sinks' = [sinks EXCEPT ![p].currentFd = Fd]
          /\ pc' = [pc EXCEPT ![p] = "write"]
      BY <1>3 DEF OpenFile, Set, Goto
    <2>2. /\ sinks'[p].currentFd = Fd /\ sinks'[p].currentFileSize = 0
          /\ sinks'[p].file = f /\ pc'[p] = "write" /\ len'[p] = len[p] /\ run'[p] = run[p]
      BY <1>1, <2>1 DEF TypeOK
    <2> HIDE DEF f
    <2>3. TypeOK'
      BY <1>1, <1>2, <2>1 DEF TypeOK, File
    <2>4. (IsOpen(p))'
      BY <1>2, <2>2 DEF IsOpen
    <2>5. SinkInv(p)'
      BY <1>1, <1>2, <2>2, <2>4 DEF SinkInv
    <2>6. OthersKept(p)
      BY <1>1, <2>1 DEF OthersKept, TypeOK
    <2>7. ASSUME NEW g \in DOMAIN files', g.owner = p PROVE FileInv(g)'
      <3>1. CASE g = f
        BY <1>2, <2>1, <2>2, <2>4, <2>7, <3>1 DEF FileInv
      <3>2. CASE g # f
        <4>1. g \in DOMAIN files /\ files'[g] = files[g] /\ FileInv(g)
          BY <2>1, <2>7, <3>2
        <4> QED
          BY <1>1, <2>2, <2>7, <3>2, <4>1 DEF FileInv
      <3> QED
        BY <3>1, <3>2
    <2>8. \A g \in DOMAIN files' : g.owner # p => g \in DOMAIN files /\ files'[g] = files[g]
      BY <1>1, <2>1
    <2> QED
      BY <2>3, <2>5, <2>6, <2>7, <2>8, OwnStep
  <1>4. CASE ~MayOpen(f)
    <2>1. /\ files' = files
          /\ sinks' = [sinks EXCEPT ![p].file = NoFile]
          /\ pc' = [pc EXCEPT ![p] = "idle"]
      BY <1>4 DEF OpenFile, Goto
    <2>2. TypeOK'
      BY <1>1, <2>1 DEF TypeOK
    <2>3. /\ ~(IsOpen(p))' /\ sinks'[p].currentFileSize = 0 /\ pc'[p] = "idle" /\ run' = run
      BY <1>1, <2>1 DEF TypeOK, IsOpen
    <2>4. SinkInv(p)'
      BY <1>2, <2>3 DEF SinkInv
    <2>5. OthersKept(p)
      BY <1>1, <2>1 DEF OthersKept, TypeOK
    <2>6. ASSUME NEW g \in DOMAIN files', g.owner = p PROVE FileInv(g)'
      BY <1>1, <2>1, <2>3, <2>6 DEF FileInv
    <2> QED
      BY <2>1, <2>2, <2>4, <2>5, <2>6, OwnStep
  <1> QED
    BY <1>3, <1>4

-----------------------------------------------------------------------------
(* What is written to the open file is what the sink counts.                *)
LEMMA WriteKeeps ==
  ASSUME SInv, NEW p \in Procs, Write(p)
  PROVE  SInv'
  <1> USE DEF SInv
  <1> DEFINE f == sinks[p].file
  <1>1. /\ pc[p] = "write" /\ SinkInv(p) /\ TypeOK /\ IsOpen(p)
        /\ f \in Names /\ f.owner = p /\ f.run = run[p]
        /\ sinks[p].currentFileSize + len[p] < MaxSize /\ len[p] \in Lengths
        /\ UNCHANGED <<now, len, doomed, run>>
        /\ files' = Wrote(p, len[p])
        /\ sinks' = [sinks EXCEPT ![p].currentFileSize = @ + len[p]]
        /\ pc' = [pc EXCEPT ![p] = "idle"]
    BY DEF Write, SinkInv, Goto
  <1>2. /\ len[p] \in Nat /\ MaxSize \in Nat
        /\ sinks[p].currentFileSize \in Nat
        /\ sinks[p].currentFileSize + len[p] \in 0 .. MaxSize
    BY <1>1, LengthsFit DEF TypeOK
  <1>3. /\ sinks'[p].currentFileSize = sinks[p].currentFileSize + len[p]
        /\ sinks'[p].file = f /\ (IsOpen(p))' /\ pc'[p] = "idle" /\ run' = run
    BY <1>1 DEF TypeOK, IsOpen
  <1>4. /\ DOMAIN files' = DOMAIN files
        /\ \A g \in DOMAIN files : g # f => files'[g] = files[g]
        /\ f \in DOMAIN files =>
             /\ files'[f].size = sinks'[p].currentFileSize
             /\ files'[f].writable = files[f].writable
             /\ files'[f] \in File
    <2>1. /\ DOMAIN files' = DOMAIN files
          /\ \A g \in DOMAIN files :
               files'[g] = IF g = f THEN [files[g] EXCEPT !.size = @ + len[p]] ELSE files[g]
      BY <1>1, WroteEffect
    <2>2. f \in DOMAIN files => files[f].size = sinks[p].currentFileSize /\ files[f] \in File
      BY <1>1 DEF FileInv, TypeOK
    <2> QED
      BY <1>2, <1>3, <2>1, <2>2 DEF File
  <1> HIDE DEF f
  <1>5. TypeOK'
    <2>1. sinks' \in [Procs -> [currentFd : {-1, Fd}, currentFileSize : 0 .. MaxSize,
                               file : Names \cup {NoFile}]]
      BY <1>1, <1>2 DEF TypeOK
    <2>2. DOMAIN files' \subseteq Names /\ \A g \in DOMAIN files' : files'[g] \in File
      BY <1>1, <1>4 DEF TypeOK
    <2>3. pc' \in [Procs -> {"idle", "list", "delete", "disk", "open", "write"}]
      BY <1>1 DEF TypeOK
    <2> QED
      BY <1>1, <2>1, <2>2, <2>3 DEF TypeOK
  <1>6. SinkInv(p)'
    BY <1>1, <1>3 DEF SinkInv
  <1>7. OthersKept(p)
    BY <1>1 DEF OthersKept, TypeOK
  <1>8. ASSUME NEW g \in DOMAIN files', g.owner = p PROVE FileInv(g)'
    <2>1. FileInv(g)
      BY <1>4, <1>8
    <2>2. CASE g = f
      BY <1>1, <1>3, <1>4, <1>8, <2>1, <2>2 DEF FileInv
    <2>3. CASE g # f
      BY <1>1, <1>3, <1>4, <1>8, <2>1, <2>3 DEF FileInv, f
    <2> QED
      BY <2>2, <2>3
  <1>9. \A g \in DOMAIN files' : g.owner # p => g \in DOMAIN files /\ files'[g] = files[g]
    BY <1>1, <1>4
  <1> QED
    BY <1>5, <1>6, <1>7, <1>8, <1>9, OwnStep

(* A write that fails closes the file, whatever part of the message it has  *)
(* written.                                                                 *)
LEMMA ShortWriteKeeps ==
  ASSUME Fd > 0, SInv, NEW p \in Procs, WriteShort(p)
  PROVE  SInv'
  <1> USE DEF SInv
  <1> DEFINE f == sinks[p].file
  <1>1. /\ pc[p] = "write" /\ SinkInv(p) /\ TypeOK /\ IsOpen(p)
        /\ f.owner = p
        /\ sinks[p].currentFileSize + len[p] < MaxSize /\ len[p] \in Lengths
        /\ UNCHANGED <<now, len, doomed, run>>
        /\ pc' = [pc EXCEPT ![p] = "idle"]
    BY DEF WriteShort, SinkInv, Goto
  <1> PICK n \in 0 .. len[p] - 1 : CloseFile(p, Wrote(p, n))
    BY DEF WriteShort
  <1>2. /\ len[p] \in Nat /\ MaxSize \in Nat /\ n \in Nat
        /\ sinks[p].currentFileSize \in Nat
        /\ sinks[p].currentFileSize + n < MaxSize
    BY <1>1, LengthsFit DEF TypeOK
  <1> DEFINE fs == Wrote(p, n)
  <1>3. /\ DOMAIN fs = DOMAIN files
        /\ \A g \in DOMAIN files : g # f => fs[g] = files[g]
        /\ f \in DOMAIN files =>
             /\ fs[f].size = sinks[p].currentFileSize + n
             /\ fs[f] \in File
    <2>1. /\ DOMAIN fs = DOMAIN files
          /\ \A g \in DOMAIN files :
               fs[g] = IF g = f THEN [files[g] EXCEPT !.size = @ + n] ELSE files[g]
      BY <1>1, WroteEffect
    <2>2. f \in DOMAIN files => files[f].size = sinks[p].currentFileSize /\ files[f] \in File
      BY <1>1 DEF FileInv, TypeOK
    <2> QED
      BY <1>2, <2>1, <2>2 DEF File
  <1>4. \A g \in DOMAIN fs : fs[g] \in File
    BY <1>1, <1>3 DEF TypeOK
  <1>5. files' = Protected(p, fs) /\ sinks' = [sinks EXCEPT ![p] = NewSink]
    BY <1>1, CloseEffect
  <1> HIDE DEF fs, f
  <1>6. /\ DOMAIN files' = DOMAIN files
        /\ \A g \in DOMAIN files : files'[g] \in File /\ (g # f => files'[g] = files[g])
        /\ f \in DOMAIN files =>
             ~files'[f].writable /\ files'[f].size = sinks[p].currentFileSize + n
    BY <1>1, <1>3, <1>4, <1>5, ProtectedEffect DEF f
  <1>7. /\ (sinks[p].file = f)
        /\ ~(IsOpen(p))' /\ sinks'[p].currentFileSize = 0 /\ pc'[p] = "idle" /\ run' = run
    BY <1>1, <1>5 DEF NewSink, IsOpen, TypeOK, f
  <1>8. TypeOK'
    BY <1>1, <1>2, <1>5, <1>6, LogSinkFileAssumption DEF TypeOK, NewSink
  <1>9. SinkInv(p)'
    BY <1>7, LengthsFit DEF SinkInv
  <1>10. OthersKept(p)
    BY <1>1, <1>5 DEF OthersKept, TypeOK
  <1>11. ASSUME NEW g \in DOMAIN files', g.owner = p PROVE FileInv(g)'
    <2>1. FileInv(g)
      BY <1>6, <1>11
    <2>2. CASE g = f
      BY <1>2, <1>6, <1>7, <1>11, <2>2 DEF FileInv
    <2>3. CASE g # f
      BY <1>6, <1>7, <1>11, <2>1, <2>3 DEF FileInv
    <2> QED
      BY <2>2, <2>3
  <1>12. \A g \in DOMAIN files' : g.owner # p => g \in DOMAIN files /\ files'[g] = files[g]
    BY <1>1, <1>6
  <1> QED
    BY <1>8, <1>9, <1>10, <1>11, <1>12, OwnStep

(* A process that is started anew has no file open, and no later file gets  *)
(* the name of one it left behind.                                          *)
LEMMA RestartKeeps ==
  ASSUME Fd > 0, SInv, NEW p \in Procs, Exit(p) \/ Crash(p)
  PROVE  SInv'
  <1> USE DEF SInv
  <1>1. /\ SinkInv(p) /\ TypeOK /\ now' = now
        /\ run[p] \in Nat /\ run[p] < MaxRun /\ MaxRun \in Nat
        /\ run' = [run EXCEPT ![p] = @ + 1]
        /\ sinks' = [sinks EXCEPT ![p] = NewSink]
        /\ doomed' = [doomed EXCEPT ![p] = {}]
        /\ len' = [len EXCEPT ![p] = 0]
        /\ pc' = [pc EXCEPT ![p] = "idle"]
    BY LogSinkFileAssumption DEF Exit, Crash, Restart, Goto, TypeOK
  <1>2. /\ DOMAIN files' = DOMAIN files
        /\ \A f \in DOMAIN files :
             /\ files'[f] \in File
             /\ files'[f].size = files[f].size
             /\ files'[f].writable => files[f].writable
             /\ ~(IsOpen(p) /\ f = sinks[p].file) => files'[f] = files[f]
    <2>1. files' = files \/ files' = Protected(p, files)
      BY DEF Exit, Crash
    <2> QED
      BY <1>1, <2>1, ProtectedEffect DEF TypeOK
  <1>3. /\ ~(IsOpen(p))' /\ sinks'[p].currentFileSize = 0 /\ pc'[p] = "idle"
        /\ run'[p] = run[p] + 1
    BY <1>1 DEF NewSink, IsOpen, TypeOK
  <1>4. TypeOK'
    BY <1>1, <1>2, LogSinkFileAssumption DEF TypeOK, NewSink
  <1>5. SinkInv(p)'
    BY <1>3, LengthsFit DEF SinkInv
  <1>6. OthersKept(p)
    BY <1>1 DEF OthersKept, TypeOK
  <1>7. ASSUME NEW f \in DOMAIN files', f.owner = p PROVE FileInv(f)'
    <2>1. FileInv(f) /\ files[f].size = files'[f].size /\ f.run \in Nat
      BY <1>2, <1>7 DEF TypeOK, Names
    <2>2. files'[f].writable => f.run < run'[p]
      <3>1. files'[f].writable => f.run < run[p] \/ f.run = run[p]
        BY <1>1, <1>2, <1>7, <2>1 DEF FileInv, SinkInv
      <3> QED
        BY <1>1, <1>3, <2>1, <3>1
    <2> QED
      BY <1>3, <1>7, <2>1, <2>2 DEF FileInv
  <1>8. \A f \in DOMAIN files' : f.owner # p => f \in DOMAIN files /\ files'[f] = files[f]
    BY <1>1, <1>2 DEF SinkInv
  <1> QED
    BY <1>4, <1>5, <1>6, <1>7, <1>8, OwnStep

(* The clock and steps that change nothing.                                 *)
LEMMA TickKeeps ==
  ASSUME SInv, Tick \/ UNCHANGED vars
  PROVE  SInv'
  <1>1. /\ files' = files /\ sinks' = sinks /\ pc' = pc /\ len' = len
        /\ doomed' = doomed /\ run' = run
        /\ now' \in 0 .. MaxTime
    BY LogSinkFileAssumption DEF Tick, vars, SInv, TypeOK
  <1> QED
    BY <1>1 DEF SInv, TypeOK, SinkInv, FileInv, IsOpen

(* Every step keeps the sinks and the files in agreement.                   *)
LEMMA SStep ==
  ASSUME Fd > 0, SInv, [Next]_vars
  PROVE  SInv'
  BY LogKeeps, SearchKeeps, NamingKeeps, OpenKeeps, WriteKeeps, ShortWriteKeeps,
     RestartKeeps, TickKeeps DEF Next

(* The invariant of sinks and files is inductive, as long as open does not  *)
(* give the descriptor 0, which CloseFile takes for no file.                *)
THEOREM SinksAndFiles ==
  ASSUME Fd > 0
  PROVE  Spec => []SInv
  <1>1. Init => SInv
    BY LogSinkFileAssumption, LengthsFit
       DEF Init, SInv, TypeOK, SinkInv, FileInv, IsOpen, NewSink
  <1>2. SInv /\ [Next]_vars => SInv'
    BY SStep
  <1> QED
    BY <1>1, <1>2, PTL DEF Spec

(* The types of the sinks, the directory and the processes' places.         *)
THEOREM TypeCorrect ==
  ASSUME Fd > 0
  PROVE  Spec => []TypeOK
  BY SinksAndFiles, PTL DEF SInv

(* No file reaches MAX_FILE_SIZE_THRESHOLD, and currentFileSize_ stays the  *)
(* size of the open file through failed writes, deletions, restarts and     *)
(* files of the same second.                                                *)
THEOREM SizesBounded ==
  ASSUME Fd > 0
  PROVE  Spec => []SizeBounded
  <1>1. SInv => SizeBounded
    BY DEF SInv, SinkInv, FileInv, SizeBounded
  <1> QED
    BY <1>1, SinksAndFiles, PTL

-----------------------------------------------------------------------------
(* No step of a process makes a file smaller: its open finds no file of its *)
(* process id and second that it may write.                                 *)
LEMMA ContentsStep ==
  ASSUME Fd > 0, ~Root, SInv, [Next]_vars
  PROVE  \A f \in DOMAIN files \cap DOMAIN files' : files'[f].size >= files[f].size
  <1> SUFFICES ASSUME NEW f \in DOMAIN files, f \in DOMAIN files'
               PROVE  files'[f].size >= files[f].size
    OBVIOUS
  <1>1. TypeOK /\ files[f] \in File /\ files[f].size \in Nat
    BY LengthsFit DEF SInv, TypeOK, File
  <1>2. ASSUME NEW p \in Procs, OpenFile(p) PROVE files'[f] = files[f]
    <2>1. CASE f # sinks[p].file
      BY <1>2, <2>1 DEF OpenFile, Set
    <2>2. CASE f = sinks[p].file
      <3>1. ~IsOpen(p) /\ f.owner = p /\ f.run = run[p] /\ run[p] \in Nat
        BY <1>2, <2>2, LogSinkFileAssumption DEF OpenFile, SInv, SinkInv, TypeOK
      <3>2. ~files[f].writable
        BY <3>1 DEF SInv, FileInv
      <3>3. ~MayOpen(f)
        BY <3>2 DEF MayOpen
      <3> QED
        BY <1>2, <2>2, <3>3 DEF OpenFile
    <2> QED
      BY <2>1, <2>2
  <1>3. ASSUME NEW p \in Procs, NEW n \in Nat
        PROVE  /\ DOMAIN Wrote(p, n) = DOMAIN files
               /\ Wrote(p, n)[f].size >= files[f].size
    <2>1. Wrote(p, n)[f] = IF f = sinks[p].file
                           THEN [files[f] EXCEPT !.size = @ + n] ELSE files[f]
      BY <1>1, WroteEffect
    <2>2. [files[f] EXCEPT !.size = @ + n].size = files[f].size + n
      BY <1>1 DEF File
    <2>3. Wrote(p, n)[f].size \in {files[f].size, files[f].size + n}
      BY <2>1, <2>2
    <2>4. DOMAIN Wrote(p, n) = DOMAIN files
      BY <1>1, WroteEffect
    <2> QED
      BY <1>1, <1>3, <2>3, <2>4
  <1>4. ASSUME NEW p \in Procs, NEW fs, DOMAIN fs = DOMAIN files
        PROVE  Protected(p, fs)[f].size = fs[f].size
    BY <1>4 DEF Protected
  <1>5. ASSUME NEW p \in Procs, Write(p) \/ WriteShort(p)
        PROVE  files'[f].size >= files[f].size
    <2>1. len[p] \in Nat
      BY <1>1, LengthsFit DEF TypeOK
    <2>2. CASE Write(p)
      BY <1>3, <2>1, <2>2 DEF Write
    <2>3. CASE WriteShort(p)
      <3>1. PICK n \in 0 .. len[p] - 1 : files' = Protected(p, Wrote(p, n))
        BY <2>3 DEF WriteShort, CloseFile
      <3>2. n \in Nat
        BY <2>1
      <3>3. DOMAIN Wrote(p, n) = DOMAIN files /\ Wrote(p, n)[f].size >= files[f].size
        BY <1>3, <3>2
      <3> QED
        BY <1>4, <3>1, <3>3
    <2> QED
      BY <1>5, <2>2, <2>3
  <1>6. ASSUME NEW p \in Procs, (\E n \in Lengths : Log(p, n)) \/ Exit(p)
        PROVE  files'[f].size = files[f].size
    <2>1. files' = files \/ files' = Protected(p, files)
      BY <1>6 DEF Log, CloseFile, Exit
    <2> QED
      BY <1>4, <2>1
  <1>7. ASSUME NEW p \in Procs, DeleteFile(p) PROVE files'[f] = files[f]
    BY <1>7 DEF DeleteFile
  <1>8. ASSUME \/ \E p \in Procs : \/ ListFiles(p) \/ Deleted(p) \/ DiskFull(p)
                                   \/ NewLogFilePath(p) \/ Crash(p)
               \/ Tick \/ UNCHANGED vars
        PROVE  files' = files
    BY <1>8 DEF ListFiles, Deleted, DiskFull, NewLogFilePath, Crash, Tick, vars
  <1> QED
    BY <1>1, <1>2, <1>5, <1>6, <1>7, <1>8 DEF Next

(* The O_TRUNC of an open never erases what was logged: a process that      *)
(* wants a second file in one second finds the first read-only.             *)
THEOREM ContentsAreKept ==
  ASSUME Fd > 0, ~Root
  PROVE  Spec => ContentsKept
  <1>1. SInv /\ [Next]_vars =>
          [ \A f \in DOMAIN files \cap DOMAIN files' : files'[f].size >= files[f].size ]_vars
    BY ContentsStep
  <1> QED
    BY <1>1, SinksAndFiles, PTL DEF Spec, ContentsKept
=============================================================================
