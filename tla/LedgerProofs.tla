---------------------------- MODULE LedgerProofs ----------------------------
(***************************************************************************)
(* The event file: what an acknowledged event may count on.  LedgerInv is  *)
(* what holds as long as no line tears, NoTorn, and TornInv what is left   *)
(* when lines do tear and later text is merged into them: LedgerTorn.cfg   *)
(* shows that such a file cannot be resumed, the theorems that nothing is  *)
(* lost silently.                                                          *)
(***************************************************************************)
EXTENDS Ledger, SequenceTheorems, TLAPS

NoTorn == "torn" \notin Faults

----------------------------------------------------------------------------
(* The inductive invariant without torn lines.                             *)

\* Every line is whole, so text is only ever added in whole lines.
AllWhole ==
  /\ \A i \in 1 .. Len(file) : file[i].form = "whole"
  /\ \A i \in 1 .. Len(buf) : buf[i].form = "whole"

\* The numbers do not decrease along the file and then the buffer, and the
\* handle's number is not below any of them.
Ascending ==
  /\ \A i, j \in 1 .. Len(file) : i < j => file[i].seq <= file[j].seq
  /\ \A i, j \in 1 .. Len(buf) : i < j => buf[i].seq <= buf[j].seq
  /\ \A i \in 1 .. Len(file), j \in 1 .. Len(buf) : file[i].seq <= buf[j].seq
  /\ mode # "closed" =>
       /\ \A i \in 1 .. Len(file) : file[i].seq <= seq
       /\ \A i \in 1 .. Len(buf) : buf[i].seq <= seq

\* The handle's number is above every acknowledged one.
AckedBelow ==
  mode # "closed" => \A k \in 1 .. Len(acked) : acked[k].seq < seq

\* What the buffer holds is whole, and gone with the handle; a new file begins
\* with event 0.
Buffered ==
  /\ \A i \in 1 .. Len(buf) : buf[i].form = "whole"
  /\ mode = "closed" => buf = <<>>
  /\ mode = "open" /\ file = <<>> /\ buf = <<>> => seq = 0

\* What each mode says of the handle.
Handle ==
  /\ mode = "closed" => buf = <<>>
  /\ mode = "open" /\ file = <<>> /\ buf = <<>> => seq = 0
  /\ mode = "flushed" =>
       /\ buf = <<>>
       /\ durable < Len(file)
       /\ file[Len(file)].seq = seq

Survives ==
  \A k \in 1 .. Len(acked) :
    /\ acked[k].place \in 1 .. durable
    /\ file[acked[k].place] = Line(acked[k].seq, acked[k].type)

Ordered ==
  \A k, l \in 1 .. Len(acked) :
    k < l => acked[k].seq < acked[l].seq /\ acked[k].place < acked[l].place

\* As long as no append() raised, nothing is ever left in the buffer and the
\* file is numbered from 0.
Counted ==
  ~failed =>
    /\ buf = <<>>
    /\ \A i \in 1 .. Len(file) : file[i].seq = i - 1
    /\ mode = "open" => seq = Len(file)
    /\ mode = "flushed" => seq = Len(file) - 1

LedgerInv ==
  /\ TypeOK
  /\ AllWhole /\ Ascending /\ AckedBelow /\ Handle
  /\ Survives /\ Ordered /\ Counted /\ CompositionFirst

----------------------------------------------------------------------------
(* Lemmas about the operators.                                             *)

\* Whole lines are concatenated as they are.
LEMMA JoinWhole ==
  ASSUME NEW s \in Seq(Lines), NEW t \in Seq(Lines),
         \A i \in 1 .. Len(s) : s[i].form = "whole"
  PROVE  Join(s, t) = s \o t
<1>1. s # <<>> => Len(s) \in 1 .. Len(s)
  BY EmptySeq
<1> QED  BY <1>1 DEF Join, Torn

\* Where the lines of a concatenation come from.
LEMMA ConcatElements ==
  ASSUME NEW s \in Seq(Lines), NEW t \in Seq(Lines), NEW u, u = s \o t
  PROVE  /\ u \in Seq(Lines) /\ Len(u) = Len(s) + Len(t)
         /\ \A i \in 1 .. Len(s) : u[i] = s[i]
         /\ \A i \in Len(s) + 1 .. Len(u) : u[i] = t[i - Len(s)]
<1>1. Len(s) \in Nat /\ Len(t) \in Nat
  OBVIOUS
<1>2. /\ u \in Seq(Lines) /\ Len(u) = Len(s) + Len(t)
      /\ \A i \in 1 .. Len(s) + Len(t) : u[i] = IF i <= Len(s) THEN s[i] ELSE t[i - Len(s)]
  BY ConcatProperties, Zenon
<1> QED  BY <1>1, <1>2

\* Acknowledged lines stay where they are when the synced part does.
LEMMA SurvivesByPrefix ==
  ASSUME TypeOK, Survives, acked' = acked, durable' \in Nat, durable' >= durable,
         \A i \in 1 .. durable : file'[i] = file[i]
  PROVE  Survives'
<1> SUFFICES ASSUME NEW k \in 1 .. Len(acked)
             PROVE  /\ acked[k].place \in 1 .. durable'
                    /\ file'[acked[k].place] = Line(acked[k].seq, acked[k].type)
  BY DEF Survives
<1>1. /\ acked[k].place \in 1 .. durable
      /\ file[acked[k].place] = Line(acked[k].seq, acked[k].type)
  BY DEF Survives
<1>2. durable \in Nat
  BY DEF TypeOK
<1> QED  BY <1>1, <1>2

LEMMA LineIsALine ==
  ASSUME NEW n \in Nat, NEW type \in Types
  PROVE  /\ Line(n, type) \in Lines
         /\ Line(n, type).seq = n /\ Line(n, type).type = type
         /\ Line(n, type).form = "whole"
BY DEF Line, Lines, Forms

\* _resume on an ascending file: the last line has the highest number.
LEMMA ResumeAfterLast ==
  ASSUME TypeOK, Ascending
  PROVE  /\ file = <<>> => NextSeq = 0
         /\ file # <<>> => NextSeq = file[Len(file)].seq + 1
<1> DEFINE numbers == {file[i].seq : i \in DOMAIN file}
           top == file[Len(file)].seq
           highest(n) == \A i \in DOMAIN file : file[i].seq <= n
<1>1. ASSUME file # <<>>
      PROVE  NextSeq = top + 1
  <2>1. DOMAIN file = 1 .. Len(file) /\ Len(file) \in 1 .. Len(file)
    BY <1>1, EmptySeq DEF TypeOK
  <2>2. \A i \in DOMAIN file : file[i].seq \in Nat
    <3>1. \A i \in DOMAIN file : file[i] \in Lines
      BY <2>1, ElementOfSeq DEF TypeOK
    <3> QED  BY <3>1 DEF Lines
  <2>3. top \in numbers /\ highest(top)
    <3>1. \A i \in DOMAIN file : file[i].seq <= top
      BY <2>1, <2>2 DEF Ascending
    <3> QED  BY <2>1, <3>1
  <2>4. \A n \in numbers : highest(n) => n = top
    <3> SUFFICES ASSUME NEW i \in DOMAIN file, highest(file[i].seq)
                 PROVE  file[i].seq = top
      OBVIOUS
    <3>1. top <= file[i].seq
      BY <2>1
    <3>2. file[i].seq <= top
      BY <2>3
    <3> QED  BY <3>1, <3>2, <2>1, <2>2
  <2>5. (CHOOSE n \in numbers : highest(n)) = top
    <3> HIDE DEF numbers, highest, top
    <3> QED  BY <2>3, <2>4
  <2>6. NextSeq = 1 + (CHOOSE n \in numbers : highest(n))
    BY <1>1 DEF NextSeq
  <2>7. top \in Nat
    BY <2>1, <2>2
  <2> HIDE DEF numbers, highest, top
  <2>8. NextSeq = 1 + top
    BY <2>5, <2>6, Zenon
  <2> QED  BY <2>7, <2>8
<1> QED  BY <1>1 DEF NextSeq

LEMMA NoPieces ==
  ASSUME NoTorn, NEW l
  PROVE  Pieces(l) = {<<>>}
BY DEF NoTorn, Pieces

\* What the type invariant says of the single lines and acknowledgements.
LEMMA Elements ==
  ASSUME TypeOK
  PROVE  /\ Len(file) \in Nat /\ Len(buf) \in Nat /\ Len(acked) \in Nat
         /\ DOMAIN file = 1 .. Len(file) /\ DOMAIN acked = 1 .. Len(acked)
         /\ file # <<>> <=> Len(file) > 0
         /\ buf # <<>> <=> Len(buf) > 0
         /\ \A i \in 1 .. Len(file) : file[i].seq \in Nat
         /\ \A i \in 1 .. Len(buf) : buf[i].seq \in Nat
         /\ \A k \in 1 .. Len(acked) : acked[k].seq \in Nat /\ acked[k].place \in Nat
<1>1. file \in Seq(Lines) /\ buf \in Seq(Lines) /\ acked \in Seq(Acks)
  BY DEF TypeOK
<1>2. \A l \in Lines : l.seq \in Nat
  BY DEF Lines
<1>3. \A a \in Acks : a.seq \in Nat /\ a.place \in Nat
  BY DEF Acks
<1>4. /\ Len(file) \in Nat /\ Len(buf) \in Nat /\ Len(acked) \in Nat
      /\ DOMAIN file = 1 .. Len(file) /\ DOMAIN acked = 1 .. Len(acked)
  BY <1>1
<1>5. /\ file # <<>> <=> Len(file) > 0
      /\ buf # <<>> <=> Len(buf) > 0
  BY <1>1, EmptySeq
<1>6. /\ \A i \in 1 .. Len(file) : file[i] \in Lines
      /\ \A i \in 1 .. Len(buf) : buf[i] \in Lines
      /\ \A k \in 1 .. Len(acked) : acked[k] \in Acks
  BY <1>1, ElementOfSeq
<1> QED  BY <1>2, <1>3, <1>4, <1>5, <1>6

----------------------------------------------------------------------------
(* Every step keeps the invariant.                                         *)

LEMMA InitEstablishes == Init => LedgerInv
<1> SUFFICES ASSUME Init PROVE LedgerInv
  OBVIOUS
<1>1. TypeOK
  <2>1. <<>> \in Seq(Lines) /\ <<>> \in Seq(Acks) /\ Len(<<>>) = 0
    BY EmptySeq
  <2>2. durable \in 0 .. Len(file) /\ seq \in Nat
    BY <2>1 DEF Init
  <2> QED  BY <2>1, <2>2, Zenon DEF Init, TypeOK
<1>2. Len(file) = 0 /\ Len(buf) = 0 /\ Len(acked) = 0
  BY EmptySeq DEF Init
<1>3. AllWhole /\ Ascending /\ AckedBelow /\ Handle /\ Survives /\ Ordered /\ Counted
  BY <1>2 DEF Init, AllWhole, Ascending, AckedBelow, Handle, Survives, Ordered, Counted
<1>4. CompositionFirst
  BY DEF Init, CompositionFirst
<1> QED  BY <1>1, <1>3, <1>4 DEF LedgerInv

\* No line of the file has a higher number than its last.
LEMMA LastIsHighest ==
  ASSUME TypeOK, Ascending, file # <<>>
  PROVE  /\ file[Len(file)].seq \in Nat
         /\ \A i \in 1 .. Len(file) : file[i].seq <= file[Len(file)].seq
<1> PICK n \in Nat : n = Len(file)
  BY Elements
<1>1. Len(file) \in Nat /\ Len(file) \in 1 .. Len(file)
  <2>1. n > 0
    BY Elements
  <2> QED  BY <2>1
<1>2. \A i \in 1 .. Len(file) : file[i].seq \in Nat /\ (i < Len(file) \/ i = Len(file))
  <2>1. \A i \in 1 .. Len(file) : file[i].seq \in Nat
    BY Elements
  <2>2. \A i \in 1 .. Len(file) : i < Len(file) \/ i = Len(file)
    BY <1>1
  <2> QED  BY <2>1, <2>2
<1>3. ASSUME NEW i \in 1 .. Len(file) PROVE file[i].seq <= file[Len(file)].seq
  <2>1. CASE i < Len(file)
    BY <1>1, <2>1 DEF Ascending
  <2>2. CASE i = Len(file)
    BY <1>2, <2>2
  <2> QED  BY <1>2, <2>1, <2>2
<1> QED  BY <1>1, <1>2, <1>3

LEMMA OpenKeeps == LedgerInv /\ Open => LedgerInv'
<1> SUFFICES ASSUME LedgerInv, Open PROVE LedgerInv'
  OBVIOUS
<1> USE DEF LedgerInv
<1>1. /\ file # <<>> => seq' = file[Len(file)].seq + 1
      /\ file = <<>> => seq' = 0
  BY ResumeAfterLast DEF Open
<1>2. seq' \in Nat
  BY <1>1, Elements
<1>3. TypeOK'
  BY <1>2 DEF Open, TypeOK
<1>4. \A i \in 1 .. Len(file) : file[i].seq < seq'
  <2>1. \A i \in 1 .. Len(file) : file[i].seq \in Nat /\ file # <<>>
    BY Elements
  <2>2. file # <<>> => file[Len(file)].seq \in Nat
                       /\ \A i \in 1 .. Len(file) : file[i].seq <= file[Len(file)].seq
    BY LastIsHighest
  <2> QED  BY <1>1, <2>1, <2>2
<1>5. buf = <<>> /\ Len(buf) = 0
  BY Elements DEF Open, Handle
<1>6. AllWhole' /\ Ascending'
  BY <1>4, <1>5, <1>2, Elements DEF Open, AllWhole, Ascending
<1>7. AckedBelow'
  <2> SUFFICES ASSUME NEW k \in 1 .. Len(acked) PROVE acked[k].seq < seq'
    BY DEF Open, AckedBelow
  <2>1. acked[k].place \in 1 .. Len(file) /\ file[acked[k].place].seq = acked[k].seq
    <3>1. acked[k].place \in 1 .. durable /\ durable \in 0 .. Len(file)
      BY DEF Survives, TypeOK
    <3>2. file[acked[k].place] = Line(acked[k].seq, acked[k].type)
      BY DEF Survives
    <3>3. file[acked[k].place].seq = acked[k].seq
      BY <3>2 DEF Line
    <3> QED  BY <3>1, <3>3, Elements
  <2> QED  BY <1>4, <2>1
<1>8. Handle'
  BY <1>1, <1>5 DEF Open, Handle
<1>9. Survives' /\ Ordered'
  BY DEF Open, Survives, Ordered
<1>10. Counted'
  BY <1>1, Elements DEF Open, Counted
<1>11. CompositionFirst'
  BY DEF Open, CompositionFirst
<1> QED  BY <1>3, <1>6, <1>7, <1>8, <1>9, <1>10, <1>11

\* The line an append() is about to write, behind what the buffer holds.
LEMMA BufferedLine ==
  ASSUME TypeOK, Ascending, Buffered, CompositionFirst,
         mode = "open", NEW type \in Types, MayAppend(type)
  PROVE  LET t == Append(buf, Line(seq, type))
         IN  /\ t \in Seq(Lines) /\ Len(t) = Len(buf) + 1
             /\ \A i \in 1 .. Len(buf) : t[i] = buf[i]
             /\ t[Len(buf) + 1] = Line(seq, type)
             /\ \A i \in 1 .. Len(t) : t[i].form = "whole" /\ t[i].seq \in Nat /\ t[i].seq <= seq
             /\ \A i, j \in 1 .. Len(t) : i < j => t[i].seq <= t[j].seq
             /\ \A i \in 1 .. Len(file), j \in 1 .. Len(t) : file[i].seq <= t[j].seq
             /\ file = <<>> => t[1].type = "composition"
<1> DEFINE t == Append(buf, Line(seq, type))
<1>1. /\ seq \in Nat /\ buf \in Seq(Lines)
      /\ Line(seq, type) \in Lines
      /\ Line(seq, type).seq = seq /\ Line(seq, type).type = type
      /\ Line(seq, type).form = "whole"
  BY LineIsALine DEF TypeOK
<1>2. /\ t \in Seq(Lines) /\ Len(t) = Len(buf) + 1
      /\ \A i \in 1 .. Len(buf) : t[i] = buf[i]
      /\ t[Len(buf) + 1] = Line(seq, type)
  BY <1>1, AppendProperties
<1> HIDE DEF t
<1>3. \A i \in 1 .. Len(t) : i = Len(buf) + 1 \/ i \in 1 .. Len(buf)
  BY <1>2, Elements
<1>4. \A i \in 1 .. Len(t) : t[i].form = "whole" /\ t[i].seq \in Nat /\ t[i].seq <= seq
  BY <1>1, <1>2, <1>3, Elements DEF Buffered, Ascending
<1>5. \A i, j \in 1 .. Len(t) : i < j => t[i].seq <= t[j].seq
  <2> SUFFICES ASSUME NEW i \in 1 .. Len(t), NEW j \in 1 .. Len(t), i < j
               PROVE  t[i].seq <= t[j].seq
    OBVIOUS
  <2>1. i \in 1 .. Len(buf)
    BY <1>2, Elements
  <2>2. CASE j = Len(buf) + 1
    BY <1>1, <1>2, <1>4, <2>2
  <2>3. CASE j \in 1 .. Len(buf)
    BY <1>2, <2>1, <2>3 DEF Ascending
  <2> QED  BY <1>3, <2>2, <2>3
<1>6. \A i \in 1 .. Len(file), j \in 1 .. Len(t) : file[i].seq <= t[j].seq
  BY <1>1, <1>2, <1>3, Elements DEF Ascending
<1>7. file = <<>> => t[1].type = "composition"
  <2>1. CASE buf = <<>>
    BY <1>1, <1>2, <2>1, Elements DEF Buffered, MayAppend
  <2>2. CASE buf # <<>>
    BY <1>2, <2>2, Elements DEF CompositionFirst
  <2> QED  BY <2>1, <2>2
<1> QED  BY <1>2, <1>4, <1>5, <1>6, <1>7 DEF t

LEMMA WholeBuffer == LedgerInv => TypeOK /\ Ascending /\ Buffered /\ CompositionFirst
BY DEF LedgerInv, AllWhole, Handle, Buffered

LEMMA FlushKeeps ==
  ASSUME LedgerInv, NEW type \in Types, Flush(type)
  PROVE  LedgerInv'
<1> DEFINE t == Append(buf, Line(seq, type))
<1> USE DEF LedgerInv
<1>1. /\ t \in Seq(Lines) /\ Len(t) = Len(buf) + 1
      /\ t[Len(buf) + 1] = Line(seq, type)
      /\ \A i \in 1 .. Len(t) : t[i].form = "whole" /\ t[i].seq \in Nat /\ t[i].seq <= seq
      /\ \A i, j \in 1 .. Len(t) : i < j => t[i].seq <= t[j].seq
      /\ \A i \in 1 .. Len(file), j \in 1 .. Len(t) : file[i].seq <= t[j].seq
      /\ file = <<>> => t[1].type = "composition"
      /\ ~failed => t = <<Line(seq, type)>>
  <2>1. mode = "open" /\ MayAppend(type)
    BY DEF Flush
  <2>2. ~failed => t = <<Line(seq, type)>>
    BY DEF Counted
  <2> HIDE DEF LedgerInv
  <2> QED  BY BufferedLine, WholeBuffer, <2>1, <2>2
<1>2. file' = file \o t
  BY <1>1, JoinWhole DEF Flush, TypeOK, AllWhole
<1> HIDE DEF t
<1>3. /\ file' \in Seq(Lines) /\ Len(file') = Len(file) + Len(t)
      /\ \A i \in 1 .. Len(file) : file'[i] = file[i]
      /\ \A i \in Len(file) + 1 .. Len(file') : file'[i] = t[i - Len(file)]
  <2>1. file \in Seq(Lines)
    BY DEF TypeOK
  <2>2. t \in Seq(Lines)
    BY <1>1
  <2> HIDE DEF LedgerInv
  <2> QED  BY <1>2, <2>1, <2>2, ConcatElements
<1>4. /\ buf' = <<>> /\ Len(buf') = 0 /\ mode' = "flushed"
      /\ UNCHANGED <<durable, seq, acked, failed>>
  BY DEF Flush
<1>5. TypeOK'
  <2>1. <<>> \in Seq(Lines)
    OBVIOUS
  <2>2. durable' \in 0 .. Len(file')
    BY <1>1, <1>3, <1>4, Elements DEF TypeOK
  <2> QED  BY <1>3, <1>4, <2>1, <2>2 DEF TypeOK
<1>6. \A i \in 1 .. Len(file') :
        \/ i \in 1 .. Len(file)
        \/ i \in Len(file) + 1 .. Len(file') /\ i - Len(file) \in 1 .. Len(t)
  BY <1>1, <1>3, Elements
<1>7. AllWhole'
  BY <1>1, <1>3, <1>4, <1>6 DEF AllWhole
<1>8. Ascending'
  <2>1. ASSUME NEW i \in 1 .. Len(file'), NEW j \in 1 .. Len(file'), i < j
        PROVE  file'[i].seq <= file'[j].seq
    <3>1. CASE j \in 1 .. Len(file)
      <4>1. i \in 1 .. Len(file)
        BY <2>1, <3>1, Elements
      <4> QED  BY <1>3, <2>1, <3>1, <4>1 DEF Ascending
    <3>2. CASE i \in 1 .. Len(file) /\ j \notin 1 .. Len(file)
      BY <1>1, <1>3, <1>6, <3>2
    <3>3. CASE i \notin 1 .. Len(file) /\ j \notin 1 .. Len(file)
      <4>1. i - Len(file) \in 1 .. Len(t) /\ j - Len(file) \in 1 .. Len(t)
        BY <1>6, <3>3
      <4> PICK k \in 1 .. Len(t), l \in 1 .. Len(t) :
            k = i - Len(file) /\ l = j - Len(file)
        BY <4>1
      <4>2. k < l
        BY <2>1, Elements
      <4>3. t[i - Len(file)].seq <= t[j - Len(file)].seq
        BY <1>1, <4>2
      <4> QED  BY <1>3, <1>6, <3>3, <4>3
    <3> QED  BY <2>1, <3>1, <3>2, <3>3, Elements
  <2>2. ASSUME NEW i \in 1 .. Len(file') PROVE file'[i].seq <= seq'
    <3>1. CASE i \in 1 .. Len(file)
      BY <1>3, <1>4, <3>1 DEF Ascending, Flush
    <3>2. CASE i \in Len(file) + 1 .. Len(file') /\ i - Len(file) \in 1 .. Len(t)
      <4>1. t[i - Len(file)].seq <= seq
        BY <1>1, <3>2
      <4> QED  BY <1>3, <1>4, <3>2, <4>1
    <3> QED  BY <1>6, <3>1, <3>2
  <2> QED  BY <1>4, <2>1, <2>2 DEF Ascending
<1>9. AckedBelow'
  BY <1>4 DEF AckedBelow, Flush
<1>10. Handle'
  <2>1. Len(file') = Len(file) + Len(buf) + 1
    BY <1>1, <1>3, Elements
  <2>2. Len(file') \in Len(file) + 1 .. Len(file') /\ Len(file') - Len(file) = Len(buf) + 1
    BY <2>1, Elements
  <2>3. file'[Len(file')] = Line(seq, type)
    BY <1>1, <1>3, <2>2
  <2>4. durable' < Len(file')
    BY <1>4, <2>1, Elements DEF TypeOK
  <2> QED  BY <1>4, <2>3, <2>4 DEF Handle, Line
<1>11. Survives'
  <2>1. durable \in Nat /\ \A i \in 1 .. durable : i \in 1 .. Len(file)
    BY Elements DEF TypeOK
  <2> QED  BY <1>3, <1>4, <2>1, SurvivesByPrefix
<1>12. Ordered'
  BY <1>4 DEF Ordered
<1>13. Counted'
  <2> SUFFICES ASSUME ~failed PROVE Counted'
    BY <1>4 DEF Counted
  <2>1. Len(t) = 1 /\ t[1].seq = seq /\ seq = Len(file)
    BY <1>1 DEF Counted, Flush, Line
  <2>2. \A i \in 1 .. Len(file') : file'[i].seq = i - 1
    BY <1>3, <1>6, <2>1, Elements DEF Counted
  <2> QED  BY <1>3, <1>4, <2>1, <2>2, Elements DEF Counted
<1>14. CompositionFirst'
  <2>1. CASE file = <<>>
    <3>1. 1 \in Len(file) + 1 .. Len(file') /\ 1 - Len(file) = 1
      BY <1>1, <1>3, <2>1, Elements
    <3>2. file'[1].type = "composition"
      BY <1>1, <1>3, <2>1, <3>1
    <3> QED  BY <1>4, <3>2 DEF CompositionFirst
  <2>2. CASE file # <<>>
    <3>1. 1 \in 1 .. Len(file)
      BY <2>2, Elements
    <3> QED  BY <1>3, <1>4, <2>2, <3>1 DEF CompositionFirst
  <2> QED  BY <2>1, <2>2
<1> QED  BY <1>5, <1>7, <1>8, <1>9, <1>10, <1>11, <1>12, <1>13, <1>14

LEMMA FlushFailsKeeps ==
  ASSUME LedgerInv, NEW type \in Types, FlushFails(type)
  PROVE  LedgerInv'
<1> USE DEF LedgerInv
<1>1. /\ buf' \in Seq(Lines) /\ Len(buf') = Len(buf) + 1
      /\ \A i \in 1 .. Len(buf) : buf'[i] = buf[i]
      /\ \A i \in 1 .. Len(buf') : buf'[i].form = "whole" /\ buf'[i].seq <= seq
      /\ \A i, j \in 1 .. Len(buf') : i < j => buf'[i].seq <= buf'[j].seq
      /\ \A i \in 1 .. Len(file), j \in 1 .. Len(buf') : file[i].seq <= buf'[j].seq
      /\ file = <<>> => buf'[1].type = "composition"
  <2>1. mode = "open" /\ MayAppend(type) /\ buf' = Append(buf, Line(seq, type))
    BY DEF FlushFails
  <2> HIDE DEF LedgerInv
  <2> QED  BY BufferedLine, WholeBuffer, <2>1
<1>2. /\ mode = "open" /\ failed' = TRUE
      /\ UNCHANGED <<file, durable, seq, mode, acked>>
  BY DEF FlushFails
<1>3. failed' \in BOOLEAN
  BY <1>2, Zenon
<1>4. TypeOK'
  BY <1>1, <1>2, <1>3 DEF TypeOK
<1>5. AllWhole' /\ Ascending'
  BY <1>1, <1>2 DEF AllWhole, Ascending
<1>6. AckedBelow' /\ Survives' /\ Ordered'
  BY <1>2 DEF AckedBelow, Survives, Ordered
<1>7. Handle'
  <2>1. buf' # <<>>
    BY <1>1, EmptySeq, Elements
  <2> QED  BY <1>2, <2>1 DEF Handle
<1>8. Counted'
  BY <1>2 DEF Counted
<1>9. CompositionFirst'
  BY <1>1, <1>2 DEF CompositionFirst
<1> QED  BY <1>4, <1>5, <1>6, <1>7, <1>8, <1>9

LEMMA SyncKeeps == LedgerInv /\ Sync => LedgerInv'
<1> SUFFICES ASSUME LedgerInv, Sync PROVE LedgerInv'
  OBVIOUS
<1> USE DEF LedgerInv
<1> DEFINE last == file[Len(file)]
           ack == [seq |-> seq, type |-> last.type, place |-> Len(file)]
<1>1. /\ mode = "flushed" /\ mode' = "open"
      /\ durable' = Len(file) /\ seq' = seq + 1 /\ acked' = Append(acked, ack)
      /\ UNCHANGED <<file, buf, failed>>
  BY DEF Sync, Fsync
<1>2. /\ buf = <<>> /\ Len(buf) = 0 /\ durable < Len(file) /\ last.seq = seq
      /\ Len(file) \in 1 .. Len(file)
      /\ durable \in Nat /\ seq \in Nat
  BY <1>1, Elements DEF Handle, TypeOK
<1>3. last \in Lines /\ last.form = "whole"
  BY <1>2, ElementOfSeq DEF TypeOK, AllWhole
<1>4. ack \in Acks
  BY <1>2, <1>3 DEF Acks, Lines
<1>5. last = Line(seq, last.type)
  BY <1>2, <1>3 DEF Lines, Line
<1> HIDE DEF ack
<1>6. /\ acked' \in Seq(Acks) /\ Len(acked') = Len(acked) + 1
      /\ \A k \in 1 .. Len(acked) : acked'[k] = acked[k]
      /\ acked'[Len(acked) + 1] = ack
  BY <1>1, <1>4, AppendProperties DEF TypeOK
<1>7. ack.seq = seq /\ ack.type = last.type /\ ack.place = Len(file)
  BY DEF ack
<1>8. \A k \in 1 .. Len(acked') : k \in 1 .. Len(acked) \/ k = Len(acked) + 1
  BY <1>6, Elements
<1>9. TypeOK'
  BY <1>1, <1>2, <1>6 DEF TypeOK
<1>10. AllWhole' /\ Handle' /\ CompositionFirst'
  BY <1>1, <1>2, Elements DEF AllWhole, Handle, CompositionFirst
<1>11. Ascending'
  BY <1>1, <1>2, Elements DEF Ascending
<1>12. \A k \in 1 .. Len(acked) : acked[k].seq < seq /\ acked[k].place < Len(file)
  BY <1>1, <1>2, Elements DEF AckedBelow, Survives
<1>13. AckedBelow'
  BY <1>1, <1>2, <1>6, <1>7, <1>8, <1>12, Elements DEF AckedBelow
<1>14. Survives'
  <2> SUFFICES ASSUME NEW k \in 1 .. Len(acked')
               PROVE  /\ acked'[k].place \in 1 .. durable'
                      /\ file'[acked'[k].place] = Line(acked'[k].seq, acked'[k].type)
    BY DEF Survives
  <2>1. CASE k \in 1 .. Len(acked)
    BY <1>1, <1>2, <1>6, <2>1, Elements DEF Survives
  <2>2. CASE k = Len(acked) + 1
    BY <1>1, <1>2, <1>5, <1>6, <1>7, <2>2
  <2> QED  BY <1>8, <2>1, <2>2
<1>15. Ordered'
  <2> SUFFICES ASSUME NEW k \in 1 .. Len(acked'), NEW l \in 1 .. Len(acked'), k < l
               PROVE  acked'[k].seq < acked'[l].seq /\ acked'[k].place < acked'[l].place
    BY DEF Ordered
  <2>1. k \in 1 .. Len(acked)
    BY <1>6, Elements
  <2>2. CASE l \in 1 .. Len(acked)
    BY <1>6, <2>1, <2>2 DEF Ordered
  <2>3. CASE l = Len(acked) + 1
    BY <1>6, <1>7, <1>12, <2>1, <2>3
  <2> QED  BY <1>8, <2>2, <2>3
<1>16. Counted'
  BY <1>1, <1>2, Elements DEF Counted
<1> QED  BY <1>9, <1>10, <1>11, <1>13, <1>14, <1>15, <1>16

LEMMA SyncFailsKeeps == LedgerInv /\ SyncFails => LedgerInv'
<1> SUFFICES ASSUME LedgerInv, SyncFails PROVE LedgerInv'
  OBVIOUS
<1> USE DEF LedgerInv
<1>1. /\ mode = "flushed" /\ mode' = "open" /\ failed' = TRUE
      /\ UNCHANGED <<file, durable, buf, seq, acked>>
  BY DEF SyncFails
<1>2. failed' \in BOOLEAN
  BY <1>1, Zenon
<1>3. file # <<>>
  BY <1>1, Elements DEF Handle, TypeOK
<1>4. TypeOK'
  BY <1>1, <1>2 DEF TypeOK
<1>5. AllWhole' /\ Ascending' /\ AckedBelow' /\ Survives' /\ Ordered' /\ CompositionFirst'
  BY <1>1 DEF AllWhole, Ascending, AckedBelow, Survives, Ordered, CompositionFirst
<1>6. Handle'
  BY <1>1, <1>3 DEF Handle
<1>7. Counted'
  BY <1>1 DEF Counted
<1> QED  BY <1>4, <1>5, <1>6, <1>7

\* close() writes what failed flushes left behind, after the lines before it.
LEMMA CloseKeeps == LedgerInv /\ Close => LedgerInv'
<1> SUFFICES ASSUME LedgerInv, Close PROVE LedgerInv'
  OBVIOUS
<1> USE DEF LedgerInv
<1>1. /\ mode = "open" /\ mode' = "closed" /\ buf' = <<>> /\ Len(buf') = 0
      /\ UNCHANGED <<durable, seq, acked, failed>>
  BY DEF Close
<1>2. file' = file \o buf
  BY JoinWhole DEF Close, TypeOK, AllWhole
<1>3. /\ file' \in Seq(Lines) /\ Len(file') = Len(file) + Len(buf)
      /\ \A i \in 1 .. Len(file) : file'[i] = file[i]
      /\ \A i \in Len(file) + 1 .. Len(file') : file'[i] = buf[i - Len(file)]
  <2>1. file \in Seq(Lines) /\ buf \in Seq(Lines)
    BY DEF TypeOK
  <2> HIDE DEF LedgerInv
  <2> QED  BY <1>2, <2>1, ConcatElements
<1>4. \A i \in 1 .. Len(file') :
        \/ i \in 1 .. Len(file)
        \/ i \in Len(file) + 1 .. Len(file') /\ i - Len(file) \in 1 .. Len(buf)
  BY <1>3, Elements
<1>5. TypeOK'
  <2>1. <<>> \in Seq(Lines)
    OBVIOUS
  <2>2. durable' \in 0 .. Len(file')
    BY <1>1, <1>3, Elements DEF TypeOK
  <2> QED  BY <1>1, <1>3, <2>1, <2>2 DEF TypeOK
<1>6. AllWhole'
  BY <1>1, <1>3, <1>4 DEF AllWhole
<1>7. Ascending'
  <2>1. ASSUME NEW i \in 1 .. Len(file'), NEW j \in 1 .. Len(file'), i < j
        PROVE  file'[i].seq <= file'[j].seq
    <3>1. CASE j \in 1 .. Len(file)
      <4>1. i \in 1 .. Len(file)
        BY <2>1, <3>1, Elements
      <4> QED  BY <1>3, <2>1, <3>1, <4>1 DEF Ascending
    <3>2. CASE i \in 1 .. Len(file) /\ j \notin 1 .. Len(file)
      BY <1>3, <1>4, <3>2 DEF Ascending
    <3>3. CASE i \notin 1 .. Len(file) /\ j \notin 1 .. Len(file)
      <4>1. i - Len(file) \in 1 .. Len(buf) /\ j - Len(file) \in 1 .. Len(buf)
        BY <1>4, <3>3
      <4> PICK k \in 1 .. Len(buf), l \in 1 .. Len(buf) :
            k = i - Len(file) /\ l = j - Len(file)
        BY <4>1
      <4>2. k < l
        BY <2>1, Elements
      <4>3. buf[i - Len(file)].seq <= buf[j - Len(file)].seq
        BY <4>2 DEF Ascending
      <4> QED  BY <1>3, <1>4, <3>3, <4>3
    <3> QED  BY <2>1, <3>1, <3>2, <3>3, Elements
  <2> QED  BY <1>1, <2>1 DEF Ascending
<1>8. AckedBelow' /\ Handle' /\ Ordered'
  BY <1>1 DEF AckedBelow, Handle, Ordered
<1>9. Survives'
  <2>1. durable \in Nat /\ \A i \in 1 .. durable : i \in 1 .. Len(file)
    BY Elements DEF TypeOK
  <2> QED  BY <1>1, <1>3, <2>1, SurvivesByPrefix
<1>10. Counted'
  <2> SUFFICES ASSUME ~failed PROVE Counted'
    BY <1>1 DEF Counted
  <2>1. Len(buf) = 0 /\ Len(file') = Len(file)
    BY <1>3, Elements DEF Counted
  <2> QED  BY <1>1, <1>3, <2>1 DEF Counted
<1>11. CompositionFirst'
  <2>1. CASE file = <<>> /\ buf # <<>>
    <3>1. 1 \in Len(file) + 1 .. Len(file') /\ 1 - Len(file) = 1
      BY <1>3, <2>1, Elements
    <3> QED  BY <1>1, <1>3, <2>1, <3>1 DEF CompositionFirst
  <2>2. CASE file # <<>>
    <3>1. 1 \in 1 .. Len(file)
      BY <2>2, Elements
    <3> QED  BY <1>1, <1>3, <2>2, <3>1 DEF CompositionFirst
  <2>3. CASE file = <<>> /\ buf = <<>>
    <3>1. Len(file') = 0
      BY <1>3, <2>3, Elements
    <3>2. file' = <<>>
      BY <1>3, <3>1, EmptySeq
    <3> QED  BY <1>1, <3>2 DEF CompositionFirst
  <2> QED  BY <2>1, <2>2, <2>3
<1> QED  BY <1>5, <1>6, <1>7, <1>8, <1>9, <1>10, <1>11

\* The process ends: nothing is torn, so the file stays as it is.
LEMMA DeathKeeps == NoTorn /\ LedgerInv /\ Death => LedgerInv'
<1> SUFFICES ASSUME NoTorn, LedgerInv, Death PROVE LedgerInv'
  OBVIOUS
<1> USE DEF LedgerInv
<1>1. file' = file
  <2>1. PICK piece \in {<<>>} : file' = Join(file, piece)
    BY NoPieces DEF Death
  <2>2. file' = file \o <<>>
    BY <2>1 DEF Join
  <2> QED  BY <2>2, ConcatEmptySeq DEF TypeOK
<1>2. /\ mode' = "closed" /\ buf' = <<>> /\ Len(buf') = 0
      /\ UNCHANGED <<durable, seq, acked, failed>>
  BY DEF Death
<1>3. TypeOK'
  <2>1. <<>> \in Seq(Lines)
    OBVIOUS
  <2> QED  BY <1>1, <1>2, <2>1 DEF TypeOK
<1>4. AllWhole' /\ Ascending' /\ AckedBelow' /\ Handle' /\ Survives' /\ Ordered' /\ Counted'
  BY <1>1, <1>2 DEF AllWhole, Ascending, AckedBelow, Handle, Survives, Ordered, Counted
<1>5. CompositionFirst'
  BY <1>1, <1>2 DEF CompositionFirst
<1> QED  BY <1>3, <1>4, <1>5

\* The machine stops: at least the synced lines are found again.
LEMMA PowerLossCuts ==
  ASSUME NoTorn, LedgerInv, PowerLoss
  PROVE  \E n \in durable .. Len(file) :
           /\ file' \in Seq(Lines) /\ Len(file') = n /\ durable' = n
           /\ file' = SubSeq(file, 1, n)
           /\ \A i \in 1 .. n : file'[i] = file[i]
<1> USE DEF LedgerInv
<1>1. PICK n \in durable .. Len(file) : file' = SubSeq(file, 1, n) \o <<>>
  BY NoPieces DEF PowerLoss
<1>2. n \in Int /\ n >= 0 /\ n <= Len(file)
  BY Elements DEF TypeOK
<1>3. \A i \in 1 .. n : file[i] \in Lines
  BY <1>2, Elements, ElementOfSeq DEF TypeOK
<1>4. /\ SubSeq(file, 1, n) \in Seq(Lines)
      /\ Len(SubSeq(file, 1, n)) = n
      /\ \A i \in 1 .. n : SubSeq(file, 1, n)[i] = file[i]
  BY <1>2, <1>3, SubSeqProperties
<1>5. file' = SubSeq(file, 1, n)
  BY <1>1, <1>4, ConcatEmptySeq
<1>6. durable' = Len(file')
  BY DEF PowerLoss
<1> QED  BY <1>4, <1>5, <1>6

LEMMA PowerLossKeeps == NoTorn /\ LedgerInv /\ PowerLoss => LedgerInv'
<1> SUFFICES ASSUME NoTorn, LedgerInv, PowerLoss PROVE LedgerInv'
  OBVIOUS
<1>1. PICK n \in durable .. Len(file) :
        /\ file' \in Seq(Lines) /\ Len(file') = n /\ durable' = n
        /\ \A i \in 1 .. n : file'[i] = file[i]
  BY PowerLossCuts
<1> USE DEF LedgerInv
<1>2. /\ mode' = "closed" /\ buf' = <<>> /\ Len(buf') = 0
      /\ UNCHANGED <<seq, acked, failed>>
  BY DEF PowerLoss
<1>3. n \in Nat /\ durable \in Nat /\ durable <= n /\ n <= Len(file)
      /\ \A i \in 1 .. n : i \in 1 .. Len(file)
  BY Elements DEF TypeOK
<1>4. TypeOK'
  <2>1. <<>> \in Seq(Lines)
    OBVIOUS
  <2> QED  BY <1>1, <1>2, <1>3, <2>1 DEF TypeOK
<1>5. AllWhole' /\ Ascending' /\ Counted'
  <2>1. AllWhole'
    BY <1>1, <1>2, <1>3 DEF AllWhole
  <2>2. Ascending'
    BY <1>1, <1>2, <1>3 DEF Ascending
  <2>3. Counted'
    BY <1>1, <1>2, <1>3 DEF Counted
  <2> QED  BY <2>1, <2>2, <2>3
<1>6. AckedBelow' /\ Handle' /\ Ordered'
  BY <1>2 DEF AckedBelow, Handle, Ordered
<1>7. Survives'
  BY <1>1, <1>2, <1>3, SurvivesByPrefix
<1>8. CompositionFirst'
  <2>1. file' # <<>> => 1 \in 1 .. n /\ file # <<>>
    BY <1>1, <1>3, EmptySeq, Elements
  <2> QED  BY <1>1, <1>2, <2>1 DEF CompositionFirst
<1> QED  BY <1>4, <1>5, <1>6, <1>7, <1>8

LEMMA NextKeeps == NoTorn /\ LedgerInv /\ [Next]_vars => LedgerInv'
<1> SUFFICES ASSUME NoTorn, LedgerInv, [Next]_vars PROVE LedgerInv'
  OBVIOUS
<1>1. CASE Open
  BY <1>1, OpenKeeps
<1>2. CASE \E type \in Types : Flush(type)
  BY <1>2, FlushKeeps
<1>3. CASE \E type \in Types : FlushFails(type)
  BY <1>3, FlushFailsKeeps
<1>4. CASE Sync
  BY <1>4, SyncKeeps
<1>5. CASE SyncFails
  BY <1>5, SyncFailsKeeps
<1>6. CASE Close
  BY <1>6, CloseKeeps
<1>7. CASE Death
  BY <1>7, DeathKeeps
<1>8. CASE PowerLoss
  BY <1>8, PowerLossKeeps
<1>9. CASE UNCHANGED vars
  BY <1>9 DEF vars, LedgerInv, TypeOK, AllWhole, Ascending, AckedBelow, Handle,
              Survives, Ordered, Counted, CompositionFirst
<1> QED  BY <1>1, <1>2, <1>3, <1>4, <1>5, <1>6, <1>7, <1>8, <1>9 DEF Next

----------------------------------------------------------------------------
(* Whatever tears: what is left of the promises when lines are on disk in  *)
(* part, and appended text continues them.                                 *)

\* An acknowledged event is whole at its place, or a line up to there stops
\* every reader.
Accounted ==
  \A k \in 1 .. Len(acked) :
    /\ acked[k].place \in 1 .. durable
    /\ \/ file[acked[k].place] = Line(acked[k].seq, acked[k].type)
       \/ \E i \in 1 .. acked[k].place : ~Readable(file[i])

\* Acknowledged numbers are strictly ascending.
NumbersAscend ==
  \A k, l \in 1 .. Len(acked) : k < l => acked[k].seq < acked[l].seq

\* Between flush and fsync the last line is the one append() wrote, or a line
\* it was merged into.
LastWritten ==
  mode = "flushed" =>
    /\ file # <<>> /\ buf = <<>>
    /\ \/ file[Len(file)] = Line(seq, file[Len(file)].type)
       \/ ~Readable(file[Len(file)])

TornInv ==
  /\ TypeOK
  /\ Ascending /\ Buffered /\ CompositionFirst
  /\ AckedBelow /\ LastWritten /\ Accounted /\ NumbersAscend

\* What Join makes of two sequences of lines, d of them swallowed: the first
\* stays but for a torn last line, which then stops every reader, and the
\* second follows.
Joined(s, t, u, d) ==
  /\ u \in Seq(Lines) /\ Len(u) = Len(s) + Len(t) - d
  /\ d = 1 => Len(s) > 0 /\ Len(t) > 0 /\ ~Readable(u[Len(s)])
  /\ \A i \in 1 .. Len(s) : u[i].seq = s[i].seq /\ u[i].type = s[i].type
  /\ \A i \in 1 .. Len(s) :
       u[i] = s[i] \/ (s[i].form # "whole" /\ ~Readable(u[i]))
  /\ \A i \in Len(s) + 1 .. Len(u) : u[i] = t[i - Len(s) + d]

LEMMA JoinShape ==
  ASSUME NEW s \in Seq(Lines), NEW t \in Seq(Lines), NEW u, u = Join(s, t)
  PROVE  \E d \in {0, 1} : Joined(s, t, u, d)
<1> USE DEF Joined
<1> DEFINE torn == s # <<>> /\ t # <<>> /\ s[Len(s)].form \in Torn
<1>0. /\ Len(s) \in Nat /\ Len(t) \in Nat
      /\ s # <<>> => Len(s) > 0
      /\ t # <<>> => Len(t) > 0
  BY EmptySeq
<1>1. CASE ~torn
  <2>1. u = s \o t
    BY <1>1 DEF Join
  <2>2. /\ u \in Seq(Lines) /\ Len(u) = Len(s) + Len(t)
        /\ \A i \in 1 .. Len(s) : u[i] = s[i]
        /\ \A i \in Len(s) + 1 .. Len(u) : u[i] = t[i - Len(s)]
    BY <2>1, ConcatElements
  <2>3. /\ Len(u) = Len(s) + Len(t) - 0
        /\ \A i \in Len(s) + 1 .. Len(u) : u[i] = t[i - Len(s) + 0]
    BY <1>0, <2>2
  <2>4. \A i \in 1 .. Len(s) : u[i].seq = s[i].seq /\ u[i].type = s[i].type
    BY <2>2
  <2> QED  BY <2>2, <2>3, <2>4
<1>2. CASE torn
  <2> DEFINE v == [s EXCEPT ![Len(s)].form = "broken"]
  <2>1. u = v \o Tail(t)
    BY <1>2 DEF Join
  <2>2. Len(s) \in 1 .. Len(s) /\ Len(t) > 0
    BY <1>0, <1>2
  <2>3. \A i \in 1 .. Len(s) : s[i] \in Lines
    BY ElementOfSeq
  <2>4. \A l \in Lines : [l EXCEPT !.form = "broken"] \in Lines
    BY DEF Lines, Forms
  <2>5. /\ v \in Seq(Lines) /\ Len(v) = Len(s)
        /\ \A i \in 1 .. Len(s) : i # Len(s) => v[i] = s[i]
        /\ v[Len(s)] = [s[Len(s)] EXCEPT !.form = "broken"]
    <3>1. s \in [1 .. Len(s) -> Lines]
      BY LenProperties
    <3>2. v \in [1 .. Len(s) -> Lines]
      BY <2>2, <2>3, <2>4, <3>1
    <3>3. v \in Seq(Lines) /\ Len(v) = Len(s)
      BY <1>0, <3>2, LenProperties, SeqDef
    <3> QED  BY <2>2, <3>1, <3>3
  <2>6. /\ v[Len(s)].seq = s[Len(s)].seq /\ v[Len(s)].type = s[Len(s)].type
        /\ v[Len(s)].form = "broken" /\ s[Len(s)].form # "whole"
    BY <1>2, <2>2, <2>3, <2>5 DEF Lines, Torn
  <2> HIDE DEF v
  <2>7. /\ Tail(t) \in Seq(Lines) /\ Len(Tail(t)) = Len(t) - 1
        /\ \A i \in 1 .. Len(t) - 1 : Tail(t)[i] = t[i + 1]
    BY <1>2, HeadTailProperties
  <2>8. /\ u \in Seq(Lines) /\ Len(u) = Len(s) + (Len(t) - 1)
        /\ \A i \in 1 .. Len(s) : u[i] = v[i]
        /\ \A i \in Len(s) + 1 .. Len(u) : u[i] = Tail(t)[i - Len(s)]
    <3> DEFINE w == Tail(t)
    <3>1. u = v \o w /\ w \in Seq(Lines) /\ Len(w) = Len(t) - 1
      BY <2>1, <2>7
    <3>2. v \in Seq(Lines) /\ Len(v) = Len(s)
      BY <2>5
    <3> HIDE DEF w
    <3>3. /\ u \in Seq(Lines) /\ Len(u) = Len(s) + (Len(t) - 1)
          /\ \A i \in 1 .. Len(s) : u[i] = v[i]
          /\ \A i \in Len(s) + 1 .. Len(u) : u[i] = w[i - Len(s)]
      BY <3>1, <3>2, ConcatElements
    <3> QED  BY <3>3 DEF w
  <2>9. \A i \in Len(s) + 1 .. Len(u) : u[i] = t[i - Len(s) + 1]
    <3> TAKE i \in Len(s) + 1 .. Len(u)
    <3>1. i - Len(s) \in 1 .. Len(t) - 1
      BY <1>0, <2>8
    <3> QED  BY <2>7, <2>8, <3>1
  <2>10. ~Readable(u[Len(s)])
    BY <2>2, <2>6, <2>8 DEF Readable
  <2>11. \A i \in 1 .. Len(s) :
           /\ u[i].seq = s[i].seq /\ u[i].type = s[i].type
           /\ u[i] = s[i] \/ (s[i].form # "whole" /\ ~Readable(u[i]))
    BY <2>5, <2>6, <2>8, <2>10
  <2>12. Len(u) = Len(s) + Len(t) - 1
    BY <1>0, <2>8
  <2>13. Len(s) > 0 /\ Len(t) > 0
    BY <1>0, <2>2
  <2> QED  BY <2>8, <2>9, <2>10, <2>11, <2>12, <2>13
<1> QED  BY <1>1, <1>2

\* Lines that may follow the file: their numbers go on, and a new file begins
\* with event 0.
Follows(t) ==
  /\ \A i, j \in 1 .. Len(t) : i < j => t[i].seq <= t[j].seq
  /\ \A i \in 1 .. Len(file), j \in 1 .. Len(t) : file[i].seq <= t[j].seq
  /\ file = <<>> /\ Len(t) > 0 => t[1].type = "composition"

\* What the file grows to when they are joined to it.
Grown(t, u) ==
  /\ u \in Seq(Lines) /\ durable \in 0 .. Len(u)
  /\ \A i, j \in 1 .. Len(u) : i < j => u[i].seq <= u[j].seq
  /\ \A i \in 1 .. Len(u) :
       \/ \E j \in 1 .. Len(file) : u[i].seq = file[j].seq
       \/ \E j \in 1 .. Len(t) : u[i].seq = t[j].seq
  /\ u # <<>> => u[1].type = "composition"
  /\ \A k \in 1 .. Len(acked) :
       /\ acked[k].place \in 1 .. durable
       /\ \/ u[acked[k].place] = Line(acked[k].seq, acked[k].type)
          \/ \E i \in 1 .. acked[k].place : ~Readable(u[i])
  /\ Len(t) > 0 => /\ u # <<>>
                   /\ u[Len(u)] = t[Len(t)] \/ ~Readable(u[Len(u)])

\* However torn the file is: numbers, event 0 and what is known of the
\* acknowledged events stay.
LEMMA JoinGrows ==
  ASSUME TypeOK, Ascending, CompositionFirst, Accounted,
         NEW t \in Seq(Lines), NEW u, u = Join(file, t), Follows(t)
  PROVE  Grown(t, u)
<1>1. Len(file) \in Nat /\ Len(t) \in Nat
  BY Elements
<1> PICK n \in Nat : n = Len(file)
  BY <1>1
<1> PICK m \in Nat : m = Len(t)
  BY <1>1
<1>2. PICK d \in {0, 1} :
        /\ u \in Seq(Lines) /\ Len(u) = n + m - d
        /\ d = 1 => n > 0 /\ m > 0 /\ ~Readable(u[n])
        /\ \A i \in 1 .. n : u[i].seq = file[i].seq /\ u[i].type = file[i].type
        /\ \A i \in 1 .. n : u[i] = file[i] \/ (file[i].form # "whole" /\ ~Readable(u[i]))
        /\ \A i \in n + 1 .. n + m - d : u[i] = t[i - n + d]
  <2>1. file \in Seq(Lines)
    BY DEF TypeOK
  <2>2. PICK d \in {0, 1} : Joined(file, t, u, d)
    BY <2>1, JoinShape, Zenon
  <2> QED  BY <1>1, <2>2 DEF Joined
<1>3. \A i \in 1 .. n + m - d :
        i \in 1 .. n \/ (i \in n + 1 .. n + m - d /\ i - n + d \in 1 .. m)
  OBVIOUS
<1>4. durable \in Nat /\ durable <= n /\ durable \in 0 .. n + m - d
  <2>1. durable \in 0 .. n
    BY <1>1 DEF TypeOK
  <2> QED  BY <1>2, <2>1
<1>5. \A i, j \in 1 .. n + m - d : i < j => u[i].seq <= u[j].seq
  <2> SUFFICES ASSUME NEW i \in 1 .. n + m - d, NEW j \in 1 .. n + m - d, i < j
               PROVE  u[i].seq <= u[j].seq
    OBVIOUS
  <2>1. CASE j \in 1 .. n
    <3>1. i \in 1 .. n
      BY <2>1
    <3>2. file[i].seq <= file[j].seq
      BY <1>1, <2>1, <3>1 DEF Ascending
    <3> QED  BY <1>2, <2>1, <3>1, <3>2
  <2>2. CASE i \in 1 .. n /\ j \notin 1 .. n
    <3>1. j - n + d \in 1 .. m /\ u[j] = t[j - n + d]
      BY <1>2, <1>3, <2>2
    <3>2. file[i].seq <= t[j - n + d].seq
      BY <2>2, <3>1 DEF Follows
    <3> QED  BY <1>2, <2>2, <3>1, <3>2
  <2>3. CASE i \notin 1 .. n /\ j \notin 1 .. n
    <3>1. /\ i - n + d \in 1 .. m /\ u[i] = t[i - n + d]
          /\ j - n + d \in 1 .. m /\ u[j] = t[j - n + d]
      BY <1>2, <1>3, <2>3
    <3>2. i - n + d < j - n + d
      OBVIOUS
    <3>3. t[i - n + d].seq <= t[j - n + d].seq
      BY <3>1, <3>2 DEF Follows
    <3> QED  BY <3>1, <3>3
  <2>4. j \in 1 .. n => i \in 1 .. n
    OBVIOUS
  <2> QED  BY <2>1, <2>2, <2>3, <2>4
<1>6. ASSUME NEW i \in 1 .. n + m - d
      PROVE  \/ \E j \in 1 .. n : u[i].seq = file[j].seq
             \/ \E j \in 1 .. m : u[i].seq = t[j].seq
  BY <1>2, <1>3
<1>7. ASSUME u # <<>> PROVE u[1].type = "composition"
  <2>1. n + m - d > 0
    BY <1>2, <1>7, EmptySeq
  <2>2. CASE n > 0
    <3>1. file # <<>> /\ 1 \in 1 .. n
      BY <1>1, <2>2, Elements
    <3> QED  BY <1>2, <3>1 DEF CompositionFirst
  <2>3. CASE n = 0
    <3>1. d = 0 /\ m > 0
      BY <1>2, <2>1, <2>3
    <3>2. 1 \in n + 1 .. n + m - d /\ 1 - n + d = 1
      BY <2>3, <3>1
    <3>3. u[1] = t[1]
      BY <1>2, <3>2
    <3>4. file = <<>>
      BY <1>1, <2>3, Elements
    <3> QED  BY <3>1, <3>3, <3>4 DEF Follows
  <2> QED  BY <2>2, <2>3
<1>8. ASSUME NEW k \in 1 .. Len(acked)
      PROVE  /\ acked[k].place \in 1 .. durable
             /\ \/ u[acked[k].place] = Line(acked[k].seq, acked[k].type)
                \/ \E i \in 1 .. acked[k].place : ~Readable(u[i])
  <2>1. /\ acked[k].place \in 1 .. durable
        /\ \/ file[acked[k].place] = Line(acked[k].seq, acked[k].type)
           \/ \E i \in 1 .. acked[k].place : ~Readable(file[i])
    BY DEF Accounted
  <2>2. \A i \in 1 .. acked[k].place : i \in 1 .. n
    BY <1>4, <2>1
  <2>3. CASE file[acked[k].place] = Line(acked[k].seq, acked[k].type)
    <3>1. acked[k].place \in 1 .. n /\ acked[k].place \in 1 .. acked[k].place
      BY <1>4, <2>1
    <3>2. file[acked[k].place].form = "whole"
      BY <2>3 DEF Line
    <3> QED  BY <1>2, <2>1, <2>3, <3>1, <3>2
  <2>4. CASE \E i \in 1 .. acked[k].place : ~Readable(file[i])
    BY <1>2, <2>1, <2>2, <2>4
  <2> QED  BY <2>1, <2>3, <2>4
<1>9. ASSUME m > 0
      PROVE  u # <<>> /\ (u[n + m - d] = t[m] \/ ~Readable(u[n + m - d]))
  <2>1. n + m - d > 0
    BY <1>2, <1>9
  <2>2. u # <<>>
    BY <1>2, <2>1, EmptySeq
  <2>3. CASE d = 1 /\ m = 1
    BY <1>2, <2>2, <2>3
  <2>4. CASE d = 0 \/ m # 1
    <3>1. n + m - d \in Nat
      BY <2>1
    <3> PICK e \in Nat : e = n + m - d
      BY <3>1
    <3>2. e \in n + 1 .. n + m - d /\ e - n + d = m
      BY <1>9, <2>4
    <3>3. u[e] = t[m]
      BY <1>2, <3>2
    <3> QED  BY <2>2, <3>3
  <2> QED  BY <2>3, <2>4
<1> QED  BY <1>2, <1>4, <1>5, <1>6, <1>7, <1>8, <1>9 DEF Grown

----------------------------------------------------------------------------
(* Every step keeps TornInv.                                               *)

LEMMA TornInit == Init => TornInv
<1> SUFFICES ASSUME Init PROVE TornInv
  OBVIOUS
<1>1. TypeOK /\ Ascending /\ CompositionFirst /\ AckedBelow
  BY InitEstablishes DEF LedgerInv
<1>2. Len(buf) = 0 /\ Len(acked) = 0
  BY EmptySeq DEF Init
<1>3. Buffered /\ LastWritten /\ Accounted /\ NumbersAscend
  BY <1>2 DEF Init, Buffered, LastWritten, Accounted, NumbersAscend
<1> QED  BY <1>1, <1>3 DEF TornInv

\* A file that can be opened has every acknowledged event in it, so the handle
\* starts above all of them.
LEMMA TornOpen == TornInv /\ Open => TornInv'
<1> SUFFICES ASSUME TornInv, Open PROVE TornInv'
  OBVIOUS
<1> USE DEF TornInv
<1>1. /\ file # <<>> => seq' = file[Len(file)].seq + 1
      /\ file = <<>> => seq' = 0
  BY ResumeAfterLast DEF Open
<1>2. seq' \in Nat
  BY <1>1, Elements
<1>3. TypeOK'
  BY <1>2 DEF Open, TypeOK
<1>4. \A i \in 1 .. Len(file) : file[i].seq < seq'
  <2>1. \A i \in 1 .. Len(file) : file[i].seq \in Nat /\ file # <<>>
    BY Elements
  <2>2. file # <<>> => file[Len(file)].seq \in Nat
                       /\ \A i \in 1 .. Len(file) : file[i].seq <= file[Len(file)].seq
    BY LastIsHighest
  <2> QED  BY <1>1, <2>1, <2>2
<1>5. buf = <<>> /\ Len(buf) = 0
  BY Elements DEF Open, Buffered
<1>6. Ascending'
  BY <1>4, <1>5, <1>2, Elements DEF Open, Ascending
<1>7. AckedBelow'
  <2> SUFFICES ASSUME NEW k \in 1 .. Len(acked) PROVE acked[k].seq < seq'
    BY DEF Open, AckedBelow
  <2>1. /\ acked[k].place \in 1 .. durable
        /\ \/ file[acked[k].place] = Line(acked[k].seq, acked[k].type)
           \/ \E i \in 1 .. acked[k].place : ~Readable(file[i])
    BY DEF Accounted
  <2>2. \A i \in 1 .. acked[k].place : i \in 1 .. Len(file)
    BY <2>1, Elements DEF TypeOK
  <2>3. \A i \in 1 .. Len(file) : Readable(file[i])
    BY Elements DEF Open, Parses
  <2>4. file[acked[k].place] = Line(acked[k].seq, acked[k].type)
    BY <2>1, <2>2, <2>3
  <2>5. acked[k].place \in 1 .. Len(file) /\ file[acked[k].place].seq = acked[k].seq
    BY <2>1, <2>2, <2>4 DEF Line
  <2> QED  BY <1>4, <2>5
<1>8. Buffered' /\ LastWritten'
  BY <1>1, <1>5 DEF Open, Buffered, LastWritten
<1>9. Accounted' /\ NumbersAscend' /\ CompositionFirst'
  BY DEF Open, Accounted, NumbersAscend, CompositionFirst
<1> QED  BY <1>3, <1>6, <1>7, <1>8, <1>9

LEMMA TornFlush ==
  ASSUME TornInv, NEW type \in Types, Flush(type)
  PROVE  TornInv'
<1> DEFINE t == Append(buf, Line(seq, type))
<1>0. TypeOK /\ Ascending /\ CompositionFirst /\ Accounted /\ Buffered
  BY DEF TornInv
<1>1. /\ t \in Seq(Lines) /\ Len(t) = Len(buf) + 1
      /\ t[Len(buf) + 1] = Line(seq, type)
      /\ \A i \in 1 .. Len(t) : t[i].seq \in Nat /\ t[i].seq <= seq
      /\ \A i, j \in 1 .. Len(t) : i < j => t[i].seq <= t[j].seq
      /\ \A i \in 1 .. Len(file), j \in 1 .. Len(t) : file[i].seq <= t[j].seq
      /\ file = <<>> => t[1].type = "composition"
  BY <1>0, BufferedLine DEF Flush
<1>2. Len(t) > 0 /\ t[Len(t)] = Line(seq, type)
  BY <1>0, <1>1, Elements
<1>3. file' = Join(file, t)
  BY DEF Flush
<1> HIDE DEF t
<1>4. Grown(t, file')
  <2>1. Follows(t)
    BY <1>1 DEF Follows
  <2> QED  BY <1>0, <1>1, <1>3, <2>1, JoinGrows, Zenon
<1>5. /\ mode = "open" /\ mode' = "flushed" /\ buf' = <<>> /\ Len(buf') = 0
      /\ UNCHANGED <<durable, seq, acked, failed>>
  BY DEF Flush
<1>6. TypeOK'
  <2>1. <<>> \in Seq(Lines)
    OBVIOUS
  <2> QED  BY <1>0, <1>4, <1>5, <2>1 DEF TypeOK, Grown
<1>7. Ascending'
  <2>1. \A i \in 1 .. Len(file) : file[i].seq <= seq
    BY <1>0, <1>5 DEF Ascending
  <2>2. \A i \in 1 .. Len(file') : file'[i].seq <= seq
    BY <1>1, <1>4, <2>1 DEF Grown
  <2> QED  BY <1>4, <1>5, <2>2 DEF Ascending, Grown
<1>8. Buffered' /\ CompositionFirst' /\ Accounted'
  BY <1>4, <1>5 DEF Buffered, CompositionFirst, Accounted, Grown
<1>9. AckedBelow' /\ NumbersAscend'
  BY <1>5 DEF TornInv, AckedBelow, NumbersAscend
<1>10. LastWritten'
  <2>1. Line(seq, type).type = type
    BY DEF Line
  <2> QED  BY <1>2, <1>4, <1>5, <2>1 DEF LastWritten, Grown
<1> QED  BY <1>6, <1>7, <1>8, <1>9, <1>10 DEF TornInv

LEMMA TornFlushFails ==
  ASSUME TornInv, NEW type \in Types, FlushFails(type)
  PROVE  TornInv'
<1> DEFINE t == Append(buf, Line(seq, type))
<1>0. TypeOK /\ Ascending /\ CompositionFirst /\ Accounted /\ Buffered
  BY DEF TornInv
<1>1. /\ t \in Seq(Lines) /\ Len(t) = Len(buf) + 1
      /\ \A i \in 1 .. Len(t) : t[i].form = "whole" /\ t[i].seq \in Nat /\ t[i].seq <= seq
      /\ \A i, j \in 1 .. Len(t) : i < j => t[i].seq <= t[j].seq
      /\ \A i \in 1 .. Len(file), j \in 1 .. Len(t) : file[i].seq <= t[j].seq
      /\ file = <<>> => t[1].type = "composition"
  BY <1>0, BufferedLine DEF FlushFails
<1>2. /\ buf' = t /\ failed' = TRUE /\ mode = "open" /\ mode' = "open"
      /\ UNCHANGED <<file, durable, seq, acked>>
  BY DEF FlushFails
<1> HIDE DEF t
<1>3. t # <<>>
  BY <1>0, <1>1, Elements, EmptySeq
<1>4. TypeOK'
  <2>1. failed' \in BOOLEAN
    BY <1>2, Zenon
  <2> QED  BY <1>0, <1>1, <1>2, <2>1 DEF TypeOK
<1>5. Ascending' /\ Buffered' /\ CompositionFirst'
  <2>1. Ascending'
    BY <1>0, <1>1, <1>2 DEF Ascending
  <2>2. Buffered' /\ CompositionFirst'
    BY <1>0, <1>1, <1>2, <1>3 DEF Buffered, CompositionFirst
  <2> QED  BY <2>1, <2>2
<1>6. AckedBelow' /\ NumbersAscend' /\ LastWritten' /\ Accounted'
  BY <1>2 DEF TornInv, AckedBelow, NumbersAscend, LastWritten, Accounted
<1> QED  BY <1>4, <1>5, <1>6 DEF TornInv

LEMMA TornSync == TornInv /\ Sync => TornInv'
<1> SUFFICES ASSUME TornInv, Sync PROVE TornInv'
  OBVIOUS
<1> USE DEF TornInv
<1> DEFINE ack == [seq |-> seq, type |-> file[Len(file)].type, place |-> Len(file)]
<1>1. /\ mode = "flushed" /\ mode' = "open" /\ durable' = Len(file) /\ seq' = seq + 1
      /\ acked' = Append(acked, ack)
      /\ UNCHANGED <<file, buf, failed>>
  BY DEF Sync, Fsync
<1>2. Len(file) \in 1 .. Len(file) /\ file # <<>> /\ buf = <<>> /\ Len(buf) = 0
  BY <1>1, Elements DEF LastWritten
<1>3. ack \in Acks
  <2>1. file[Len(file)] \in Lines
    BY <1>2, ElementOfSeq DEF TypeOK
  <2>2. file[Len(file)].type \in Types /\ seq \in Nat /\ Len(file) \in Nat
    BY <2>1, Elements DEF Lines, TypeOK
  <2> QED  BY <2>2 DEF Acks
<1>4. /\ ack.seq = seq /\ ack.place = Len(file)
      /\ Line(ack.seq, ack.type) = Line(seq, file[Len(file)].type)
  OBVIOUS
<1> HIDE DEF ack
<1>5. /\ acked' \in Seq(Acks) /\ Len(acked') = Len(acked) + 1
      /\ \A k \in 1 .. Len(acked) : acked'[k] = acked[k]
      /\ acked'[Len(acked) + 1] = ack
  BY <1>1, <1>3, AppendProperties DEF TypeOK
<1>6. \A k \in 1 .. Len(acked') : k \in 1 .. Len(acked) \/ k = Len(acked) + 1
  BY <1>5, Elements
<1>7. TypeOK'
  BY <1>1, <1>2, <1>5 DEF TypeOK
<1>8. Ascending'
  BY <1>1, <1>2, Elements DEF Ascending, TypeOK
<1>9. AckedBelow'
  BY <1>1, <1>4, <1>5, <1>6, Elements DEF AckedBelow, TypeOK
<1>10. NumbersAscend'
  <2> SUFFICES ASSUME NEW k \in 1 .. Len(acked'), NEW l \in 1 .. Len(acked'), k < l
               PROVE  acked'[k].seq < acked'[l].seq
    BY DEF NumbersAscend
  <2>1. k \in 1 .. Len(acked) /\ acked'[k] = acked[k]
    BY <1>5, <1>6, Elements
  <2>2. CASE l \in 1 .. Len(acked)
    BY <1>5, <2>1, <2>2 DEF NumbersAscend
  <2>3. CASE l = Len(acked) + 1
    BY <1>1, <1>4, <1>5, <2>1, <2>3 DEF AckedBelow
  <2> QED  BY <1>6, <2>2, <2>3
<1>11. Accounted'
  <2> SUFFICES ASSUME NEW k \in 1 .. Len(acked')
               PROVE  /\ acked'[k].place \in 1 .. Len(file)
                      /\ \/ file[acked'[k].place] = Line(acked'[k].seq, acked'[k].type)
                         \/ \E i \in 1 .. acked'[k].place : ~Readable(file[i])
    BY <1>1 DEF Accounted
  <2>1. CASE k \in 1 .. Len(acked)
    <3>1. durable \in Nat /\ durable <= Len(file) /\ Len(file) \in Nat
      BY Elements DEF TypeOK
    <3> QED  BY <1>5, <2>1, <3>1 DEF Accounted
  <2>2. CASE k = Len(acked) + 1
    BY <1>1, <1>2, <1>4, <1>5, <2>2 DEF LastWritten
  <2> QED  BY <1>6, <2>1, <2>2
<1>12. Buffered' /\ LastWritten' /\ CompositionFirst'
  BY <1>1, <1>2 DEF Buffered, LastWritten, CompositionFirst
<1> QED  BY <1>7, <1>8, <1>9, <1>10, <1>11, <1>12

LEMMA TornSyncFails == TornInv /\ SyncFails => TornInv'
<1> SUFFICES ASSUME TornInv, SyncFails PROVE TornInv'
  OBVIOUS
<1> USE DEF TornInv
<1>1. /\ mode = "flushed" /\ mode' = "open" /\ failed' = TRUE
      /\ UNCHANGED <<file, durable, buf, seq, acked>>
  BY DEF SyncFails
<1>2. failed' \in BOOLEAN
  BY <1>1, Zenon
<1>3. file # <<>>
  BY <1>1 DEF LastWritten
<1>4. TypeOK'
  BY <1>1, <1>2 DEF TypeOK
<1>5. Ascending' /\ AckedBelow' /\ Accounted' /\ NumbersAscend' /\ CompositionFirst'
  BY <1>1 DEF Ascending, AckedBelow, Accounted, NumbersAscend, CompositionFirst
<1>6. Buffered' /\ LastWritten'
  BY <1>1, <1>3 DEF Buffered, LastWritten
<1> QED  BY <1>4, <1>5, <1>6

\* Closing and dying join lines to the file and let go of the handle.
LEMMA TornLetsGo ==
  ASSUME TornInv, NEW t, Grown(t, file'), mode' = "closed", buf' = <<>>,
         UNCHANGED <<durable, seq, acked, failed>>
  PROVE  TornInv'
<1> USE DEF TornInv
<1>1. <<>> \in Seq(Lines) /\ Len(buf') = 0
  OBVIOUS
<1>2. TypeOK'
  BY <1>1 DEF TypeOK, Grown
<1>3. Ascending' /\ CompositionFirst' /\ Accounted'
  <2>1. Ascending'
    BY <1>1 DEF Ascending, Grown
  <2>2. CompositionFirst' /\ Accounted'
    BY DEF CompositionFirst, Accounted, Grown
  <2> QED  BY <2>1, <2>2
<1>4. Buffered' /\ AckedBelow' /\ LastWritten' /\ NumbersAscend'
  BY <1>1 DEF Buffered, AckedBelow, LastWritten, NumbersAscend
<1> QED  BY <1>2, <1>3, <1>4

LEMMA TornClose == TornInv /\ Close => TornInv'
<1> SUFFICES ASSUME TornInv, Close PROVE TornInv'
  OBVIOUS
<1>1. TypeOK /\ Ascending /\ CompositionFirst /\ Accounted /\ buf \in Seq(Lines)
  BY DEF TornInv, TypeOK
<1>2. Follows(buf)
  <2>1. file = <<>> /\ Len(buf) > 0 => buf[1].type = "composition"
    BY <1>1, Elements DEF CompositionFirst
  <2> QED  BY <1>1, <2>1, Elements DEF Follows, Ascending
<1>3. Grown(buf, file')
  <2>1. file' = Join(file, buf)
    BY DEF Close
  <2> QED  BY <1>1, <1>2, <2>1, JoinGrows, Zenon
<1> QED  BY <1>3, TornLetsGo DEF Close

\* A part of a line has its number and its type.
LEMMA PieceOfLine ==
  ASSUME NEW l \in Lines, NEW piece \in Pieces(l)
  PROVE  /\ piece \in Seq(Lines) /\ Len(piece) \in {0, 1}
         /\ Len(piece) = 0 => piece = <<>>
         /\ Len(piece) = 1 => piece[1].seq = l.seq /\ piece[1].type = l.type
<1>1. CASE piece = <<>>
  BY <1>1
<1>2. CASE piece # <<>>
  <2>1. PICK f \in Torn : piece = <<[l EXCEPT !.form = f]>>
    BY <1>2 DEF Pieces
  <2>2. /\ [l EXCEPT !.form = f] \in Lines
        /\ [l EXCEPT !.form = f].seq = l.seq /\ [l EXCEPT !.form = f].type = l.type
    BY DEF Lines, Forms, Torn
  <2> DEFINE part == [l EXCEPT !.form = f]
  <2>3. piece = <<part>> /\ part \in Lines /\ part.seq = l.seq /\ part.type = l.type
    BY <2>1, <2>2
  <2> HIDE DEF part
  <2> QED  BY <2>3
<1> QED  BY <1>1, <1>2

LEMMA TornDeath == TornInv /\ Death => TornInv'
<1> SUFFICES ASSUME TornInv, Death PROVE TornInv'
  OBVIOUS
<1>1. TypeOK /\ Ascending /\ CompositionFirst /\ Accounted
  BY DEF TornInv
<1>2. PICK piece \in IF buf = <<>> THEN {<<>>} ELSE Pieces(buf[1]) :
        file' = Join(file, piece)
  BY DEF Death
<1>3. piece \in Seq(Lines) /\ Follows(piece)
  <2>1. CASE piece = <<>>
    BY <2>1 DEF Follows
  <2>2. CASE piece # <<>>
    <3>1. buf # <<>> /\ 1 \in 1 .. Len(buf) /\ piece \in Pieces(buf[1])
      BY <1>1, <1>2, <2>2, Elements
    <3>2. buf[1] \in Lines
      BY <1>1, <3>1, ElementOfSeq DEF TypeOK
    <3>3. /\ piece \in Seq(Lines) /\ Len(piece) = 1
          /\ piece[1].seq = buf[1].seq /\ piece[1].type = buf[1].type
      BY <2>2, <3>1, <3>2, PieceOfLine
    <3>4. \A i \in 1 .. Len(file) : file[i].seq <= buf[1].seq
      BY <1>1, <3>1 DEF Ascending
    <3>5. file = <<>> => buf[1].type = "composition"
      BY <1>1, <3>1 DEF CompositionFirst
    <3> QED  BY <3>3, <3>4, <3>5 DEF Follows
  <2> QED  BY <2>1, <2>2
<1>4. Grown(piece, file')
  BY <1>1, <1>2, <1>3, JoinGrows, Zenon
<1> QED  BY <1>4, TornLetsGo DEF Death

\* A file cut behind line n, where a part of line n + 1 may be left.
CutFrom(s, n, u) ==
  /\ u \in Seq(Lines) /\ Len(u) \in n .. Len(s)
  /\ \A i \in 1 .. n : u[i] = s[i]
  /\ \A i \in 1 .. Len(u) : u[i].seq = s[i].seq /\ u[i].type = s[i].type

LEMMA CutShape ==
  ASSUME NEW s \in Seq(Lines), NEW n \in Nat, n <= Len(s),
         NEW piece \in Seq(Lines), Len(piece) <= 1, n + Len(piece) <= Len(s),
         Len(piece) = 1 => piece[1].seq = s[n + 1].seq /\ piece[1].type = s[n + 1].type,
         NEW u, u = SubSeq(s, 1, n) \o piece
  PROVE  CutFrom(s, n, u)
<1>1. PICK kept \in Seq(Lines) :
        /\ kept = SubSeq(s, 1, n) /\ Len(kept) = n
        /\ \A i \in 1 .. n : kept[i] = s[i]
  <2> DEFINE sub == SubSeq(s, 1, n)
  <2>1. sub = SubSeq(s, 1, n)
    OBVIOUS
  <2>2. \A i \in 1 .. n : s[i] \in Lines
    BY ElementOfSeq
  <2>3. /\ sub \in Seq(Lines) /\ Len(sub) = n
        /\ \A i \in 1 .. n : sub[i] = s[i]
    BY <2>2, SubSeqProperties
  <2> HIDE DEF sub
  <2> QED  BY <2>1, <2>3
<1> PICK m \in Nat : m = Len(piece)
  OBVIOUS
<1>2. u = kept \o piece
  BY <1>1
<1>3. /\ u \in Seq(Lines) /\ Len(u) = n + m
      /\ \A i \in 1 .. n : u[i] = kept[i]
      /\ \A i \in n + 1 .. n + m : u[i] = piece[i - n]
  <2>1. /\ u \in Seq(Lines) /\ Len(u) = Len(kept) + Len(piece)
        /\ \A i \in 1 .. Len(kept) : u[i] = kept[i]
        /\ \A i \in Len(kept) + 1 .. Len(u) : u[i] = piece[i - Len(kept)]
    BY ONLY <1>2, kept \in Seq(Lines), piece \in Seq(Lines), ConcatElements
  <2> QED  BY <1>1, <2>1
<1>4. \A i \in 1 .. n + m : u[i].seq = s[i].seq /\ u[i].type = s[i].type
  <2> TAKE i \in 1 .. n + m
  <2>1. CASE i <= n
    <3>1. i \in 1 .. n
      BY <2>1
    <3> QED  BY <1>1, <1>3, <3>1
  <2>2. CASE ~(i <= n)
    <3>1. m <= 1
      OBVIOUS
    <3>2. i = n + 1 /\ i - n = 1 /\ i \in n + 1 .. n + m /\ m = 1
      BY <2>2, <3>1
    <3> QED  BY <1>3, <3>2
  <2> QED  BY <2>1, <2>2
<1>5. n + m \in n .. Len(s)
  OBVIOUS
<1> QED  BY <1>1, <1>3, <1>4, <1>5 DEF CutFrom

\* What a power loss leaves has the numbers and types of the lines that were
\* there, and at least the synced ones as they were.
LEMMA TornPowerLossCuts ==
  ASSUME TornInv, PowerLoss
  PROVE  \E n \in durable .. Len(file) : CutFrom(file, n, file')
<1>1. TypeOK /\ Len(file) \in Nat /\ durable \in Nat /\ file \in Seq(Lines)
  BY Elements DEF TornInv, TypeOK
<1>2. PICK n \in durable .. Len(file) :
        \E piece \in IF n = Len(file) THEN {<<>>} ELSE Pieces(file[n + 1]) :
          file' = SubSeq(file, 1, n) \o piece
  BY DEF PowerLoss
<1>3. n \in Nat /\ n <= Len(file)
  BY <1>1
<1>4. PICK piece :
        /\ file' = SubSeq(file, 1, n) \o piece
        /\ piece \in Seq(Lines) /\ Len(piece) <= 1 /\ n + Len(piece) <= Len(file)
        /\ Len(piece) = 1 => /\ piece[1].seq = file[n + 1].seq
                             /\ piece[1].type = file[n + 1].type
  <2>1. CASE n = Len(file)
    <3>1. file' = SubSeq(file, 1, n) \o <<>>
      BY <1>2, <2>1
    <3>2. /\ <<>> \in Seq(Lines) /\ Len(<<>>) = 0
          /\ n + 0 <= Len(file) /\ 0 <= 1 /\ 0 # 1
      BY <1>3
    <3> WITNESS <<>>
    <3> QED  BY <3>1, <3>2
  <2>2. CASE n # Len(file)
    <3>1. n + 1 \in 1 .. Len(file) /\ n + 0 <= Len(file) /\ n + 1 <= Len(file)
      BY <1>1, <1>3, <2>2
    <3>2. file[n + 1] \in Lines
      BY <1>1, <3>1, ElementOfSeq
    <3>3. PICK piece \in Pieces(file[n + 1]) : file' = SubSeq(file, 1, n) \o piece
      BY <1>2, <2>2
    <3>4. /\ piece \in Seq(Lines) /\ Len(piece) \in {0, 1}
          /\ Len(piece) = 1 => piece[1].seq = file[n + 1].seq /\ piece[1].type = file[n + 1].type
      BY <3>2, PieceOfLine
    <3>5. n + Len(piece) <= Len(file) /\ Len(piece) <= 1
      <4>1. CASE Len(piece) = 0
        BY <3>1, <4>1
      <4>2. CASE Len(piece) = 1
        BY <3>1, <4>2
      <4> QED  BY <3>4, <4>1, <4>2
    <3> QED  BY <3>3, <3>4, <3>5
  <2> QED  BY <2>1, <2>2
<1>5. CutFrom(file, n, file')
  BY <1>1, <1>3, <1>4, CutShape
<1> QED  BY <1>5

LEMMA TornPowerLoss == TornInv /\ PowerLoss => TornInv'
<1> SUFFICES ASSUME TornInv, PowerLoss PROVE TornInv'
  OBVIOUS
<1>1. /\ file' \in Seq(Lines) /\ durable' = Len(file')
      /\ Len(file') \in Nat /\ Len(file') <= Len(file) /\ durable <= Len(file')
      /\ \A i \in 1 .. Len(file') :
           file'[i].seq = file[i].seq /\ file'[i].type = file[i].type
      /\ \A i \in 1 .. durable : file'[i] = file[i]
  <2>1. PICK n \in durable .. Len(file) : CutFrom(file, n, file')
    BY TornPowerLossCuts
  <2>2. durable \in Nat /\ Len(file) \in Nat /\ durable <= n
    BY Elements DEF TornInv, TypeOK
  <2>3. durable' = Len(file')
    BY DEF PowerLoss
  <2> QED  BY <2>1, <2>2, <2>3 DEF CutFrom
<1> USE DEF TornInv
<1>2. /\ mode' = "closed" /\ buf' = <<>> /\ Len(buf') = 0
      /\ UNCHANGED <<seq, acked, failed>>
  BY DEF PowerLoss
<1>3. /\ Len(file') \in Nat /\ durable \in Nat /\ Len(file) \in Nat
      /\ \A i \in 1 .. Len(file') : i \in 1 .. Len(file)
  BY <1>1, Elements DEF TypeOK
<1>4. TypeOK'
  <2>1. <<>> \in Seq(Lines)
    OBVIOUS
  <2> QED  BY <1>1, <1>2, <1>3, <2>1 DEF TypeOK
<1>5. Ascending'
  BY <1>1, <1>2, <1>3 DEF Ascending
<1>6. CompositionFirst'
  <2>1. file' # <<>> => 1 \in 1 .. Len(file') /\ file # <<>>
    BY <1>1, <1>3, EmptySeq, Elements
  <2> QED  BY <1>1, <1>2, <2>1 DEF CompositionFirst
<1>7. Accounted'
  <2> SUFFICES ASSUME NEW k \in 1 .. Len(acked)
               PROVE  /\ acked[k].place \in 1 .. durable'
                      /\ \/ file'[acked[k].place] = Line(acked[k].seq, acked[k].type)
                         \/ \E i \in 1 .. acked[k].place : ~Readable(file'[i])
    BY <1>2 DEF Accounted
  <2>1. /\ acked[k].place \in 1 .. durable
        /\ \/ file[acked[k].place] = Line(acked[k].seq, acked[k].type)
           \/ \E i \in 1 .. acked[k].place : ~Readable(file[i])
    BY DEF Accounted
  <2>2. acked[k].place \in 1 .. durable' /\ \A i \in 1 .. acked[k].place : i \in 1 .. durable
    BY <1>1, <1>3, <2>1
  <2> QED  BY <1>1, <2>1, <2>2
<1>8. Buffered' /\ AckedBelow' /\ LastWritten' /\ NumbersAscend'
  BY <1>2 DEF Buffered, AckedBelow, LastWritten, NumbersAscend
<1> QED  BY <1>4, <1>5, <1>6, <1>7, <1>8

LEMMA TornNext == TornInv /\ [Next]_vars => TornInv'
<1> SUFFICES ASSUME TornInv, [Next]_vars PROVE TornInv'
  OBVIOUS
<1>1. CASE Open
  BY <1>1, TornOpen
<1>2. CASE \E type \in Types : Flush(type)
  BY <1>2, TornFlush
<1>3. CASE \E type \in Types : FlushFails(type)
  BY <1>3, TornFlushFails
<1>4. CASE Sync
  BY <1>4, TornSync
<1>5. CASE SyncFails
  BY <1>5, TornSyncFails
<1>6. CASE Close
  BY <1>6, TornClose
<1>7. CASE Death
  BY <1>7, TornDeath
<1>8. CASE PowerLoss
  BY <1>8, TornPowerLoss
<1>9. CASE UNCHANGED vars
  BY <1>9 DEF vars, TornInv, TypeOK, Ascending, Buffered, CompositionFirst,
              AckedBelow, LastWritten, Accounted, NumbersAscend
<1> QED  BY <1>1, <1>2, <1>3, <1>4, <1>5, <1>6, <1>7, <1>8, <1>9 DEF Next

----------------------------------------------------------------------------
(* The theorems.                                                           *)

\* The inductive invariant holds of every behaviour in which no line tears.
THEOREM LedgerInvariant == NoTorn => (Spec => []LedgerInv)
<1> SUFFICES ASSUME NoTorn PROVE Spec => []LedgerInv
  OBVIOUS
<1>1. LedgerInv /\ [Next]_vars => LedgerInv'
  BY NextKeeps
<1> QED  BY InitEstablishes, <1>1, PTL DEF Spec

\* The inductive invariant of every behaviour, torn lines and all.
THEOREM TornInvariant == Spec => []TornInv
<1>1. TornInv /\ [Next]_vars => TornInv'
  BY TornNext
<1> QED  BY TornInit, <1>1, PTL DEF Spec

\* The file, the handle and the history keep their types, whatever fails.
THEOREM LedgerTypeCorrect == Spec => []TypeOK
<1>1. TornInv => TypeOK
  BY DEF TornInv
<1> QED  BY <1>1, TornInvariant, PTL

\* An event whose append() returned survives every later failure of a system
\* call, death of the process and loss of power, at its place: write, flush
\* and fsync come before the return (append()).
THEOREM AcknowledgedSurvives == NoTorn => (Spec => []AckedSurvives)
<1>1. LedgerInv => AckedSurvives
  BY Elements DEF LedgerInv, Survives, AckedSurvives
<1> QED  BY <1>1, LedgerInvariant, PTL

\* The numbers append() returns are strictly ascending over the life of the
\* file, and so are the places, whatever failed in between (_resume()).
THEOREM AcknowledgedInOrder == NoTorn => (Spec => []AckedInOrder)
<1>1. LedgerInv => AckedInOrder
  BY Elements DEF LedgerInv, Ordered, AckedInOrder
<1> QED  BY <1>1, LedgerInvariant, PTL

\* As long as no append() raised, numbers are places: event n is line n + 1.
THEOREM NumbersArePlaces == NoTorn => (Spec => []SeqIsPlace)
<1>1. LedgerInv => SeqIsPlace
  BY Elements DEF LedgerInv, Counted, SeqIsPlace
<1> QED  BY <1>1, LedgerInvariant, PTL

\* Event 0 is the composition, also when the first append() failed half-way
\* and when what is left of it is a part of a line (append()).
THEOREM CompositionIsFirst == Spec => []CompositionFirst
<1>1. TornInv => CompositionFirst
  BY DEF TornInv
<1> QED  BY <1>1, TornInvariant, PTL

\* A loss is never silent: as long as a reader gets through the file, every
\* acknowledged event is in it, whole and at its place, also in a file whose
\* lines have torn and been merged (read_events()).
THEOREM LosesLoudly == Spec => [](Parses => AckedSurvives)
<1>1. ASSUME TornInv, Parses PROVE AckedSurvives
  <2> SUFFICES ASSUME NEW k \in DOMAIN acked
               PROVE  /\ acked[k].place \in 1 .. durable
                      /\ file[acked[k].place] = Line(acked[k].seq, acked[k].type)
    BY DEF AckedSurvives
  <2>1. TypeOK
    BY <1>1 DEF TornInv
  <2>2. /\ acked[k].place \in 1 .. durable
        /\ \/ file[acked[k].place] = Line(acked[k].seq, acked[k].type)
           \/ \E i \in 1 .. acked[k].place : ~Readable(file[i])
    BY <1>1, <2>1, Elements DEF TornInv, Accounted
  <2>3. \A i \in 1 .. acked[k].place : i \in DOMAIN file
    BY <2>1, <2>2, Elements DEF TypeOK
  <2> QED  BY <1>1, <2>2, <2>3 DEF Parses
<1>2. TornInv => (Parses => AckedSurvives)
  BY <1>1
<1> QED  BY <1>2, TornInvariant, PTL

\* No number is returned twice, whatever fails, stops or tears between two
\* appends: a handle is only ever opened on a file that is read in full, and
\* there it starts above all that was returned (_resume()).
THEOREM NumbersNeverReused == Spec => []NumbersAscend
<1>1. TornInv => NumbersAscend
  BY DEF TornInv
<1> QED  BY <1>1, TornInvariant, PTL

\* A file that is left behind can be read again, and the process continues on
\* it, after every failed call, death and loss of power: what Resumable asks
\* fails by a torn line or not at all (Ledger.__init__(), _resume()).
THEOREM ResumesUnlessTorn == NoTorn => (Spec => []Resumable)
<1>1. LedgerInv => Resumable
  BY Elements DEF LedgerInv, AllWhole, Resumable, Parses, Readable
<1> QED  BY <1>1, LedgerInvariant, PTL

----------------------------------------------------------------------------
(* What a step does to the synced lines.                                   *)

\* The lines that are synced before a step are there after it.
SyncedStay == durable' >= durable /\ \A i \in 1 .. durable : file'[i] = file[i]

\* That makes the synced part before the step a prefix of the one after it.
LEMMA PrefixOfSynced ==
  ASSUME TypeOK, TypeOK', SyncedStay
  PROVE  IsPrefixOf(Synced, Synced')
<1>1. /\ durable \in Nat /\ durable' \in Nat /\ durable <= durable'
      /\ durable <= Len(file) /\ durable' <= Len(file')
      /\ Len(file) \in Nat /\ Len(file)' \in Nat
  BY DEF TypeOK, SyncedStay
<1>2. /\ \A i \in 1 .. durable : file[i] \in Lines
      /\ \A i \in 1 .. durable' : file'[i] \in Lines
  <2>1. \A i \in 1 .. durable : i \in 1 .. Len(file)
    BY <1>1
  <2>2. \A i \in 1 .. durable' : i \in 1 .. Len(file')
    BY <1>1
  <2>3. \A i \in 1 .. Len(file) : file[i] \in Lines
    BY ElementOfSeq DEF TypeOK
  <2>4. \A i \in 1 .. Len(file') : file'[i] \in Lines
    BY ElementOfSeq DEF TypeOK
  <2> QED  BY <2>1, <2>2, <2>3, <2>4
<1>3. /\ Synced \in Seq(Lines) /\ Len(Synced) = durable
      /\ \A i \in 1 .. durable : Synced[i] = file[i]
  BY <1>1, <1>2, SubSeqProperties DEF Synced
<1>4. /\ Synced' \in Seq(Lines) /\ Len(Synced') = durable'
      /\ \A i \in 1 .. durable' : Synced'[i] = file'[i]
  <2>1. Synced' = SubSeq(file', 1, durable')
    BY DEF Synced
  <2>2. durable' \in Int /\ (1 <= durable' \/ durable' = 0)
    BY <1>1
  <2> DEFINE f == file'
             d == durable'
  <2>3. \A i \in 1 .. d : f[i] \in Lines
    BY <1>2
  <2> HIDE DEF f, d
  <2>4. /\ SubSeq(f, 1, d) \in Seq(Lines) /\ Len(SubSeq(f, 1, d)) = d
        /\ \A i \in 1 .. d : SubSeq(f, 1, d)[i] = f[i]
    <3>1. d \in Int /\ (1 <= d \/ d = 0)
      BY <2>2 DEF d
    <3> QED  BY <2>3, <3>1, SubSeqProperties
  <2> QED  BY <2>1, <2>4 DEF f, d
<1> DEFINE s == SubSeq(Synced', 1, durable)
<1>5. \A i \in 1 .. durable : i \in 1 .. durable' /\ Synced'[i] \in Lines
  BY <1>1, <1>2, <1>4
<1>6. /\ s \in Seq(Lines) /\ Len(s) = durable
      /\ \A i \in 1 .. durable : s[i] = Synced'[i]
  BY <1>1, <1>5, SubSeqProperties
<1> HIDE DEF s
<1>7. \A i \in 1 .. durable : Synced[i] = s[i]
  BY <1>3, <1>4, <1>5, <1>6 DEF SyncedStay
<1>8. Synced = s
  BY <1>3, <1>6, <1>7, SeqEqual
<1> QED  BY <1>1, <1>3, <1>4, <1>8 DEF IsPrefixOf, s

\* Lines that are added behind a whole file move nothing.
LEMMA JoinStays ==
  ASSUME LedgerInv, NEW t \in Seq(Lines), file' = Join(file, t)
  PROVE  \A i \in 1 .. durable : file'[i] = file[i]
<1>1. file \in Seq(Lines) /\ \A i \in 1 .. Len(file) : file[i].form = "whole"
  BY DEF LedgerInv, TypeOK, AllWhole
<1>2. \A i \in 1 .. Len(file) : file'[i] = file[i]
  BY <1>1, JoinWhole, ConcatElements
<1>3. \A i \in 1 .. durable : i \in 1 .. Len(file)
  BY Elements DEF LedgerInv, TypeOK
<1> QED  BY <1>2, <1>3

LEMMA StepsKeepSynced == NoTorn /\ LedgerInv /\ [Next]_vars => SyncedStay
<1> SUFFICES ASSUME NoTorn, LedgerInv, [Next]_vars PROVE SyncedStay
  OBVIOUS
<1>0. durable \in Nat /\ durable <= Len(file) /\ Len(file) \in Nat
      /\ <<>> \in Seq(Lines) /\ buf \in Seq(Lines)
  BY DEF LedgerInv, TypeOK
<1>1. CASE \E type \in Types : Flush(type)
  <2>1. PICK type \in Types : Flush(type)
    BY <1>1
  <2>2. Append(buf, Line(seq, type)) \in Seq(Lines)
    BY <2>1, BufferedLine, WholeBuffer DEF Flush
  <2>3. file' = Join(file, Append(buf, Line(seq, type))) /\ durable' = durable
    BY <2>1 DEF Flush
  <2>4. \A i \in 1 .. durable : file'[i] = file[i]
    BY <2>2, <2>3, JoinStays
  <2> QED  BY <1>0, <2>3, <2>4 DEF SyncedStay
<1>2. CASE Close
  BY <1>0, <1>2, JoinStays DEF Close, SyncedStay
<1>3. CASE Death
  <2>1. file' = Join(file, <<>>) /\ durable' = durable
    BY <1>3, NoPieces DEF Death
  <2>2. \A i \in 1 .. durable : file'[i] = file[i]
    BY <1>0, <2>1, JoinStays
  <2> QED  BY <1>0, <2>1, <2>2 DEF SyncedStay
<1>4. CASE PowerLoss
  <2>1. PICK n \in durable .. Len(file) :
          durable' = n /\ \A i \in 1 .. n : file'[i] = file[i]
    BY <1>4, PowerLossCuts
  <2> QED  BY <1>0, <2>1 DEF SyncedStay
<1>5. CASE Sync
  BY <1>0, <1>5 DEF Sync, Fsync, SyncedStay
<1>6. CASE UNCHANGED <<file, durable>>
  BY <1>0, <1>6 DEF SyncedStay
<1>7. Open \/ SyncFails \/ (\E type \in Types : FlushFails(type)) \/ UNCHANGED vars
        => UNCHANGED <<file, durable>>
  BY DEF Open, SyncFails, FlushFails, vars
<1> QED  BY <1>1, <1>2, <1>3, <1>4, <1>5, <1>6, <1>7 DEF Next

\* What is synced is never rewritten, shortened or reordered: every step
\* leaves the synced part a prefix of what is synced after it.
THEOREM DurableOnlyGrows == NoTorn => (Spec => DurableGrows)
<1> SUFFICES ASSUME NoTorn PROVE Spec => DurableGrows
  OBVIOUS
<1>1. LedgerInv /\ LedgerInv' /\ [Next]_vars => [IsPrefixOf(Synced, Synced')]_vars
  BY StepsKeepSynced, PrefixOfSynced DEF LedgerInv
<1> QED  BY <1>1, LedgerInvariant, PTL DEF Spec, DurableGrows
=============================================================================
