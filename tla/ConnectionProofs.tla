-------------------------- MODULE ConnectionProofs --------------------------
(***************************************************************************)
(* Proofs about a connection.  Connection, for any messages, of any        *)
(* lengths, and any size of the buffer: messages are whole until Close is  *)
(* called, and the Flush of Close neither changes their order nor repeats  *)
(* more than one.  Handshake, for any nodes, connections, versions and     *)
(* restarts, in the second part: a node keeps no peer of another version,  *)
(* and the two ends agree on whether they are connected once nothing is    *)
(* under way.                                                              *)
(***************************************************************************)
EXTENDS Connection, Handshake, FiniteSetTheorems, SequenceTheorems, TLAPS

WriterSteps == {"idle", "lock", "put", "add", "flush", "send", "reset", "unlock", "done"}
CloserSteps == {"idle", "flush", "send", "reset", "closeSocket", "done"}
Holding == {"put", "add", "flush", "send", "reset", "unlock"}

TypeInv ==
    /\ ConnTypeOK
    /\ DOMAIN stepOf = Goroutines
    /\ stepOf[Closer] \in CloserSteps
    /\ \A m \in Messages : stepOf[m] \in WriterSteps
    /\ closed <=> stepOf[Closer] # "idle"
    /\ ~closed => socket = "open"

\* A writer holds the mutex from WriteLock to WriteUnlock, and it is the last in
\* order, where no message comes twice.
MutexInv ==
    /\ \A m \in Messages : stepOf[m] \in Holding <=> writeMu = m
    /\ \A i, j \in 1 .. Len(order) : order[i] = order[j] => i = j
    /\ \A i \in 1 .. Len(order) : stepOf[order[i]] \notin {"idle", "lock"}
    /\ writeMu # Nothing => order # <<>> /\ order[Len(order)] = writeMu
    /\ \A m \in sent : stepOf[m] = "done"

\* The slice that a writer is in Write with: the length, or the rest of the payload.
IsRest(m) ==
    /\ Len(left[m]) <= SizeOf[m]
    /\ \A j \in 1 .. Len(left[m]) : left[m][j] = <<m, SizeOf[m] - Len(left[m]) + j>>

Slices(m) ==
    /\ stepOf[m] \in {"idle", "lock", "done"} => left[m] = <<>>
    /\ stepOf[m] \in {"put", "add"} => left[m] # <<>>
    /\ \/ left[m] = <<Length(m)>> /\ stepOf[m] \in {"put", "add", "unlock"}
       \/ IsRest(m)
    /\ stepOf[m] = "add" => k[m] >= 1 /\ k[m] <= Len(left[m])
    /\ stepOf[m] \in {"flush", "send", "reset"} => Len(left[m]) < SizeOf[m]

SliceInv == \A m \in Messages : Slices(m)

\* How far the buffer is filled while there was no error.
Filled(m) ==
    /\ stepOf[m] = "unlock" /\ ~err => n = 0
    /\ stepOf[m] = "put" /\ ~err => n < BufferSize
    /\ stepOf[m] = "put" /\ ~err /\ n # 0 => left[m] = Payload(m)
    /\ stepOf[m] = "add" /\ ~err /\ n # 0 => left[m] # <<Length(m)>>
    /\ stepOf[m] = "add" => n + k[m] <= BufferSize

CountInv ==
    /\ ~err => n >= 0
    /\ ~err /\ writeMu = Nothing => n = 0
    /\ \A m \in Messages : Filled(m)

\* What is in the buffer: a length only at its first place, where it is that of
\* the writer who holds the mutex.
Head1(m) == \A w \in Messages : buf[1] = Length(w) => w = m

Contents(m) ==
    /\ stepOf[m] = "add" =>
          /\ \A j \in 1 .. k[m] : buf[j] \in Parts
          /\ \A j \in 1 .. n + k[m] : buf[j] \in Parts
          /\ Head1(m)
          /\ left[m] = <<Length(m)>> => buf[1] = Length(m)
          /\ left[m] # <<Length(m)>> /\ left[m] # Payload(m) => buf[1] # Length(m)
    /\ stepOf[m] \in {"put", "flush", "reset"} /\ ~err /\ n > 0 => Head1(m)
    /\ stepOf[m] = "send" => Head1(m)

BufferInv ==
    /\ \A j \in 1 .. n : buf[j] \in Parts
    /\ \A j \in 2 .. BufferSize : \A m \in Messages : buf[j] # Length(m)
    /\ \A m \in Messages : Contents(m)
    /\ \A g \in Goroutines :
          stepOf[g] = "send" => k[g] >= 1 /\ \A j \in 1 .. k[g] : buf[j] \in Parts

-----------------------------------------------------------------------------
(* The order of messages, which the Flush of Close does not disturb.       *)

\* The writer of a had the mutex before that of b, or they are the same.
Le(a, b) == \E i, j \in 1 .. Len(order) : i <= j /\ order[i] = a /\ order[j] = b

\* What the reader has read comes no later than b.
ReadBefore(b) ==
    /\ \A i \in 1 .. Len(got) : Le(got[i], b)
    /\ frame # Nothing => Le(frame, b)

Sorted ==
    /\ \A i, j \in 1 .. Len(got) : i <= j => Le(got[i], got[j])
    /\ frame # Nothing => Le(frame, frame) /\ ReadBefore(frame)
    /\ \A x \in 1 .. Len(stream) : \A a \in Messages : stream[x] = Length(a) =>
          /\ Le(a, a) /\ ReadBefore(a)
          /\ \A y \in x .. Len(stream) : \A b \in Messages : stream[y] = Length(b) => Le(a, b)
    /\ \A b \in Messages : buf[1] = Length(b) =>
          /\ Le(b, b) /\ ReadBefore(b)
          /\ \A x \in 1 .. Len(stream) : \A a \in Messages : stream[x] = Length(a) => Le(a, b)

-----------------------------------------------------------------------------
(* Messages come once, but for one that the Flush of Close may repeat.     *)

\* The length of m is not in the socket, and may still be written to it.
Unsent(m) ==
    \/ stepOf[m] \in {"idle", "lock"}
    \/ left[m] = <<Length(m)>> /\ stepOf[m] \in {"put", "add"}
    \/ /\ buf[1] = Length(m)
       /\ \/ stepOf[m] \in {"put", "add"} /\ left[m] = Payload(m)
          \/ stepOf[m] = "flush" /\ n > 0
          \/ stepOf[m] = "send"

Absent(m) ==
    /\ \A i \in 1 .. Len(got) : got[i] # m
    /\ frame # m
    /\ \A x \in 1 .. Len(stream) : stream[x] # Length(m)

Once(m) ==
    /\ \A i, j \in 1 .. Len(got) : got[i] = m /\ got[j] = m => i = j
    /\ \A i \in 1 .. Len(got) : got[i] = m =>
          frame # m /\ \A x \in 1 .. Len(stream) : stream[x] # Length(m)
    /\ frame = m => \A x \in 1 .. Len(stream) : stream[x] # Length(m)
    /\ \A x, y \in 1 .. Len(stream) : stream[x] = Length(m) /\ stream[y] = Length(m) => x = y

Single(m) == Once(m) /\ (Unsent(m) => Absent(m))

RepeatInv ==
    /\ stepOf[Closer] \in {"idle", "flush", "send"} => \A m \in Messages : Single(m)
    /\ \E d \in Messages \cup {Nothing} : d \notin sent /\ \A m \in Messages \ {d} : Single(m)
    /\ stepOf[Closer] = "send" => \A w \in Messages : buf[1] = Length(w) => w \notin sent

-----------------------------------------------------------------------------
(* Until Close is called, messages are whole.                              *)

\* The parts of a message follow each other, and after its last one comes the
\* length of the next in order.
Runs ==
    \A x \in 1 .. Len(stream) : \A p \in 1 .. Len(order) : \A i \in 0 .. SizeOf[order[p]] :
        stream[x] = <<order[p], i>> =>
            /\ \A y \in x .. Len(stream) :
                  i + (y - x) <= SizeOf[order[p]] => stream[y] = <<order[p], i + (y - x)>>
            /\ x + (SizeOf[order[p]] - i) + 1 <= Len(stream) =>
                  /\ p + 1 <= Len(order)
                  /\ stream[x + (SizeOf[order[p]] - i) + 1] = <<order[p + 1], 0>>

Reads ==
    /\ ~lost
    /\ Len(got) <= Len(order)
    /\ \A i \in 1 .. Len(got) : got[i] = order[i]
    /\ frame # Nothing \/ stream # <<>> => Len(got) < Len(order)
    /\ frame # Nothing => frame = order[Len(got) + 1]
    /\ stream # <<>> => stream[1] = <<order[Len(got) + 1], IF frame = Nothing THEN 0 ELSE 1>>
    /\ \A x \in 1 .. Len(stream) : stepOf[stream[x][1]] \notin {"idle", "lock"}
    /\ Runs

\* The socket has taken every part before part b of the last message of order.
SentTo(b) ==
    LET p == Len(order)
    IN \/ /\ stream # <<>>
          /\ \/ b > 0 /\ stream[Len(stream)] = <<order[p], b - 1>>
             \/ /\ b = 0 /\ p > 1
                /\ stream[Len(stream)] = <<order[p - 1], SizeOf[order[p - 1]]>>
       \/ /\ stream = <<>> /\ frame # Nothing
          /\ b = 1 /\ p = Len(got) + 1
       \/ /\ stream = <<>> /\ frame = Nothing
          /\ \/ b = 0 /\ p = Len(got) + 1
             \/ p = Len(got) /\ b = SizeOf[order[p]] + 1

\* How many parts of m's payload have been copied; -1 if its length has not been.
Copied(m) == IF left[m] = <<Length(m)>> THEN -1 ELSE SizeOf[m] - Len(left[m])

\* The parts in the buffer are the next after those that the socket has taken.
Buffered(m) ==
    /\ stepOf[m] \in {"put", "add", "flush", "send"} =>
          /\ Copied(m) - n + 1 >= 0
          /\ SentTo(Copied(m) - n + 1)
          /\ \A j \in 1 .. n : buf[j] = <<m, Copied(m) - n + j>>
    /\ stepOf[m] = "add" => \A j \in 1 .. n + k[m] : buf[j] = <<m, Copied(m) - n + j>>
    /\ stepOf[m] = "send" => k[m] = n
    /\ stepOf[m] = "reset" => SentTo(Copied(m) + 1)
    /\ stepOf[m] = "unlock" => left[m] = <<>> /\ SentTo(SizeOf[m] + 1)

Writes ==
    /\ writeMu = Nothing /\ order # <<>> => SentTo(SizeOf[order[Len(order)]] + 1)
    /\ \A m \in Messages : writeMu = m => Buffered(m)

OpenInv ==
    ~closed => /\ Reads
               /\ ~err => Writes
               /\ err => \A m \in Messages : stepOf[m] # "send"

IInv == TypeInv /\ MutexInv /\ SliceInv /\ CountInv /\ BufferInv /\ Sorted /\ RepeatInv /\ OpenInv

-----------------------------------------------------------------------------
LEMMA ConstantFacts ==
    /\ SizeOf \in [Messages -> Nat \ {0}]
    /\ BufferSize \in Nat /\ BufferSize >= 2
    /\ Nothing \notin Messages /\ \A m \in Messages : Nothing # <<m, 0>>
    /\ Closer = Nothing
    /\ \A m \in Messages : SizeOf[m] \in Nat /\ SizeOf[m] >= 1
BY ConnectionAssumption DEF Closer

LEMMA PartFacts ==
    /\ \A m \in Messages : \A i \in 0 .. SizeOf[m] : <<m, i>> \in Parts
    /\ \A x \in Parts : \E m \in Messages : \E i \in 0 .. SizeOf[m] : x = <<m, i>>
BY DEF Parts

LEMMA PayloadFacts ==
    ASSUME NEW m \in Messages
    PROVE  /\ Length(m) \in Parts
           /\ <<Length(m)>> \in Seq(Parts) /\ Len(<<Length(m)>>) = 1
           /\ <<Length(m)>>[1] = Length(m)
           /\ Payload(m) \in Seq(Parts) /\ Len(Payload(m)) = SizeOf[m]
           /\ \A j \in 1 .. SizeOf[m] : Payload(m)[j] = <<m, j>>
           /\ Payload(m) # <<Length(m)>>
<1>1. SizeOf[m] \in Nat /\ SizeOf[m] >= 1
  BY ConstantFacts
<1>2. Length(m) \in Parts
  BY <1>1, PartFacts DEF Length
<1>3. /\ Payload(m) = [j \in 1 .. SizeOf[m] |-> <<m, j>>]
      /\ \A j \in 1 .. SizeOf[m] : <<m, j>> \in Parts
  BY <1>1, PartFacts DEF Payload
<1>4. Payload(m) \in Seq(Parts) /\ Len(Payload(m)) = SizeOf[m]
  BY <1>1, <1>3
<1>5. \A j \in 1 .. SizeOf[m] : Payload(m)[j] = <<m, j>>
  BY <1>3
<1>6. Payload(m) # <<Length(m)>>
  <2>1. Payload(m)[1] = <<m, 1>>
    BY <1>1, <1>5
  <2>2. <<Length(m)>>[1] = <<m, 0>>
    BY DEF Length
  <2> QED BY <2>1, <2>2
<1> QED BY <1>2, <1>4, <1>5, <1>6

\* A part that is copied is not a length but for the length.
LEMMA RestFacts ==
    ASSUME TypeInv, SliceInv, NEW m \in Messages
    PROVE  /\ left[m] \in Seq(Parts)
           /\ left[m] # <<Length(m)>> =>
                 /\ IsRest(m)
                 /\ \A j \in 1 .. Len(left[m]) : \A w \in Messages : left[m][j] # Length(w)
<1>1. left[m] \in Seq(Parts) /\ Slices(m)
  BY DEF TypeInv, ConnTypeOK, SliceInv
<1>2. SUFFICES ASSUME left[m] # <<Length(m)>>
               PROVE  /\ IsRest(m)
                      /\ \A j \in 1 .. Len(left[m]) : \A w \in Messages : left[m][j] # Length(w)
  BY <1>1
<1>3. IsRest(m)
  BY <1>1, <1>2 DEF Slices
<1>4. SizeOf[m] \in Nat /\ Len(left[m]) \in Nat
  BY <1>1, ConstantFacts
<1>5. ASSUME NEW j \in 1 .. Len(left[m]), NEW w \in Messages
      PROVE  left[m][j] # Length(w)
  BY <1>3, <1>4 DEF IsRest, Length
<1> QED BY <1>3, <1>5

-----------------------------------------------------------------------------
(* How the stream grows and shrinks.                                       *)

\* The first i parts of f have been added to the stream.
Grows(f, i) ==
    /\ stream' \in Seq(Parts)
    /\ i \in Nat
    /\ Len(stream') = Len(stream) + i
    /\ \A x \in 1 .. Len(stream) : stream'[x] = stream[x]
    /\ \A j \in 1 .. i : stream'[Len(stream) + j] = f[j]

LEMMA BufferIsSeq ==
    ASSUME TypeInv
    PROVE  buf \in Seq(Parts \cup {Nothing}) /\ Len(buf) = BufferSize
BY ConstantFacts DEF TypeInv, ConnTypeOK

LEMMA GrowsBy ==
    ASSUME stream \in Seq(Parts), NEW S, NEW f \in Seq(S), NEW i \in 0 .. Len(f),
           \A j \in 1 .. i : f[j] \in Parts,
           stream' = stream \o SubSeq(f, 1, i)
    PROVE  Grows(f, i)
<1>1. Len(f) \in Nat /\ Len(stream) \in Nat
  OBVIOUS
<1> DEFINE g == SubSeq(f, 1, i)
<1>2. g \in Seq(S) /\ Len(g) = i /\ \A j \in 1 .. i : g[j] = f[j]
  BY <1>1
<1>3. g \in Seq(Parts)
  BY <1>2
<1> HIDE DEF g
<1>4. stream' = stream \o g
  BY DEF g
<1> QED BY <1>1, <1>2, <1>3, <1>4 DEF Grows

LEMMA SendGrows ==
    ASSUME TypeInv, BufferInv, NEW g \in Goroutines, FlushSend(g)
    PROVE  \E i \in 0 .. k[g] :
              /\ Grows(buf, i)
              /\ (i = k[g] /\ err' = err /\ stepOf'[g] = "reset") \/ err'
<1>1. buf \in Seq(Parts \cup {Nothing}) /\ Len(buf) = BufferSize
  BY BufferIsSeq
<1>2. stream \in Seq(Parts) /\ k[g] \in 0 .. BufferSize /\ BufferSize \in Nat
  BY ConstantFacts DEF TypeInv, ConnTypeOK
<1>3. k[g] >= 1 /\ \A j \in 1 .. k[g] : buf[j] \in Parts
  BY DEF BufferInv, FlushSend
<1>4. ASSUME NEW i \in 0 .. k[g], stream' = stream \o SubSeq(buf, 1, i)
      PROVE  Grows(buf, i)
  <2>1. i \in 0 .. Len(buf) /\ \A j \in 1 .. i : buf[j] \in Parts
    BY <1>1, <1>2, <1>3
  <2> QED BY <1>1, <1>2, <1>4, <2>1, GrowsBy
<1>5. CASE /\ GoesOn(g, "send", "reset")
           /\ stream' = stream \o SubSeq(buf, 1, k[g])
           /\ UNCHANGED <<n, err>>
  <2>0. k[g] \in 0 .. k[g]
    BY <1>2
  <2>1. Grows(buf, k[g])
    <3>1. stream' = stream \o SubSeq(buf, 1, k[g])
      BY <1>5
    <3> QED BY ONLY <1>4, <2>0, <3>1
  <2>2. stepOf'[g] = "reset" /\ err' = err
    BY <1>5 DEF GoesOn, TypeInv
  <2> QED BY <2>0, <2>1, <2>2
<1>6. CASE /\ \E i \in 0 .. k[g] - 1 : stream' = stream \o SubSeq(buf, 1, i)
           /\ err' = TRUE
  <2>1. PICK i \in 0 .. k[g] - 1 : stream' = stream \o SubSeq(buf, 1, i)
    BY <1>6
  <2>2. i \in 0 .. k[g]
    BY <1>2
  <2>3. Grows(buf, i)
    BY <1>4, <2>1, <2>2
  <2> QED BY <1>6, <2>2, <2>3
<1> QED BY <1>5, <1>6 DEF FlushSend

LEMMA DirectGrows ==
    ASSUME TypeInv, NEW m \in Messages, WriteDirect(m)
    PROVE  \E i \in 0 .. Len(left[m]) :
              /\ Grows(left[m], i)
              /\ (i = Len(left[m]) /\ err' = err /\ left'[m] = <<>> /\ stepOf'[m] = "flush") \/ err'
<1>1. stream \in Seq(Parts) /\ left[m] \in Seq(Parts) /\ Len(left[m]) \in Nat /\ m \in DOMAIN left
  BY DEF TypeInv, ConnTypeOK
<1>4. ASSUME NEW i \in 0 .. Len(left[m]), stream' = stream \o SubSeq(left[m], 1, i)
      PROVE  Grows(left[m], i)
  <2>1. \A j \in 1 .. i : left[m][j] \in Parts
    BY <1>1
  <2> QED BY <1>1, <1>4, <2>1, GrowsBy
<1>5. CASE /\ GoesOn(m, "put", "flush")
           /\ stream' = stream \o left[m]
           /\ left' = [left EXCEPT ![m] = <<>>]
           /\ UNCHANGED err
  <2>1. left[m] = SubSeq(left[m], 1, Len(left[m]))
    BY <1>1
  <2>0. Len(left[m]) \in 0 .. Len(left[m])
    BY <1>1
  <2>2. Grows(left[m], Len(left[m]))
    <3>1. stream' = stream \o SubSeq(left[m], 1, Len(left[m]))
      BY <1>5, <2>1
    <3> QED BY ONLY <1>4, <2>0, <3>1
  <2>3. stepOf'[m] = "flush" /\ left'[m] = <<>> /\ err' = err
    BY <1>1, <1>5 DEF GoesOn, TypeInv, Goroutines
  <2> QED BY <2>0, <2>2, <2>3
<1>6. CASE /\ \E i \in 0 .. Len(left[m]) - 1 : stream' = stream \o SubSeq(left[m], 1, i)
           /\ err' = TRUE
  <2>1. PICK i \in 0 .. Len(left[m]) - 1 : stream' = stream \o SubSeq(left[m], 1, i)
    BY <1>6
  <2>2. i \in 0 .. Len(left[m])
    BY <1>1
  <2>3. Grows(left[m], i)
    BY <1>4, <2>1, <2>2
  <2> QED BY <1>6, <2>2, <2>3
<1> QED BY <1>5, <1>6 DEF WriteDirect

LEMMA SameGrows ==
    ASSUME stream \in Seq(Parts), stream' = stream, NEW f
    PROVE  Grows(f, 0)
BY DEF Grows

\* The reader takes the first part, or the first i.
LEMMA TailFacts ==
    ASSUME stream \in Seq(Parts), stream # <<>>
    PROVE  /\ Tail(stream) \in Seq(Parts)
           /\ Len(stream) >= 1 /\ Head(stream) = stream[1]
           /\ Len(Tail(stream)) = Len(stream) - 1
           /\ \A x \in 1 .. Len(stream) - 1 : Tail(stream)[x] = stream[x + 1]
<1>1. Len(stream) \in Nat /\ Len(stream) >= 1
  BY EmptySeq
<1>2. Tail(stream) = SubSeq(stream, 2, Len(stream))
  OBVIOUS
<1> QED BY <1>1, <1>2

LEMMA RemainderFacts ==
    ASSUME stream \in Seq(Parts), NEW i \in 0 .. Len(stream)
    PROVE  /\ SubSeq(stream, i + 1, Len(stream)) \in Seq(Parts)
           /\ Len(SubSeq(stream, i + 1, Len(stream))) = Len(stream) - i
           /\ \A x \in 1 .. Len(stream) - i : SubSeq(stream, i + 1, Len(stream))[x] = stream[x + i]
OBVIOUS

-----------------------------------------------------------------------------
(* Types.                                                                  *)

LEMMA GotoFacts ==
    ASSUME TypeInv, NEW g \in Goroutines, NEW s, NEW t, GoesOn(g, s, t)
    PROVE  /\ stepOf[g] = s /\ stepOf'[g] = t
           /\ \A h \in Goroutines : h # g => stepOf'[h] = stepOf[h]
           /\ DOMAIN stepOf' = Goroutines
BY DEF GoesOn, TypeInv

\* A step of one goroutine, for the program counters.
LEMMA PcStep ==
    ASSUME TypeInv, NEW g \in Goroutines, NEW t,
           stepOf' = [stepOf EXCEPT ![g] = t]
    PROVE  /\ stepOf'[g] = t
           /\ \A h \in Goroutines : h # g => stepOf'[h] = stepOf[h]
           /\ DOMAIN stepOf' = Goroutines
BY DEF TypeInv

LEMMA PcWriter ==
    ASSUME TypeInv, NEW m \in Messages, NEW t \in WriterSteps,
           stepOf' = [stepOf EXCEPT ![m] = t],
           closed' = closed, socket' = socket
    PROVE  /\ DOMAIN stepOf' = Goroutines
           /\ stepOf'[Closer] \in CloserSteps
           /\ \A w \in Messages : stepOf'[w] \in WriterSteps
           /\ closed' <=> stepOf'[Closer] # "idle"
           /\ ~closed' => socket' = "open"
<1>1. m # Closer /\ m \in Goroutines /\ Closer \in Goroutines /\ \A w \in Messages : w \in Goroutines
  BY ConstantFacts DEF Goroutines
<1>2. /\ stepOf'[m] = t
      /\ \A h \in Goroutines : h # m => stepOf'[h] = stepOf[h]
      /\ DOMAIN stepOf' = Goroutines
  BY <1>1, PcStep
<1> QED BY <1>1, <1>2 DEF TypeInv

LEMMA PcCloser ==
    ASSUME TypeInv, NEW t \in CloserSteps \ {"idle"},
           stepOf' = [stepOf EXCEPT ![Closer] = t],
           closed'
    PROVE  /\ DOMAIN stepOf' = Goroutines
           /\ stepOf'[Closer] \in CloserSteps
           /\ \A w \in Messages : stepOf'[w] \in WriterSteps
           /\ closed' <=> stepOf'[Closer] # "idle"
           /\ ~closed' => socket' = "open"
<1>1. Closer \notin Messages /\ Closer \in Goroutines /\ \A w \in Messages : w \in Goroutines
  BY ConstantFacts DEF Goroutines
<1>2. /\ stepOf'[Closer] = t
      /\ \A h \in Goroutines : h # Closer => stepOf'[h] = stepOf[h]
      /\ DOMAIN stepOf' = Goroutines
  BY <1>1, PcStep
<1>3. \A w \in Messages : stepOf'[w] = stepOf[w]
  BY <1>1, <1>2
<1> QED BY <1>2, <1>3 DEF TypeInv

LEMMA PcSame ==
    ASSUME TypeInv, stepOf' = stepOf, closed' = closed, socket' = socket
    PROVE  /\ DOMAIN stepOf' = Goroutines
           /\ stepOf'[Closer] \in CloserSteps
           /\ \A w \in Messages : stepOf'[w] \in WriterSteps
           /\ closed' <=> stepOf'[Closer] # "idle"
           /\ ~closed' => socket' = "open"
BY DEF TypeInv

LEMMA WriteCopyType ==
    ASSUME TypeInv, SliceInv, CountInv, NEW m \in Messages, WriteCopy(m)
    PROVE  ConnTypeOK'
<1> DEFINE c == Least(Len(left[m]), BufferSize - n)
<1>1. /\ left[m] \in Seq(Parts) /\ Len(left[m]) \in Nat
      /\ n \in Int /\ n <= BufferSize /\ BufferSize \in Nat
      /\ ~err /\ n >= 0
  BY ConstantFacts DEF TypeInv, ConnTypeOK, CountInv, WriteCopy, reader
<1>2. c \in 0 .. BufferSize /\ c <= Len(left[m]) /\ n + c <= BufferSize
  BY <1>1 DEF Least
<1>3. k' = [k EXCEPT ![m] = c]
      /\ buf' = [i \in 1 .. BufferSize |-> IF i \in n + 1 .. n + c THEN left[m][i - n] ELSE buf[i]]
  BY DEF WriteCopy
<1> HIDE DEF c
<1>4. k' \in [Goroutines -> 0 .. BufferSize]
  BY <1>2, <1>3 DEF TypeInv, ConnTypeOK
<1>5. buf' \in [1 .. BufferSize -> Parts \cup {Nothing}]
  <2>1. ASSUME NEW i \in 1 .. BufferSize
        PROVE  (IF i \in n + 1 .. n + c THEN left[m][i - n] ELSE buf[i]) \in Parts \cup {Nothing}
    <3>1. CASE i \in n + 1 .. n + c
      <4>1. i - n \in 1 .. Len(left[m])
        BY <1>1, <1>2, <3>1
      <4> QED BY <1>1, <3>1, <4>1
    <3>2. CASE i \notin n + 1 .. n + c
      BY <3>2 DEF TypeInv, ConnTypeOK
    <3> QED BY <3>1, <3>2
  <2> QED BY <1>3, <2>1, Zenon
<1> QED BY <1>4, <1>5 DEF TypeInv, ConnTypeOK, WriteCopy, reader

LEMMA WriteAddType ==
    ASSUME TypeInv, SliceInv, CountInv, NEW m \in Messages, WriteAdd(m)
    PROVE  ConnTypeOK'
<1>1. stepOf[m] = "add"
  BY DEF WriteAdd, GoesOn
<1>2. n + k[m] <= BufferSize
  BY <1>1 DEF CountInv, Filled
<1>3. n + k[m] \in Int
  BY ConstantFacts DEF TypeInv, ConnTypeOK, Goroutines
<1>4. Payload(m) \in Seq(Parts)
  BY PayloadFacts
<1>5. SubSeq(left[m], k[m] + 1, Len(left[m])) \in Seq(Parts)
  <2>1. left[m] \in Seq(Parts) /\ k[m] \in Nat /\ k[m] >= 1
    BY <1>1, ConstantFacts DEF TypeInv, ConnTypeOK, Goroutines, SliceInv, Slices
  <2> QED BY <2>1
<1>6. left' \in [Messages -> Seq(Parts)]
  BY <1>4, <1>5 DEF TypeInv, ConnTypeOK, WriteAdd, reader
<1>7. n' \in Int /\ n' <= BufferSize
  BY <1>2, <1>3 DEF WriteAdd
<1> QED BY <1>6, <1>7 DEF TypeInv, ConnTypeOK, WriteAdd, reader

LEMMA FlushSendType ==
    ASSUME TypeInv, BufferInv, NEW g \in Goroutines, FlushSend(g)
    PROVE  ConnTypeOK'
<1>1. PICK i \in 0 .. k[g] : Grows(buf, i)
  BY SendGrows
<1>2. stream' \in Seq(Parts)
  BY <1>1 DEF Grows
<1>3. n' \in Int /\ n' <= BufferSize
  BY ConstantFacts DEF TypeInv, ConnTypeOK, FlushSend, reader
<1>4. err' \in BOOLEAN
  BY DEF TypeInv, ConnTypeOK, FlushSend, reader
<1> QED BY <1>2, <1>3, <1>4 DEF TypeInv, ConnTypeOK, FlushSend, reader

LEMMA ReadPayloadType ==
    ASSUME TypeInv, ReadPayload
    PROVE  ConnTypeOK'
<1>1. frame \in Messages /\ SizeOf[frame] \in Nat /\ stream \in Seq(Parts) /\ Len(stream) >= SizeOf[frame]
  BY ConstantFacts DEF TypeInv, ConnTypeOK, ReadPayload, CanRead
<1>2. stream' \in Seq(Parts)
  <2>1. stream' = SubSeq(stream, SizeOf[frame] + 1, Len(stream))
    BY DEF ReadPayload
  <2> QED BY <1>1, <2>1
<1>3. got' \in Seq(Messages)
  BY <1>1 DEF TypeInv, ConnTypeOK, ReadPayload, reader
<1> QED BY <1>2, <1>3 DEF TypeInv, ConnTypeOK, ReadPayload, reader

LEMMA ReadLengthType ==
    ASSUME TypeInv, ReadLength
    PROVE  ConnTypeOK'
<1>1. stream' \in Seq(Parts)
  <2>1. stream \in Seq(Parts) /\ stream # <<>> /\ stream' = Tail(stream)
    BY DEF TypeInv, ConnTypeOK, ReadLength
  <2> QED BY <2>1, TailFacts
<1>2. frame' \in Messages \cup {Nothing} /\ lost' \in BOOLEAN
  <2>1. frame \in Messages \cup {Nothing} /\ lost \in BOOLEAN
    BY DEF TypeInv, ConnTypeOK
  <2>2. CASE \E m \in Messages : Head(stream) = Length(m) /\ frame' = m /\ UNCHANGED lost
    BY <2>1, <2>2
  <2>3. CASE lost' = TRUE /\ UNCHANGED frame
    BY <2>1, <2>3
  <2> QED BY <2>2, <2>3 DEF ReadLength
<1> QED BY <1>1, <1>2 DEF TypeInv, ConnTypeOK, ReadLength, reader

\* Where AfterFlush goes.
LEMMA AfterFlushFacts ==
    ASSUME NEW g \in Goroutines
    PROVE  /\ g \in Messages => AfterFlush(g) = IF left[g] # <<>> THEN "put" ELSE "unlock"
           /\ g = Closer => AfterFlush(g) = "closeSocket"
BY ConstantFacts DEF AfterFlush

LEMMA FlushPc ==
    ASSUME TypeInv, NEW g \in Goroutines, Flush(g)
    PROVE  /\ DOMAIN stepOf' = Goroutines
           /\ stepOf'[Closer] \in CloserSteps
           /\ \A w \in Messages : stepOf'[w] \in WriterSteps
           /\ closed' <=> stepOf'[Closer] # "idle"
           /\ ~closed' => socket' = "open"
<1>1. /\ closed' = closed /\ socket' = socket
      /\ stepOf[g] \in {"flush", "send", "reset"}
      /\ \E t \in {"send", "reset", AfterFlush(g)} : stepOf' = [stepOf EXCEPT ![g] = t]
  BY DEF Flush, FlushBegin, FlushSend, FlushReset, GoesOn
<1>2. PICK t \in {"send", "reset", AfterFlush(g)} : stepOf' = [stepOf EXCEPT ![g] = t]
  BY <1>1
<1>3. CASE g \in Messages
  <2>1. t \in WriterSteps
    BY <1>3, AfterFlushFacts DEF WriterSteps
  <2> QED BY <1>1, <1>2, <1>3, <2>1, PcWriter
<1>4. CASE g = Closer
  <2>1. t \in CloserSteps \ {"idle"}
    BY <1>4, AfterFlushFacts DEF CloserSteps
  <2>2. closed'
    BY <1>1, <1>4 DEF TypeInv
  <2> QED BY <1>2, <1>4, <2>1, <2>2, PcCloser
<1> QED BY <1>3, <1>4 DEF Goroutines, Closer

LEMMA WritePc ==
    ASSUME TypeInv, NEW m \in Messages, WriteMessage(m)
    PROVE  /\ DOMAIN stepOf' = Goroutines
           /\ stepOf'[Closer] \in CloserSteps
           /\ \A w \in Messages : stepOf'[w] \in WriterSteps
           /\ closed' <=> stepOf'[Closer] # "idle"
           /\ ~closed' => socket' = "open"
<1>1. /\ closed' = closed /\ socket' = socket
      /\ \E t \in WriterSteps : stepOf' = [stepOf EXCEPT ![m] = t]
  BY DEF WriteMessage, WriteBegin, WriteLock, WriteCopy, WriteDirect, WriteError, WriteAdd,
         WriteUnlock, GoesOn, WriterSteps
<1> QED BY <1>1, PcWriter

LEMMA TypeStep ==
    ASSUME TypeInv, SliceInv, CountInv, BufferInv, [ConnNext]_connVars
    PROVE  TypeInv'
<1>1. ASSUME NEW m \in Messages, WriteMessage(m)
      PROVE  ConnTypeOK'
  <2>1. CASE WriteBegin(m)
    BY <2>1 DEF TypeInv, ConnTypeOK, WriteBegin, reader
  <2>2. CASE WriteLock(m)
    <3>1. left' \in [Messages -> Seq(Parts)]
      BY <2>2, PayloadFacts DEF TypeInv, ConnTypeOK, WriteLock, reader
    <3> QED BY <2>2, <3>1 DEF TypeInv, ConnTypeOK, WriteLock, reader
  <2>3. CASE WriteCopy(m)
    BY <2>3, WriteCopyType
  <2>4. CASE WriteDirect(m)
    <3>1. PICK i \in 0 .. Len(left[m]) : Grows(left[m], i)
      BY <2>4, DirectGrows
    <3>2. stream' \in Seq(Parts)
      BY <3>1 DEF Grows
    <3>3. left' \in [Messages -> Seq(Parts)]
      <4>1. left' = left \/ left' = [left EXCEPT ![m] = <<>>]
        BY <2>4 DEF WriteDirect
      <4>2. <<>> \in Seq(Parts) /\ left \in [Messages -> Seq(Parts)]
        BY DEF TypeInv, ConnTypeOK
      <4> QED BY <4>1, <4>2
    <3>4. err' \in BOOLEAN
      BY <2>4 DEF TypeInv, ConnTypeOK, WriteDirect, reader
    <3> QED BY <2>4, <3>2, <3>3, <3>4 DEF TypeInv, ConnTypeOK, WriteDirect, reader
  <2>5. CASE WriteError(m)
    BY <2>5 DEF TypeInv, ConnTypeOK, WriteError, reader
  <2>6. CASE WriteAdd(m)
    BY <2>6, WriteAddType
  <2>7. CASE WriteUnlock(m)
    <3>1. left' \in [Messages -> Seq(Parts)]
      <4>1. left' = [left EXCEPT ![m] = <<>>]
        BY <2>7 DEF WriteUnlock
      <4>2. <<>> \in Seq(Parts) /\ left \in [Messages -> Seq(Parts)]
        BY DEF TypeInv, ConnTypeOK
      <4> QED BY <4>1, <4>2
    <3>2. k' \in [Goroutines -> 0 .. BufferSize]
      <4>1. k' = [k EXCEPT ![m] = 0]
        BY <2>7 DEF WriteUnlock
      <4>2. 0 \in 0 .. BufferSize /\ k \in [Goroutines -> 0 .. BufferSize]
        BY ConstantFacts DEF TypeInv, ConnTypeOK
      <4> QED BY <4>1, <4>2
    <3> QED BY <2>7, <3>1, <3>2 DEF TypeInv, ConnTypeOK, WriteUnlock, reader
  <2> QED BY <1>1, <2>1, <2>2, <2>3, <2>4, <2>5, <2>6, <2>7 DEF WriteMessage
<1>2. ASSUME NEW g \in Goroutines, Flush(g)
      PROVE  ConnTypeOK'
  <2>1. CASE FlushBegin(g)
    <3>1. k' \in [Goroutines -> 0 .. BufferSize]
      <4>1. k \in [Goroutines -> 0 .. BufferSize] /\ n \in Int /\ n <= BufferSize
        BY DEF TypeInv, ConnTypeOK
      <4>2. CASE k' = k
        BY <4>1, <4>2
      <4>3. CASE n > 0 /\ k' = [k EXCEPT ![g] = n]
        <5>1. n \in 0 .. BufferSize
          BY <4>1, <4>3, ConstantFacts
        <5> QED BY <4>1, <4>3, <5>1
      <4> QED BY <2>1, <4>2, <4>3 DEF FlushBegin
    <3> QED BY <2>1, <3>1 DEF TypeInv, ConnTypeOK, FlushBegin, reader
  <2>2. CASE FlushSend(g)
    BY <2>2, FlushSendType
  <2>3. CASE FlushReset(g)
    BY <2>3, ConstantFacts DEF TypeInv, ConnTypeOK, FlushReset, reader
  <2> QED BY <1>2, <2>1, <2>2, <2>3 DEF Flush
<1>3. CASE CloseBegin \/ CloseSocket
  <2>1. ConnTypeOK'
    BY <1>3 DEF TypeInv, ConnTypeOK, CloseBegin, CloseSocket, reader
  <2>2. closed' /\ \E t \in CloserSteps \ {"idle"} : stepOf' = [stepOf EXCEPT ![Closer] = t]
    BY <1>3 DEF CloseBegin, CloseSocket, GoesOn, CloserSteps, TypeInv
  <2>3. PICK t \in CloserSteps \ {"idle"} : stepOf' = [stepOf EXCEPT ![Closer] = t]
    BY <2>2
  <2> QED BY <2>1, <2>2, <2>3, PcCloser DEF TypeInv
<1>4. CASE ReadMessage
  <2>1. ConnTypeOK'
    BY <1>4, ReadLengthType, ReadPayloadType DEF ReadMessage
  <2>2. stepOf' = stepOf /\ closed' = closed /\ socket' = socket
    BY <1>4 DEF ReadMessage, ReadLength, ReadPayload
  <2> QED BY <2>1, <2>2, PcSame DEF TypeInv
<1>5. CASE UNCHANGED connVars
  BY <1>5 DEF connVars, reader, TypeInv, ConnTypeOK
<1>6. ASSUME NEW m \in Messages, WriteMessage(m)
      PROVE  TypeInv'
  BY <1>1, <1>6, WritePc DEF TypeInv
<1>7. ASSUME NEW g \in Goroutines, Flush(g)
      PROVE  TypeInv'
  BY <1>2, <1>7, FlushPc DEF TypeInv
<1> QED BY <1>3, <1>4, <1>5, <1>6, <1>7 DEF ConnNext


-----------------------------------------------------------------------------
(* Who moves, and the mutex.                                               *)

LEMMA WriterMoves ==
    ASSUME TypeInv, NEW m \in Messages, NEW t, stepOf' = [stepOf EXCEPT ![m] = t]
    PROVE  /\ stepOf'[m] = t
           /\ \A w \in Messages : w # m => stepOf'[w] = stepOf[w]
           /\ stepOf'[Closer] = stepOf[Closer]
<1>1. m # Closer /\ m \in Goroutines /\ Closer \in Goroutines /\ \A w \in Messages : w \in Goroutines
  BY ConstantFacts DEF Goroutines
<1> QED BY <1>1, PcStep

LEMMA CloserMoves ==
    ASSUME TypeInv, NEW t, stepOf' = [stepOf EXCEPT ![Closer] = t]
    PROVE  /\ stepOf'[Closer] = t
           /\ \A w \in Messages : stepOf'[w] = stepOf[w]
<1>1. Closer \notin Messages /\ Closer \in Goroutines /\ \A w \in Messages : w \in Goroutines
  BY ConstantFacts DEF Goroutines
<1>2. \A w \in Messages : w # Closer
  BY <1>1
<1> QED BY <1>1, <1>2, PcStep

\* A step of Flush.
FlushMoves(g) ==
    /\ stepOf[g] \in {"flush", "send", "reset"}
    /\ g \in Messages => /\ stepOf'[g] = "put" => left[g] # <<>>
                         /\ stepOf'[g] = "unlock" => left[g] = <<>>
                         /\ stepOf'[g] \in {"put", "send", "reset", "unlock"}
    /\ g = Closer => stepOf'[g] \in {"closeSocket", "send", "reset"}
    /\ \A w \in Messages : w # g => stepOf'[w] = stepOf[w]
    /\ g # Closer => stepOf'[Closer] = stepOf[Closer]

LEMMA FlushMovesFact ==
    ASSUME TypeInv, NEW g \in Goroutines, Flush(g)
    PROVE  FlushMoves(g)
<1>1. /\ stepOf[g] \in {"flush", "send", "reset"}
      /\ \E t \in {"send", "reset", AfterFlush(g)} : stepOf' = [stepOf EXCEPT ![g] = t]
  BY DEF Flush, FlushBegin, FlushSend, FlushReset, GoesOn
<1>2. PICK t \in {"send", "reset", AfterFlush(g)} : stepOf' = [stepOf EXCEPT ![g] = t]
  BY <1>1
<1>3. CASE g \in Messages
  <2>1. stepOf'[g] = t /\ \A w \in Messages : w # g => stepOf'[w] = stepOf[w]
    BY <1>2, <1>3, WriterMoves
  <2>2. stepOf'[Closer] = stepOf[Closer] /\ g # Closer
    BY <1>2, <1>3, WriterMoves, ConstantFacts
  <2> QED BY <1>1, <1>2, <1>3, <2>1, <2>2, AfterFlushFacts DEF FlushMoves
<1>4. CASE g = Closer
  <2>1. stepOf'[Closer] = t /\ \A w \in Messages : stepOf'[w] = stepOf[w]
    BY <1>2, <1>4, CloserMoves
  <2> QED BY <1>1, <1>2, <1>4, <2>1, AfterFlushFacts, ConstantFacts DEF FlushMoves
<1> QED BY <1>3, <1>4 DEF Goroutines, Closer

\* Only one writer is in its critical section.
LEMMA OneHolder ==
    ASSUME MutexInv, NEW m \in Messages, NEW w \in Messages, stepOf[m] \in Holding, stepOf[w] \in Holding
    PROVE  m = w
BY DEF MutexInv

LEMMA MutexSame ==
    ASSUME TypeInv, MutexInv, UNCHANGED <<writeMu, order, sent>>,
           \A w \in Messages : stepOf'[w] = stepOf[w] \/ (stepOf[w] \in Holding /\ stepOf'[w] \in Holding)
    PROVE  MutexInv'
<1>1. \A i \in 1 .. Len(order) : order[i] \in Messages
  BY DEF TypeInv, ConnTypeOK
<1>2. \A m \in sent : m \in Messages
  BY DEF TypeInv, ConnTypeOK
<1>3. \A m \in Messages : stepOf'[m] \in Holding <=> writeMu' = m
  BY DEF MutexInv
<1>4. \A i \in 1 .. Len(order) : stepOf'[order[i]] \notin {"idle", "lock"}
  BY <1>1 DEF MutexInv, Holding
<1>5. \A m \in sent : stepOf'[m] = "done"
  BY <1>2 DEF MutexInv, Holding
<1> QED BY <1>3, <1>4, <1>5 DEF MutexInv

LEMMA WriteLockMutex ==
    ASSUME TypeInv, MutexInv, NEW m \in Messages, WriteLock(m)
    PROVE  MutexInv'
<1>1. /\ order \in Seq(Messages) /\ Len(order) \in Nat
      /\ \A i \in 1 .. Len(order) : order[i] \in Messages
      /\ sent \subseteq Messages
  BY DEF TypeInv, ConnTypeOK
<1>2. /\ stepOf[m] = "lock" /\ writeMu = Nothing /\ writeMu' = m
      /\ order' = Append(order, m) /\ sent' = sent
  BY DEF WriteLock, GoesOn
<1>3. stepOf'[m] = "put" /\ \A w \in Messages : w # m => stepOf'[w] = stepOf[w]
  BY WriterMoves DEF WriteLock, GoesOn
<1>4. /\ Len(order') = Len(order) + 1 /\ order'[Len(order) + 1] = m
      /\ \A i \in 1 .. Len(order) : order'[i] = order[i] /\ order[i] # m
  BY <1>1, <1>2 DEF MutexInv
<1>5. \A w \in Messages : stepOf'[w] \in Holding <=> writeMu' = w
  BY <1>2, <1>3, ConstantFacts DEF MutexInv, Holding
<1>6. \A i, j \in 1 .. Len(order') : order'[i] = order'[j] => i = j
  BY <1>1, <1>4 DEF MutexInv
<1>7. \A i \in 1 .. Len(order') : stepOf'[order'[i]] \notin {"idle", "lock"}
  BY <1>1, <1>3, <1>4 DEF MutexInv
<1>8. order' # <<>> /\ order'[Len(order')] = writeMu'
  BY <1>1, <1>2, <1>4
<1>9. \A w \in sent' : stepOf'[w] = "done"
  BY <1>1, <1>2, <1>3 DEF MutexInv
<1> QED BY <1>5, <1>6, <1>7, <1>8, <1>9 DEF MutexInv

LEMMA WriteUnlockMutex ==
    ASSUME TypeInv, MutexInv, NEW m \in Messages, WriteUnlock(m)
    PROVE  MutexInv'
<1>1. /\ \A i \in 1 .. Len(order) : order[i] \in Messages
      /\ sent \subseteq Messages
  BY DEF TypeInv, ConnTypeOK
<1>2. /\ stepOf[m] = "unlock" /\ writeMu' = Nothing /\ order' = order /\ sent' \subseteq sent \cup {m}
  BY DEF WriteUnlock, GoesOn
<1>3. stepOf'[m] = "done" /\ \A w \in Messages : w # m => stepOf'[w] = stepOf[w]
  BY WriterMoves DEF WriteUnlock, GoesOn
<1>4. \A w \in Messages : stepOf'[w] \in Holding <=> writeMu' = w
  BY <1>2, <1>3, ConstantFacts DEF MutexInv, Holding
<1>5. \A i \in 1 .. Len(order) : stepOf'[order[i]] \notin {"idle", "lock"}
  BY <1>1, <1>3 DEF MutexInv
<1>6. \A w \in sent' : stepOf'[w] = "done"
  BY <1>1, <1>2, <1>3 DEF MutexInv
<1> QED BY <1>2, <1>4, <1>5, <1>6 DEF MutexInv

LEMMA MutexStep ==
    ASSUME TypeInv, MutexInv, [ConnNext]_connVars
    PROVE  MutexInv'
<1>1. ASSUME NEW m \in Messages, WriteMessage(m)
      PROVE  MutexInv'
  <2>1. CASE WriteBegin(m)
    <3>1. /\ stepOf[m] = "idle" /\ UNCHANGED <<writeMu, order, sent>>
          /\ \E t \in {"done", "lock"} : stepOf' = [stepOf EXCEPT ![m] = t]
      BY <2>1 DEF WriteBegin, GoesOn
    <3>2. stepOf'[m] \in {"done", "lock"} /\ \A w \in Messages : w # m => stepOf'[w] = stepOf[w]
      BY <3>1, WriterMoves
    <3>3. /\ \A i \in 1 .. Len(order) : order[i] \in Messages /\ order[i] # m
          /\ m \notin sent /\ sent \subseteq Messages
      BY <3>1 DEF TypeInv, ConnTypeOK, MutexInv
    <3>4. \A w \in Messages : stepOf'[w] \in Holding <=> writeMu' = w
      BY <3>1, <3>2 DEF MutexInv, Holding
    <3> QED BY <3>1, <3>2, <3>3, <3>4 DEF MutexInv
  <2>2. CASE WriteLock(m)
    BY <2>2, WriteLockMutex
  <2>3. CASE WriteUnlock(m)
    BY <2>3, WriteUnlockMutex
  <2>4. CASE WriteCopy(m) \/ WriteDirect(m) \/ WriteError(m) \/ WriteAdd(m)
    <3>1. /\ stepOf[m] \in {"put", "add"} /\ UNCHANGED <<writeMu, order, sent>>
          /\ \E t \in {"put", "add", "flush", "unlock"} : stepOf' = [stepOf EXCEPT ![m] = t]
      BY <2>4 DEF WriteCopy, WriteDirect, WriteError, WriteAdd, GoesOn
    <3>2. stepOf'[m] \in {"put", "add", "flush", "unlock"} /\ \A w \in Messages : w # m => stepOf'[w] = stepOf[w]
      BY <3>1, WriterMoves
    <3> QED BY <3>1, <3>2, MutexSame DEF Holding
  <2> QED BY <1>1, <2>1, <2>2, <2>3, <2>4 DEF WriteMessage
<1>2. ASSUME NEW g \in Goroutines, Flush(g)
      PROVE  MutexInv'
  <2>1. UNCHANGED <<writeMu, order, sent>>
    BY <1>2 DEF Flush, FlushBegin, FlushSend, FlushReset
  <2>2. FlushMoves(g)
    BY <1>2, FlushMovesFact
  <2> QED BY <2>1, <2>2, MutexSame DEF FlushMoves, Holding
<1>3. CASE CloseBegin \/ CloseSocket
  <2>1. /\ UNCHANGED <<writeMu, order, sent>>
        /\ \E t \in CloserSteps : stepOf' = [stepOf EXCEPT ![Closer] = t]
    BY <1>3 DEF CloseBegin, CloseSocket, GoesOn, CloserSteps
  <2>2. \A w \in Messages : stepOf'[w] = stepOf[w]
    BY <2>1, CloserMoves
  <2> QED BY <2>1, <2>2, MutexSame
<1>4. CASE ReadMessage \/ UNCHANGED connVars
  <2>1. UNCHANGED <<writeMu, order, sent, stepOf>>
    BY <1>4 DEF ReadMessage, ReadLength, ReadPayload, connVars
  <2> QED BY <2>1, MutexSame
<1> QED BY <1>1, <1>2, <1>3, <1>4 DEF ConnNext


-----------------------------------------------------------------------------
(* Slices.                                                                 *)

\* What a step of m's writer leaves to the others.
Apart(m) ==
    /\ \A w \in Messages : w # m => left'[w] = left[w] /\ k'[w] = k[w] /\ stepOf'[w] = stepOf[w]
    /\ stepOf'[Closer] = stepOf[Closer] /\ k'[Closer] = k[Closer]

LEMMA WriteApart ==
    ASSUME TypeInv, NEW m \in Messages, WriteMessage(m)
    PROVE  Apart(m)
<1>1. /\ left \in [Messages -> Seq(Parts)] /\ k \in [Goroutines -> 0 .. BufferSize]
      /\ m # Closer /\ Closer \in Goroutines /\ \A w \in Messages : w \in Goroutines
  BY ConstantFacts DEF TypeInv, ConnTypeOK, Goroutines
<1>2. /\ left' = left \/ \E s : left' = [left EXCEPT ![m] = s]
      /\ k' = k \/ \E i : k' = [k EXCEPT ![m] = i]
      /\ \E t : stepOf' = [stepOf EXCEPT ![m] = t]
  BY DEF WriteMessage, WriteBegin, WriteLock, WriteCopy, WriteDirect, WriteError, WriteAdd,
         WriteUnlock, GoesOn
<1>3. \A w \in Messages : w # m => left'[w] = left[w]
  BY <1>1, <1>2
<1>4. \A w \in Goroutines : w # m => k'[w] = k[w]
  BY <1>1, <1>2
<1>5. (\A w \in Messages : w # m => stepOf'[w] = stepOf[w]) /\ stepOf'[Closer] = stepOf[Closer]
  BY <1>2, WriterMoves
<1> QED BY <1>1, <1>3, <1>4, <1>5 DEF Apart

LEMMA SliceSame ==
    ASSUME TypeInv, SliceInv, NEW w \in Messages,
           left'[w] = left[w],
           \/ stepOf'[w] = stepOf[w]
           \/ stepOf[w] \in {"idle", "lock"} /\ stepOf'[w] \in {"done", "lock"}
           \/ FlushMoves(w),
           stepOf'[w] = "add" => k'[w] = k[w]
    PROVE  Slices(w)'
<1>1. Slices(w)
  BY DEF SliceInv
<1>2. IsRest(w) => IsRest(w)'
  BY DEF IsRest
<1>3. CASE stepOf'[w] = stepOf[w]
  BY <1>1, <1>2, <1>3 DEF Slices, Length
<1>4. CASE stepOf[w] \in {"idle", "lock"} /\ stepOf'[w] \in {"done", "lock"}
  BY <1>1, <1>2, <1>4 DEF Slices, Length
<1>5. CASE FlushMoves(w)
  BY <1>1, <1>2, <1>5, ConstantFacts DEF Slices, Length, FlushMoves
<1> QED BY <1>3, <1>4, <1>5

LEMMA WriteAddSlice ==
    ASSUME TypeInv, SliceInv, NEW m \in Messages, WriteAdd(m)
    PROVE  Slices(m)'
<1>1. stepOf[m] = "add" /\ Slices(m)
  BY DEF SliceInv, WriteAdd, GoesOn
<1>2. /\ left[m] \in Seq(Parts) /\ Len(left[m]) \in Nat /\ k[m] \in Nat
      /\ k[m] >= 1 /\ k[m] <= Len(left[m]) /\ left[m] # <<>>
      /\ SizeOf[m] \in Nat /\ SizeOf[m] >= 1
      /\ DOMAIN left = Messages
  BY <1>1, ConstantFacts DEF Slices, TypeInv, ConnTypeOK, Goroutines
<1>3. CASE left[m] = <<Length(m)>>
  <2>1. left'[m] = Payload(m)
    BY <1>2, <1>3 DEF WriteAdd
  <2>2. stepOf'[m] = "put"
    BY <1>3, WriterMoves DEF WriteAdd, GoesOn
  <2>3. IsRest(m)'
    BY <1>2, <2>1, PayloadFacts DEF IsRest
  <2>4. left'[m] # <<>>
    BY <1>2, <2>1, PayloadFacts
  <2> QED BY <2>2, <2>3, <2>4 DEF Slices
<1>4. CASE left[m] # <<Length(m)>>
  <2> DEFINE rest == SubSeq(left[m], k[m] + 1, Len(left[m]))
  <2>1. /\ rest \in Seq(Parts)
        /\ Len(rest) = Len(left[m]) - k[m]
        /\ \A j \in 1 .. Len(left[m]) - k[m] : rest[j] = left[m][j + k[m]]
    BY <1>2
  <2>2. left'[m] = rest
    BY <1>2, <1>4 DEF WriteAdd
  <2>3. stepOf'[m] = "flush"
    BY <1>4, WriterMoves DEF WriteAdd, GoesOn
  <2> HIDE DEF rest
  <2>4. IsRest(m)
    BY <1>1, <1>4 DEF Slices
  <2>5. Len(left'[m]) < SizeOf[m]
    BY <1>2, <2>1, <2>2, <2>4 DEF IsRest
  <2>6. ASSUME NEW j \in 1 .. Len(left'[m])
        PROVE  left'[m][j] = <<m, SizeOf[m] - Len(left'[m]) + j>>
    <3>1. j + k[m] \in 1 .. Len(left[m]) /\ left'[m][j] = left[m][j + k[m]]
      BY <1>2, <2>1, <2>2
    <3>2. left[m][j + k[m]] = <<m, SizeOf[m] - Len(left[m]) + (j + k[m])>>
      BY <2>4, <3>1 DEF IsRest
    <3>3. SizeOf[m] - Len(left[m]) + (j + k[m]) = SizeOf[m] - Len(left'[m]) + j
      BY <1>2, <2>1, <2>2
    <3> QED BY <3>1, <3>2, <3>3
  <2>7. IsRest(m)'
    BY <1>2, <2>5, <2>6 DEF IsRest
  <2> QED BY <2>3, <2>5, <2>7 DEF Slices
<1> QED BY <1>3, <1>4

LEMMA WriteSlice ==
    ASSUME TypeInv, SliceInv, CountInv, NEW m \in Messages, WriteMessage(m)
    PROVE  Slices(m)'
<1>1. /\ Slices(m) /\ left[m] \in Seq(Parts) /\ Len(left[m]) \in Nat /\ DOMAIN left = Messages
      /\ DOMAIN k = Goroutines /\ m \in Goroutines
      /\ SizeOf[m] \in Nat /\ SizeOf[m] >= 1
  BY ConstantFacts DEF TypeInv, ConnTypeOK, Goroutines, SliceInv
<1>2. CASE WriteBegin(m)
  <2>1. stepOf[m] = "idle" /\ left' = left /\ \E t \in {"done", "lock"} : stepOf' = [stepOf EXCEPT ![m] = t]
    BY <1>2 DEF WriteBegin, GoesOn
  <2>2. stepOf'[m] \in {"done", "lock"}
    BY <2>1, WriterMoves
  <2> QED BY <2>1, <2>2, SliceSame
<1>3. CASE WriteLock(m)
  <2>1. left'[m] = <<Length(m)>>
    BY <1>1, <1>3 DEF WriteLock
  <2>2. stepOf'[m] = "put"
    BY <1>3, WriterMoves DEF WriteLock, GoesOn
  <2>3. Length(m)' = Length(m)
    BY DEF Length
  <2> QED BY <2>1, <2>2, <2>3 DEF Slices
<1>4. CASE WriteCopy(m)
  <2> DEFINE c == Least(Len(left[m]), BufferSize - n)
  <2>1. stepOf[m] = "put" /\ left' = left /\ ~err /\ k'[m] = c
    BY <1>1, <1>4 DEF WriteCopy
  <2>2. stepOf'[m] = "add"
    BY <1>4, WriterMoves DEF WriteCopy
  <2>3. n < BufferSize /\ n \in Int /\ BufferSize \in Nat
    BY <2>1, ConstantFacts DEF CountInv, Filled, TypeInv, ConnTypeOK
  <2>4. Len(left[m]) >= 1
    BY <1>1, <2>1, EmptySeq DEF Slices
  <2>5. c >= 1 /\ c <= Len(left[m])
    BY <1>1, <2>3, <2>4 DEF Least
  <2> HIDE DEF c
  <2>6. IsRest(m) => IsRest(m)'
    BY <2>1 DEF IsRest
  <2> QED BY <1>1, <2>1, <2>2, <2>5, <2>6 DEF Slices, Length
<1>5. CASE WriteDirect(m) \/ WriteError(m)
  <2>1. /\ stepOf[m] = "put"
        /\ \/ left' = left /\ stepOf' = [stepOf EXCEPT ![m] = "unlock"]
           \/ left' = [left EXCEPT ![m] = <<>>] /\ stepOf' = [stepOf EXCEPT ![m] = "flush"]
    BY <1>5 DEF WriteDirect, WriteError, GoesOn
  <2>2. CASE left' = left /\ stepOf' = [stepOf EXCEPT ![m] = "unlock"]
    <3>1. stepOf'[m] = "unlock"
      BY <2>2, WriterMoves
    <3>2. IsRest(m) => IsRest(m)'
      BY <2>2 DEF IsRest
    <3> QED BY <1>1, <2>1, <2>2, <3>1, <3>2 DEF Slices, Length
  <2>3. CASE left' = [left EXCEPT ![m] = <<>>] /\ stepOf' = [stepOf EXCEPT ![m] = "flush"]
    <3>1. stepOf'[m] = "flush"
      BY <2>3, WriterMoves
    <3>2. left'[m] = <<>> /\ Len(left'[m]) = 0
      BY <1>1, <2>3
    <3>3. IsRest(m)'
      BY <1>1, <3>2 DEF IsRest
    <3> QED BY <1>1, <3>1, <3>2, <3>3 DEF Slices
  <2> QED BY <2>1, <2>2, <2>3
<1>6. CASE WriteAdd(m)
  BY <1>6, WriteAddSlice
<1>7. CASE WriteUnlock(m)
  <2>1. stepOf'[m] = "done"
    BY <1>7, WriterMoves DEF WriteUnlock, GoesOn
  <2>2. left'[m] = <<>> /\ Len(left'[m]) = 0
    BY <1>1, <1>7 DEF WriteUnlock
  <2>3. IsRest(m)'
    BY <1>1, <2>2 DEF IsRest
  <2> QED BY <2>1, <2>2, <2>3 DEF Slices
<1> QED BY <1>2, <1>3, <1>4, <1>5, <1>6, <1>7 DEF WriteMessage

LEMMA SliceStep ==
    ASSUME TypeInv, SliceInv, CountInv, [ConnNext]_connVars
    PROVE  SliceInv'
<1>1. ASSUME NEW m \in Messages, WriteMessage(m)
      PROVE  SliceInv'
  <2>1. Slices(m)'
    BY <1>1, WriteSlice
  <2>2. \A w \in Messages : w # m => left'[w] = left[w] /\ k'[w] = k[w] /\ stepOf'[w] = stepOf[w]
    BY <1>1, WriteApart DEF Apart
  <2>3. \A w \in Messages : w # m => Slices(w)'
    BY <2>2, SliceSame
  <2> QED BY <2>1, <2>3 DEF SliceInv
<1>2. ASSUME NEW g \in Goroutines, Flush(g)
      PROVE  SliceInv'
  <2>1. left' = left
    BY <1>2 DEF Flush, FlushBegin, FlushSend, FlushReset
  <2>2. FlushMoves(g)
    BY <1>2, FlushMovesFact
  <2>3. k' = k \/ \E i : k' = [k EXCEPT ![g] = i]
    BY <1>2 DEF Flush, FlushBegin, FlushSend, FlushReset
  <2>4. ASSUME NEW w \in Messages
        PROVE  Slices(w)'
    <3>1. CASE w = g
      <4>1. stepOf'[w] # "add" /\ FlushMoves(w)
        BY <2>2, <3>1 DEF FlushMoves
      <4> QED BY <2>1, <4>1, SliceSame
    <3>2. CASE w # g
      <4>1. stepOf'[w] = stepOf[w]
        BY <2>2, <3>2 DEF FlushMoves
      <4>2. k'[w] = k[w]
        BY <2>3, <3>2 DEF TypeInv, ConnTypeOK, Goroutines
      <4> QED BY <2>1, <4>1, <4>2, SliceSame
    <3> QED BY <3>1, <3>2
  <2> QED BY <2>4 DEF SliceInv
<1>3. CASE CloseBegin \/ CloseSocket
  <2>1. /\ left' = left /\ k' = k
        /\ \E t \in CloserSteps : stepOf' = [stepOf EXCEPT ![Closer] = t]
    BY <1>3 DEF CloseBegin, CloseSocket, GoesOn, CloserSteps
  <2>2. \A w \in Messages : stepOf'[w] = stepOf[w]
    BY <2>1, CloserMoves
  <2> QED BY <2>1, <2>2, SliceSame DEF SliceInv
<1>4. CASE ReadMessage \/ UNCHANGED connVars
  <2>1. UNCHANGED <<left, k, stepOf>>
    BY <1>4 DEF ReadMessage, ReadLength, ReadPayload, connVars
  <2> QED BY <2>1, SliceSame DEF SliceInv
<1> QED BY <1>1, <1>2, <1>3, <1>4 DEF ConnNext


-----------------------------------------------------------------------------
(* How far the buffer is filled.                                           *)

\* What a step does to n and err when it adds nothing to the buffer.
Drains == /\ err => err'
          /\ ~err' => n' = n \/ n' = 0
          /\ n' <= n \/ n' = 0

LEMMA FilledSame ==
    ASSUME TypeInv, NEW w \in Messages, Filled(w), Drains,
           n' \in Int, left'[w] = left[w], stepOf'[w] = stepOf[w], k'[w] = k[w]
    PROVE  Filled(w)'
<1>1. /\ k[w] \in 0 .. BufferSize /\ n \in Int /\ BufferSize \in Nat /\ BufferSize >= 2
  BY ConstantFacts DEF TypeInv, ConnTypeOK, Goroutines
<1>2. (err => err') /\ (~err' => n' = n \/ n' = 0) /\ (n' <= n \/ n' = 0)
  BY DEF Drains
<1>3. Payload(w)' = Payload(w) /\ Length(w)' = Length(w)
  BY DEF Payload, Length
<1>4. stepOf'[w] = "unlock" /\ ~err' => n' = 0
  BY <1>2 DEF Filled
<1>5. stepOf'[w] = "put" /\ ~err' => n' < BufferSize
  BY <1>1, <1>2 DEF Filled
<1>6. stepOf'[w] = "put" /\ ~err' /\ n' # 0 => left'[w] = Payload(w)
  BY <1>2 DEF Filled
<1>7. stepOf'[w] = "add" /\ ~err' /\ n' # 0 => left'[w] # <<Length(w)>>
  BY <1>2 DEF Filled
<1>8. stepOf'[w] = "add" => n' + k'[w] <= BufferSize
  <2>1. CASE n' = 0
    BY <1>1, <2>1
  <2>2. CASE n' = n
    BY <2>2 DEF Filled
  <2>3. CASE n' < n
    BY <1>1, <2>3 DEF Filled
  <2> QED BY <1>1, <1>2, <2>1, <2>2, <2>3
<1> QED BY <1>3, <1>4, <1>5, <1>6, <1>7, <1>8, Zenon DEF Filled

LEMMA FlushDrains ==
    ASSUME TypeInv, NEW g \in Goroutines, Flush(g)
    PROVE  Drains /\ n' \in Int
<1>1. n \in Int /\ err \in BOOLEAN
  BY DEF TypeInv, ConnTypeOK
<1>2. CASE FlushBegin(g) \/ FlushReset(g)
  BY <1>1, <1>2 DEF FlushBegin, FlushReset, Drains
<1>3. CASE FlushSend(g)
  <2>1. CASE UNCHANGED <<n, err>>
    BY <1>1, <2>1 DEF Drains
  <2>2. CASE (\E i \in 0 .. k[g] - 1 : n' = n - i) /\ err' = TRUE
    <3>1. n' <= n /\ n' \in Int
      <4>1. PICK i \in 0 .. k[g] - 1 : n' = n - i
        BY <2>2
      <4>2. k[g] \in Int
        BY ConstantFacts DEF TypeInv, ConnTypeOK
      <4> QED BY <1>1, <4>1, <4>2
    <3> QED BY <2>2, <3>1 DEF Drains
  <2> QED BY <1>3, <2>1, <2>2 DEF FlushSend
<1> QED BY <1>2, <1>3 DEF Flush

LEMMA CountWriteAdd ==
    ASSUME TypeInv, MutexInv, SliceInv, CountInv, NEW m \in Messages, WriteAdd(m)
    PROVE  Filled(m)' /\ (~err' => n' >= 0)
<1>1. /\ stepOf[m] = "add" /\ Slices(m) /\ Filled(m) /\ n' = n + k[m] /\ err' = err
  BY DEF SliceInv, CountInv, WriteAdd, GoesOn
<1>2. /\ n \in Int /\ k[m] \in Nat /\ k[m] >= 1 /\ k[m] <= Len(left[m])
      /\ BufferSize \in Nat /\ BufferSize >= 2
      /\ left[m] \in Seq(Parts) /\ DOMAIN left = Messages
  BY <1>1, ConstantFacts DEF TypeInv, ConnTypeOK, Goroutines, Slices
<1>3. ~err' => n' >= 0
  BY <1>1, <1>2 DEF CountInv
<1>4. CASE left[m] = <<Length(m)>>
  <2>1. left'[m] = Payload(m)
    BY <1>2, <1>4 DEF WriteAdd
  <2>2. stepOf'[m] = "put"
    BY <1>4, WriterMoves DEF WriteAdd, GoesOn
  <2>3. k[m] = 1
    BY <1>2, <1>4, PayloadFacts
  <2>4. ~err' => n' = 1
    BY <1>1, <1>2, <1>4, <2>3 DEF Filled
  <2>5. Payload(m)' = Payload(m)
    BY DEF Payload
  <2> QED BY <1>2, <1>3, <2>1, <2>2, <2>4, <2>5 DEF Filled
<1>5. CASE left[m] # <<Length(m)>>
  <2>1. stepOf'[m] = "flush"
    BY <1>5, WriterMoves DEF WriteAdd, GoesOn
  <2> QED BY <1>3, <2>1 DEF Filled
<1> QED BY <1>4, <1>5

LEMMA CountWrite ==
    ASSUME TypeInv, MutexInv, SliceInv, CountInv, NEW m \in Messages, WriteMessage(m)
    PROVE  CountInv'
<1>1. /\ Filled(m) /\ n \in Int /\ k[m] \in 0 .. BufferSize /\ err \in BOOLEAN
      /\ BufferSize \in Nat /\ BufferSize >= 2
      /\ left[m] \in Seq(Parts) /\ Len(left[m]) \in Nat /\ DOMAIN left = Messages
      /\ DOMAIN k = Goroutines /\ m \in Goroutines /\ m # Nothing
  BY ConstantFacts DEF TypeInv, ConnTypeOK, Goroutines, CountInv
<1>2. ASSUME NEW w \in Messages, w # m, ~WriteAdd(m)
      PROVE  Filled(w)'
  <2>1. left'[w] = left[w] /\ k'[w] = k[w] /\ stepOf'[w] = stepOf[w]
    BY <1>2, WriteApart DEF Apart
  <2>2. Drains
    <3>1. n' = n /\ (err' = err \/ err' = TRUE)
      BY <1>2 DEF WriteMessage, WriteBegin, WriteLock, WriteCopy, WriteDirect, WriteError, WriteUnlock
    <3>2. err => err'
      BY <3>1, Zenon
    <3>3. n' = n
      BY <3>1, Zenon
    <3> QED BY <1>1, <3>2, <3>3 DEF Drains
  <2>3. n' \in Int
    BY <1>1, <1>2 DEF WriteMessage, WriteBegin, WriteLock, WriteCopy, WriteDirect, WriteError, WriteUnlock
  <2> QED BY <2>1, <2>2, <2>3, FilledSame DEF CountInv
<1>3. CASE WriteBegin(m)
  <2>1. /\ n' = n /\ err' = err /\ writeMu' = writeMu
        /\ \E t \in {"done", "lock"} : stepOf' = [stepOf EXCEPT ![m] = t]
    BY <1>3 DEF WriteBegin, GoesOn
  <2>2. stepOf'[m] \in {"done", "lock"}
    BY <2>1, WriterMoves
  <2>3. Filled(m)'
    BY <2>2 DEF Filled
  <2>4. ~WriteAdd(m)
    BY <1>3 DEF WriteBegin, WriteAdd, GoesOn
  <2> QED BY <1>2, <2>1, <2>3, <2>4 DEF CountInv
<1>4. CASE WriteLock(m)
  <2>1. n' = n /\ err' = err /\ writeMu = Nothing /\ writeMu' = m
    BY <1>4 DEF WriteLock
  <2>2. stepOf'[m] = "put"
    BY <1>4, WriterMoves DEF WriteLock, GoesOn
  <2>3. Filled(m)'
    BY <1>1, <2>1, <2>2 DEF Filled, CountInv
  <2>4. ~WriteAdd(m)
    BY <1>4 DEF WriteLock, WriteAdd, GoesOn
  <2> QED BY <1>1, <1>2, <2>1, <2>3, <2>4 DEF CountInv
<1>5. CASE WriteCopy(m)
  <2> DEFINE c == Least(Len(left[m]), BufferSize - n)
  <2>1. stepOf[m] = "put" /\ left' = left /\ ~err /\ k'[m] = c /\ n' = n /\ err' = err /\ writeMu' = writeMu
    BY <1>1, <1>5 DEF WriteCopy
  <2>2. stepOf'[m] = "add"
    BY <1>5, WriterMoves DEF WriteCopy
  <2>3. n + c <= BufferSize
    BY <1>1 DEF Least
  <2> HIDE DEF c
  <2>4. n # 0 => left'[m] # <<Length(m)>>
    BY <1>1, <2>1, PayloadFacts DEF Filled
  <2>5. Filled(m)'
    BY <1>1, <2>1, <2>2, <2>3, <2>4 DEF Filled, Length
  <2>6. ~WriteAdd(m)
    BY <2>1 DEF WriteAdd, GoesOn
  <2> QED BY <1>2, <2>1, <2>5, <2>6 DEF CountInv
<1>6. CASE WriteDirect(m)
  <2>1. /\ stepOf[m] = "put" /\ n' = n /\ writeMu' = writeMu /\ ~err
        /\ \/ stepOf' = [stepOf EXCEPT ![m] = "flush"] /\ err' = err
           \/ stepOf' = [stepOf EXCEPT ![m] = "unlock"] /\ err' = TRUE
    BY <1>6 DEF WriteDirect, GoesOn
  <2>2. stepOf'[m] = "flush" \/ (stepOf'[m] = "unlock" /\ err')
    <3>1. CASE GoesOn(m, "put", "flush")
      <4>1. stepOf'[m] = "flush"
        BY <1>1, <3>1, GotoFacts
      <4> QED BY <4>1
    <3>2. CASE GoesOn(m, "put", "unlock") /\ err' = TRUE
      <4>1. stepOf'[m] = "unlock"
        BY <1>1, <3>2, GotoFacts
      <4> QED BY <3>2, <4>1
    <3> QED BY <1>6, <3>1, <3>2 DEF WriteDirect
  <2>3. Filled(m)'
    BY <2>2 DEF Filled
  <2>4. ~WriteAdd(m)
    BY <2>1 DEF WriteAdd, GoesOn
  <2> QED BY <1>2, <2>1, <2>2, <2>3, <2>4 DEF CountInv
<1>7. CASE WriteError(m)
  <2>1. /\ stepOf[m] = "put" /\ n' = n /\ writeMu' = writeMu /\ err /\ err' = err
    BY <1>7 DEF WriteError, GoesOn
  <2>2. stepOf'[m] = "unlock"
    BY <1>7, WriterMoves DEF WriteError, GoesOn
  <2>3. Filled(m)'
    BY <2>1, <2>2 DEF Filled
  <2>4. ~WriteAdd(m)
    BY <2>1 DEF WriteAdd, GoesOn
  <2> QED BY <1>2, <2>1, <2>2, <2>3, <2>4 DEF CountInv
<1>8. CASE WriteAdd(m)
  <2>1. stepOf[m] = "add" /\ writeMu' = writeMu
    BY <1>8 DEF WriteAdd, GoesOn
  <2>2. writeMu = m
    BY <2>1 DEF MutexInv, Holding
  <2>3. ASSUME NEW w \in Messages, w # m
        PROVE  Filled(w)'
    <3>1. stepOf[w] \notin Holding
      BY <2>2, <2>3 DEF MutexInv
    <3>2. stepOf'[w] = stepOf[w]
      BY <1>8, <2>3, WriteApart DEF Apart, WriteMessage
    <3> QED BY <3>1, <3>2 DEF Filled, Holding
  <2> QED BY <1>1, <1>8, <2>1, <2>2, <2>3, CountWriteAdd DEF CountInv
<1>9. CASE WriteUnlock(m)
  <2>1. /\ stepOf[m] = "unlock" /\ n' = n /\ err' = err
    BY <1>9 DEF WriteUnlock, GoesOn
  <2>2. stepOf'[m] = "done"
    BY <1>9, WriterMoves DEF WriteUnlock, GoesOn
  <2>3. Filled(m)'
    BY <2>2 DEF Filled
  <2>4. ~WriteAdd(m)
    BY <2>1 DEF WriteAdd, GoesOn
  <2>5. ~err => n = 0
    BY <1>1, <2>1 DEF Filled
  <2> QED BY <1>1, <1>2, <2>1, <2>2, <2>3, <2>4, <2>5 DEF CountInv
<1> QED BY <1>3, <1>4, <1>5, <1>6, <1>7, <1>8, <1>9 DEF WriteMessage

LEMMA CountFlush ==
    ASSUME TypeInv, MutexInv, CountInv, NEW g \in Goroutines, Flush(g)
    PROVE  CountInv'
<1>1. /\ n \in Int /\ err \in BOOLEAN /\ n' \in Int /\ Drains
      /\ left' = left /\ writeMu' = writeMu
  BY FlushDrains DEF TypeInv, ConnTypeOK, Flush, FlushBegin, FlushSend, FlushReset
<1>2. FlushMoves(g)
  BY FlushMovesFact
<1>3. ~err' => n' >= 0
  BY <1>1 DEF CountInv, Drains
<1>4. ~err' /\ writeMu' = Nothing => n' = 0
  BY <1>1 DEF CountInv, Drains
<1>5. k' = k \/ \E i : k' = [k EXCEPT ![g] = i]
  BY DEF Flush, FlushBegin, FlushSend, FlushReset
<1>6. ASSUME NEW w \in Messages
      PROVE  Filled(w)'
  <2>1. CASE w # g
    <3>1. stepOf'[w] = stepOf[w]
      BY <1>2, <2>1 DEF FlushMoves
    <3>2. k'[w] = k[w]
      BY <1>5, <2>1 DEF TypeInv, ConnTypeOK, Goroutines
    <3> QED BY <1>1, <3>1, <3>2, FilledSame DEF CountInv
  <2>2. CASE w = g
    <3>1. stepOf'[w] \in {"put", "unlock"} /\ ~err' => n' = 0
      <4>1. CASE FlushBegin(g)
        <5>1. CASE err \/ n <= 0
          BY <1>1, <4>1, <5>1 DEF FlushBegin, CountInv
        <5>2. CASE GoesOn(g, "flush", "send")
          BY <5>2, GotoFacts, <2>2
        <5> QED BY <4>1, <5>1, <5>2 DEF FlushBegin
      <4>2. CASE FlushSend(g)
        <5>1. CASE GoesOn(g, "send", "reset")
          BY <5>1, GotoFacts, <2>2
        <5>2. CASE err' = TRUE
          BY <5>2
        <5> QED BY <4>2, <5>1, <5>2 DEF FlushSend
      <4>3. CASE FlushReset(g)
        BY <4>3 DEF FlushReset
      <4> QED BY <4>1, <4>2, <4>3 DEF Flush
    <3>2. stepOf'[w] \in {"put", "send", "reset", "unlock"}
      BY <1>2, <2>2 DEF FlushMoves
    <3> QED BY <3>1, <3>2, ConstantFacts DEF Filled
  <2> QED BY <2>1, <2>2
<1> QED BY <1>3, <1>4, <1>6 DEF CountInv

LEMMA CountStep ==
    ASSUME TypeInv, MutexInv, SliceInv, CountInv, [ConnNext]_connVars
    PROVE  CountInv'
<1>1. ASSUME UNCHANGED <<n, err, left, k, writeMu>>, \A w \in Messages : stepOf'[w] = stepOf[w]
      PROVE  CountInv'
  <2>1. Drains /\ n' \in Int
    BY <1>1 DEF Drains, TypeInv, ConnTypeOK
  <2>2. \A w \in Messages : Filled(w)'
    BY <1>1, <2>1, FilledSame DEF CountInv
  <2> QED BY <1>1, <2>2 DEF CountInv
<1>2. CASE CloseBegin \/ CloseSocket
  <2>1. /\ UNCHANGED <<n, err, left, k, writeMu>>
        /\ \E t \in CloserSteps : stepOf' = [stepOf EXCEPT ![Closer] = t]
    BY <1>2 DEF CloseBegin, CloseSocket, GoesOn, CloserSteps
  <2>2. \A w \in Messages : stepOf'[w] = stepOf[w]
    BY <2>1, CloserMoves
  <2> QED BY <1>1, <2>1, <2>2
<1>3. CASE ReadMessage \/ UNCHANGED connVars
  <2>1. UNCHANGED <<n, err, left, k, writeMu, stepOf>>
    BY <1>3 DEF ReadMessage, ReadLength, ReadPayload, connVars
  <2> QED BY <1>1, <2>1
<1> QED BY <1>2, <1>3, CountWrite, CountFlush DEF ConnNext


-----------------------------------------------------------------------------
(* What is in the buffer.                                                  *)

\* What WriteCopy puts there: the next c parts of the slice.
LEMMA CopyFacts ==
    ASSUME TypeInv, SliceInv, CountInv, NEW m \in Messages, WriteCopy(m)
    PROVE  \E c \in Nat :
              /\ c >= 1 /\ c <= Len(left[m]) /\ n + c <= BufferSize /\ n >= 0 /\ n \in Int
              /\ k'[m] = c /\ stepOf[m] = "put" /\ stepOf'[m] = "add" /\ ~err
              /\ \A j \in 1 .. c : buf'[n + j] = left[m][j]
              /\ \A j \in 1 .. BufferSize : j \notin n + 1 .. n + c => buf'[j] = buf[j]
              /\ left[m] = <<Length(m)>> => n = 0 /\ c = 1
              /\ left[m] # Payload(m) => n = 0
<1> DEFINE c == Least(Len(left[m]), BufferSize - n)
<1>1. /\ n \in Int /\ BufferSize \in Nat /\ left[m] \in Seq(Parts) /\ Len(left[m]) \in Nat
      /\ DOMAIN k = Goroutines /\ m \in Goroutines
  BY ConstantFacts DEF TypeInv, ConnTypeOK, Goroutines
<1>2. stepOf[m] = "put" /\ ~err /\ k'[m] = c
  BY <1>1 DEF WriteCopy
<1>3. stepOf'[m] = "add"
  BY WriterMoves DEF WriteCopy
<1>4. /\ n >= 0 /\ n < BufferSize
      /\ left[m] # Payload(m) => n = 0
  BY <1>2 DEF CountInv, Filled
<1>5. Len(left[m]) >= 1
  BY <1>1, <1>2, EmptySeq DEF SliceInv, Slices
<1>6. c \in Nat /\ c >= 1 /\ c <= Len(left[m]) /\ n + c <= BufferSize
  BY <1>1, <1>4, <1>5 DEF Least
<1>7. buf' = [i \in 1 .. BufferSize |-> IF i \in n + 1 .. n + c THEN left[m][i - n] ELSE buf[i]]
  BY DEF WriteCopy
<1> HIDE DEF c
<1>8. ASSUME NEW j \in 1 .. c
      PROVE  buf'[n + j] = left[m][j]
  <2>1. n + j \in 1 .. BufferSize /\ n + j \in n + 1 .. n + c /\ (n + j) - n = j
    BY <1>1, <1>4, <1>6
  <2> QED BY <1>7, <2>1
<1>9. \A j \in 1 .. BufferSize : j \notin n + 1 .. n + c => buf'[j] = buf[j]
  BY <1>7
<1>10. left[m] = <<Length(m)>> => n = 0 /\ c = 1
  BY <1>4, <1>6, PayloadFacts
<1> QED BY <1>1, <1>2, <1>3, <1>4, <1>6, <1>8, <1>9, <1>10

LEMMA ContentsSame ==
    ASSUME TypeInv, NEW w \in Messages, Contents(w), Drains, n' \in Int,
           buf' = buf, left'[w] = left[w], stepOf'[w] = stepOf[w], k'[w] = k[w]
    PROVE  Contents(w)'
<1>1. Payload(w)' = Payload(w) /\ Length(w)' = Length(w) /\ (Head1(w) => Head1(w)') /\ Parts' = Parts
  BY DEF Payload, Length, Head1, Parts
<1>2. n \in Int /\ k[w] \in Int
  BY ConstantFacts DEF TypeInv, ConnTypeOK, Goroutines
<1>3. (err => err') /\ (~err' => n' = n \/ n' = 0) /\ (n' <= n \/ n' = 0)
  BY DEF Drains
<1>4. ASSUME stepOf'[w] = "add", NEW j \in 1 .. n' + k'[w]
      PROVE  buf'[j] \in Parts
  <2>1. j \in 1 .. n + k[w] \/ j \in 1 .. k[w]
    BY <1>2, <1>3, <1>4
  <2> QED BY <1>4, <2>1 DEF Contents
<1>5. stepOf'[w] = "add" =>
          /\ \A j \in 1 .. k'[w] : buf'[j] \in Parts
          /\ Head1(w)'
          /\ left'[w] = <<Length(w)>> => buf'[1] = Length(w)
          /\ left'[w] # <<Length(w)>> /\ left'[w] # Payload(w) => buf'[1] # Length(w)
  BY <1>1 DEF Contents
<1>6. stepOf'[w] \in {"put", "flush", "reset"} /\ ~err' /\ n' > 0 => Head1(w)'
  BY <1>1, <1>2, <1>3 DEF Contents
<1>7. stepOf'[w] = "send" => Head1(w)'
  BY <1>1 DEF Contents
<1> QED BY <1>1, <1>4, <1>5, <1>6, <1>7 DEF Contents

\* A writer outside its critical section says nothing about the buffer.
LEMMA OutsideContents ==
    ASSUME NEW w \in Messages, stepOf'[w] \notin Holding
    PROVE  Contents(w)'
BY DEF Contents, Holding

LEMMA OthersOutside ==
    ASSUME TypeInv, MutexInv, NEW m \in Messages, stepOf[m] \in Holding, WriteMessage(m)
    PROVE  \A w \in Messages : w # m => stepOf[w] \notin Holding /\ stepOf'[w] \notin Holding
BY WriteApart DEF Apart, MutexInv

LEMMA BufferWriteCopy ==
    ASSUME TypeInv, MutexInv, SliceInv, CountInv, BufferInv, NEW m \in Messages, WriteCopy(m)
    PROVE  BufferInv'
<1>1. PICK c \in Nat :
          /\ c >= 1 /\ c <= Len(left[m]) /\ n + c <= BufferSize /\ n >= 0 /\ n \in Int
          /\ k'[m] = c /\ stepOf[m] = "put" /\ stepOf'[m] = "add" /\ ~err
          /\ \A j \in 1 .. c : buf'[n + j] = left[m][j]
          /\ \A j \in 1 .. BufferSize : j \notin n + 1 .. n + c => buf'[j] = buf[j]
          /\ left[m] = <<Length(m)>> => n = 0 /\ c = 1
          /\ left[m] # Payload(m) => n = 0
  BY CopyFacts
<1>2. n' = n /\ left' = left /\ BufferSize \in Nat /\ BufferSize >= 2
  BY ConstantFacts DEF WriteCopy
<1>3. /\ left[m] \in Seq(Parts) /\ Len(left[m]) \in Nat
      /\ left[m] # <<Length(m)>> =>
            \A j \in 1 .. Len(left[m]) : \A w \in Messages : left[m][j] # Length(w)
  BY RestFacts
<1>4. Payload(m)' = Payload(m) /\ Length(m)' = Length(m) /\ Parts' = Parts
  BY DEF Payload, Length, Parts
<1>5. \A j \in 1 .. n : buf'[j] = buf[j]
  BY <1>1, <1>2
<1>6. ASSUME NEW j \in 1 .. n + c
      PROVE  buf'[j] \in Parts
  <2>1. CASE j \in 1 .. n
    BY <1>5, <2>1 DEF BufferInv
  <2>2. CASE j \notin 1 .. n
    <3>1. j - n \in 1 .. c /\ n + (j - n) = j /\ j - n \in 1 .. Len(left[m])
      BY <1>1, <1>3, <2>2
    <3>2. buf'[j] = left[m][j - n]
      BY <1>1, <3>1
    <3> QED BY <1>3, <3>1, <3>2
  <2> QED BY <2>1, <2>2
<1>7. ASSUME NEW j \in 2 .. BufferSize, NEW w \in Messages
      PROVE  buf'[j] # Length(w)
  <2>1. CASE j \notin n + 1 .. n + c
    BY <1>1, <1>2, <2>1 DEF BufferInv
  <2>2. CASE j \in n + 1 .. n + c
    <3>1. j - n \in 1 .. c /\ n + (j - n) = j /\ j - n \in 1 .. Len(left[m])
      BY <1>1, <1>2, <1>3, <2>2
    <3>2. left[m] # <<Length(m)>>
      BY <1>1, <3>1
    <3> QED BY <1>1, <1>3, <3>1, <3>2
  <2> QED BY <2>1, <2>2
<1>8. Head1(m)'
  <2>1. CASE n = 0
    <3>1. buf'[1] = left[m][1]
      BY <1>1, <2>1
    <3>2. CASE left[m] = <<Length(m)>>
      BY <3>1, <3>2, PayloadFacts DEF Head1, Length
    <3>3. CASE left[m] # <<Length(m)>>
      <4>1. 1 \in 1 .. Len(left[m])
        BY <1>1, <1>3
      <4>2. \A w \in Messages : buf'[1] # Length(w)
        BY <1>3, <3>1, <3>3, <4>1
      <4> QED BY <4>2 DEF Head1, Length
    <3> QED BY <3>2, <3>3
  <2>2. CASE n # 0
    <3>1. n > 0 /\ buf'[1] = buf[1]
      BY <1>1, <1>2, <2>2
    <3>2. Head1(m)
      BY <1>1, <3>1 DEF BufferInv, Contents
    <3> QED BY <3>1, <3>2 DEF Head1, Length
  <2> QED BY <2>1, <2>2
<1>9. left[m] = <<Length(m)>> => buf'[1] = Length(m)
  BY <1>1, PayloadFacts
<1>10. ASSUME left[m] # <<Length(m)>>, left[m] # Payload(m)
       PROVE  buf'[1] # Length(m)
  <2>1. buf'[1] = left[m][1] /\ 1 \in 1 .. Len(left[m])
    BY <1>1, <1>3, <1>10
  <2> QED BY <1>3, <1>10, <2>1
<1>11. Contents(m)'
  <2>1. \A j \in 1 .. c : j \in 1 .. n + c
    BY <1>1
  <2> QED BY <1>1, <1>2, <1>4, <1>6, <1>8, <1>9, <1>10, <2>1 DEF Contents
<1>12. \A w \in Messages : w # m => stepOf[w] \notin Holding /\ stepOf'[w] \notin Holding
  BY <1>1, OthersOutside DEF Holding, WriteMessage
<1>13. ASSUME NEW g \in Goroutines, stepOf'[g] = "send"
       PROVE  k'[g] >= 1 /\ \A j \in 1 .. k'[g] : buf'[j] \in Parts
  <2>1. g = Closer
    BY <1>1, <1>12, <1>13 DEF Goroutines, Closer, Holding
  <2>2. stepOf[g] = "send" /\ k'[g] = k[g]
    BY <1>13, <2>1, WriteApart DEF Apart, WriteMessage
  <2>3. ASSUME NEW j \in 1 .. k[g]
        PROVE  buf'[j] \in Parts
    <3>1. j \in 1 .. BufferSize
      BY <1>2 DEF TypeInv, ConnTypeOK
    <3>2. CASE j \in 1 .. n + c
      BY <1>6, <3>2
    <3>3. CASE j \notin 1 .. n + c
      <4>1. buf'[j] = buf[j]
        BY <1>1, <3>1, <3>3
      <4> QED BY <2>2, <2>3, <4>1 DEF BufferInv
    <3> QED BY <3>2, <3>3
  <2> QED BY <2>2, <2>3 DEF BufferInv
<1>14. \A w \in Messages : Contents(w)'
  BY <1>11, <1>12, OutsideContents
<1>15. \A j \in 1 .. n' : buf'[j] \in Parts
  BY <1>1, <1>2, <1>5 DEF BufferInv
<1> QED BY <1>4, <1>7, <1>13, <1>14, <1>15 DEF BufferInv, Length


\* A step that leaves buf alone and in which nobody comes to "send".
LEMMA BufferSame ==
    ASSUME TypeInv, BufferInv, buf' = buf, Drains, n' \in Int,
           \A w \in Messages : Contents(w)',
           \A g \in Goroutines : stepOf'[g] = "send" => stepOf[g] = "send" /\ k'[g] = k[g]
    PROVE  BufferInv'
<1>1. Parts' = Parts /\ \A w \in Messages : Length(w)' = Length(w)
  BY DEF Parts, Length
<1>2. \A j \in 1 .. n' : buf'[j] \in Parts
  <2>1. \A j \in 1 .. n' : j \in 1 .. n
    BY DEF Drains, TypeInv, ConnTypeOK
  <2> QED BY <2>1 DEF BufferInv
<1>3. \A j \in 2 .. BufferSize : \A m \in Messages : buf'[j] # Length(m)
  BY DEF BufferInv
<1>4. \A g \in Goroutines : stepOf'[g] = "send" => k'[g] >= 1 /\ \A j \in 1 .. k'[g] : buf'[j] \in Parts
  BY DEF BufferInv
<1> QED BY <1>1, <1>2, <1>3, <1>4 DEF BufferInv, Length

LEMMA WriteSends ==
    ASSUME TypeInv, NEW m \in Messages, WriteMessage(m), stepOf'[m] # "send"
    PROVE  \A g \in Goroutines : stepOf'[g] = "send" => stepOf[g] = "send" /\ k'[g] = k[g]
BY WriteApart DEF Apart, Goroutines, Closer

LEMMA BufferWrite ==
    ASSUME TypeInv, MutexInv, SliceInv, CountInv, BufferInv, NEW m \in Messages, WriteMessage(m)
    PROVE  BufferInv'
<1>1. /\ n \in Int /\ k[m] \in 0 .. BufferSize /\ BufferSize \in Nat
      /\ left[m] \in Seq(Parts) /\ DOMAIN left = Messages /\ m \in Goroutines
      /\ Contents(m) /\ Slices(m)
      /\ Payload(m)' = Payload(m) /\ Length(m)' = Length(m) /\ Parts' = Parts
      /\ buf' = buf => (Head1(m) => Head1(m)')
  BY ConstantFacts DEF TypeInv, ConnTypeOK, Goroutines, BufferInv, SliceInv, Payload, Length, Parts, Head1
<1>2. ASSUME NEW w \in Messages, w # m, buf' = buf, ~WriteAdd(m)
      PROVE  Contents(w)'
  <2>1. left'[w] = left[w] /\ k'[w] = k[w] /\ stepOf'[w] = stepOf[w]
    BY <1>2, WriteApart DEF Apart
  <2>2. n' = n /\ (err => err')
    BY <1>2 DEF WriteMessage, WriteBegin, WriteLock, WriteCopy, WriteDirect, WriteError, WriteUnlock
  <2>3. Drains /\ n' \in Int
    BY <1>1, <2>2 DEF Drains
  <2> QED BY <1>2, <2>1, <2>3, ContentsSame DEF BufferInv
<1>3. ASSUME buf' = buf, n' = n, (err => err'), ~WriteAdd(m), Contents(m)', stepOf'[m] # "send"
      PROVE  BufferInv'
  <2>1. Drains /\ n' \in Int
    BY <1>1, <1>3 DEF Drains
  <2>2. \A w \in Messages : Contents(w)'
    BY <1>2, <1>3
  <2>3. \A g \in Goroutines : stepOf'[g] = "send" => stepOf[g] = "send" /\ k'[g] = k[g]
    BY <1>3, WriteSends
  <2> QED BY <1>3, <2>1, <2>2, <2>3, BufferSame
<1>4. CASE WriteBegin(m)
  <2>1. /\ buf' = buf /\ n' = n /\ (err => err') /\ ~WriteAdd(m)
        /\ \E t \in {"done", "lock"} : stepOf' = [stepOf EXCEPT ![m] = t]
    BY <1>4 DEF WriteBegin, WriteAdd, GoesOn
  <2>2. stepOf'[m] \in {"done", "lock"}
    BY <2>1, WriterMoves
  <2>3. Contents(m)'
    BY <2>2, OutsideContents DEF Holding
  <2> QED BY <1>3, <2>1, <2>2, <2>3
<1>5. CASE WriteLock(m)
  <2>1. buf' = buf /\ n' = n /\ err' = err /\ (err => err') /\ writeMu = Nothing /\ ~WriteAdd(m)
    BY <1>5 DEF WriteLock, WriteAdd, GoesOn
  <2>2. stepOf'[m] = "put"
    BY <1>5, WriterMoves DEF WriteLock, GoesOn
  <2>3. ~err => n = 0
    BY <2>1 DEF CountInv
  <2>4. Contents(m)'
    BY <1>1, <2>1, <2>2, <2>3 DEF Contents
  <2> QED BY <1>3, <2>1, <2>2, <2>4
<1>6. CASE WriteDirect(m)
  <2>1. /\ stepOf[m] = "put" /\ n' = n /\ n = 0 /\ ~err /\ buf' = buf /\ ~WriteAdd(m)
        /\ \/ stepOf' = [stepOf EXCEPT ![m] = "flush"]
           \/ stepOf' = [stepOf EXCEPT ![m] = "unlock"]
    BY <1>6 DEF WriteDirect, WriteAdd, GoesOn
  <2>2. stepOf'[m] \in {"flush", "unlock"}
    BY <2>1, WriterMoves
  <2>3. Contents(m)'
    BY <2>1, <2>2 DEF Contents
  <2> QED BY <1>3, <2>1, <2>2, <2>3
<1>7. CASE WriteError(m) \/ WriteUnlock(m)
  <2>1. /\ n' = n /\ (err => err') /\ buf' = buf /\ ~WriteAdd(m)
        /\ \/ stepOf' = [stepOf EXCEPT ![m] = "done"]
           \/ stepOf' = [stepOf EXCEPT ![m] = "unlock"]
    BY <1>7 DEF WriteError, WriteUnlock, WriteAdd, GoesOn
  <2>2. stepOf'[m] \in {"done", "unlock"}
    BY <2>1, WriterMoves
  <2>3. Contents(m)'
    BY <2>2 DEF Contents
  <2> QED BY <1>3, <2>1, <2>2, <2>3
<1>8. CASE WriteAdd(m)
  <2>1. stepOf[m] = "add" /\ n' = n + k[m] /\ buf' = buf
    BY <1>8 DEF WriteAdd, GoesOn
  <2>2. Contents(m)'
    <3>1. Head1(m)'
      BY <1>1, <2>1 DEF Contents
    <3>2. stepOf'[m] \in {"put", "flush"}
      <4>1. \/ stepOf' = [stepOf EXCEPT ![m] = "put"]
            \/ stepOf' = [stepOf EXCEPT ![m] = "flush"]
        BY <1>8 DEF WriteAdd, GoesOn
      <4> QED BY <4>1, WriterMoves
    <3> QED BY <3>1, <3>2 DEF Contents
  <2>3. \A w \in Messages : w # m => stepOf'[w] \notin Holding
    BY <1>8, <2>1, OthersOutside DEF WriteMessage, Holding
  <2>4. \A w \in Messages : Contents(w)'
    BY <2>2, <2>3, OutsideContents
  <2>5. stepOf'[m] # "send"
    <3>1. \/ stepOf' = [stepOf EXCEPT ![m] = "put"]
          \/ stepOf' = [stepOf EXCEPT ![m] = "flush"]
      BY <1>8 DEF WriteAdd, GoesOn
    <3> QED BY <3>1, WriterMoves
  <2>6. \A g \in Goroutines : stepOf'[g] = "send" => stepOf[g] = "send" /\ k'[g] = k[g]
    BY <1>8, <2>5, WriteSends DEF WriteMessage
  <2>7. \A j \in 1 .. n' : buf'[j] \in Parts
    BY <1>1, <2>1 DEF Contents
  <2>8. \A j \in 2 .. BufferSize : \A w \in Messages : buf'[j] # Length(w)
    BY <2>1 DEF BufferInv
  <2>9. \A g \in Goroutines : stepOf'[g] = "send" => k'[g] >= 1 /\ \A j \in 1 .. k'[g] : buf'[j] \in Parts
    BY <2>1, <2>6 DEF BufferInv
  <2> QED BY <1>1, <2>4, <2>7, <2>8, <2>9 DEF BufferInv, Length
<1> QED BY <1>4, <1>5, <1>6, <1>7, <1>8, BufferWriteCopy DEF WriteMessage

LEMMA BufferFlush ==
    ASSUME TypeInv, MutexInv, SliceInv, CountInv, BufferInv, NEW g \in Goroutines, Flush(g)
    PROVE  BufferInv'
<1>1. /\ n \in Int /\ n' \in Int /\ Drains /\ left' = left /\ buf' = buf
      /\ Parts' = Parts /\ (\A m \in Messages : (Head1(m) => Head1(m)'))
  BY FlushDrains DEF TypeInv, ConnTypeOK, Flush, FlushBegin, FlushSend, FlushReset, Parts, Head1, Length
<1>2. FlushMoves(g)
  BY FlushMovesFact
<1>3. k' = k \/ \E i : k' = [k EXCEPT ![g] = i]
  BY DEF Flush, FlushBegin, FlushSend, FlushReset
<1>4. \A h \in Goroutines : h # g => k'[h] = k[h] /\ stepOf'[h] = stepOf[h]
  BY <1>2, <1>3 DEF TypeInv, ConnTypeOK, Goroutines, FlushMoves, Closer
<1>5. \A w \in Messages : w # g => Contents(w)'
  BY <1>1, <1>4, ContentsSame DEF BufferInv, Goroutines
<1>6. ASSUME stepOf'[g] = "send"
      PROVE  ~err /\ n > 0 /\ stepOf[g] = "flush" /\ k'[g] = n /\ n' = n
  <2>1. CASE FlushBegin(g)
    <3>1. CASE GoesOn(g, "flush", AfterFlush(g))
      BY <1>6, <3>1, GotoFacts, AfterFlushFacts DEF Goroutines, Closer
    <3>2. CASE ~err /\ n > 0 /\ GoesOn(g, "flush", "send") /\ k' = [k EXCEPT ![g] = n]
      BY <2>1, <3>2 DEF GoesOn, FlushBegin, TypeInv, ConnTypeOK
    <3> QED BY <2>1, <3>1, <3>2 DEF FlushBegin
  <2>2. CASE FlushSend(g) \/ FlushReset(g)
    <3>1. GoesOn(g, "send", "reset") \/ GoesOn(g, "send", AfterFlush(g)) \/ GoesOn(g, "reset", AfterFlush(g))
      BY <2>2 DEF FlushSend, FlushReset
    <3> QED BY <1>6, <3>1, GotoFacts, AfterFlushFacts DEF Goroutines, Closer
  <2> QED BY <2>1, <2>2 DEF Flush
<1>7. ASSUME g \in Messages
      PROVE  Contents(g)'
  <2>1. CASE stepOf'[g] = "send"
    <3>1. Head1(g)
      BY <1>6, <1>7, <2>1 DEF BufferInv, Contents
    <3> QED BY <1>1, <1>7, <2>1, <3>1 DEF Contents
  <2>2. CASE stepOf'[g] = "reset"
    <3>1. stepOf[g] = "send"
      <4>1. CASE GoesOn(g, "send", "reset")
        BY <4>1 DEF GoesOn
      <4>2. CASE GoesOn(g, "flush", AfterFlush(g)) \/ GoesOn(g, "flush", "send")
                 \/ GoesOn(g, "send", AfterFlush(g)) \/ GoesOn(g, "reset", AfterFlush(g))
        BY <2>2, <4>2, GotoFacts, AfterFlushFacts DEF Goroutines, Closer
      <4> QED BY <4>1, <4>2 DEF Flush, FlushBegin, FlushSend, FlushReset
    <3>2. Head1(g)
      BY <1>7, <3>1 DEF BufferInv, Contents
    <3> QED BY <1>1, <1>7, <2>2, <3>2 DEF Contents
  <2>3. CASE stepOf'[g] \in {"put", "unlock"}
    <3>2. stepOf'[g] = "put" /\ ~err' => n' = 0
      <4>1. CASE FlushBegin(g)
        <5>1. CASE err \/ n <= 0
          BY <1>1, <4>1, <5>1 DEF FlushBegin, CountInv
        <5>2. CASE GoesOn(g, "flush", "send")
          BY <2>3, <5>2, GotoFacts
        <5> QED BY <4>1, <5>1, <5>2 DEF FlushBegin
      <4>2. CASE FlushSend(g)
        <5>1. CASE GoesOn(g, "send", "reset")
          BY <2>3, <5>1, GotoFacts
        <5>2. CASE err' = TRUE
          BY <5>2
        <5> QED BY <4>2, <5>1, <5>2 DEF FlushSend
      <4>3. CASE FlushReset(g)
        BY <4>3 DEF FlushReset
      <4> QED BY <4>1, <4>2, <4>3 DEF Flush
    <3> QED BY <1>1, <2>3, <3>2 DEF Contents
  <2> QED BY <1>2, <1>7, <2>1, <2>2, <2>3 DEF FlushMoves
<1>8. \A w \in Messages : Contents(w)'
  BY <1>5, <1>7
<1>9. ASSUME NEW h \in Goroutines, stepOf'[h] = "send"
      PROVE  k'[h] >= 1 /\ \A j \in 1 .. k'[h] : buf'[j] \in Parts
  <2>1. CASE h = g
    BY <1>1, <1>6, <1>9, <2>1 DEF BufferInv
  <2>2. CASE h # g
    BY <1>1, <1>4, <1>9, <2>2 DEF BufferInv
  <2> QED BY <2>1, <2>2
<1>10. \A j \in 1 .. n' : buf'[j] \in Parts
  <2>1. \A j \in 1 .. n' : j \in 1 .. n
    BY <1>1 DEF Drains
  <2> QED BY <1>1, <2>1 DEF BufferInv
<1>11. \A j \in 2 .. BufferSize : \A w \in Messages : buf'[j] # Length(w)
  BY <1>1 DEF BufferInv
<1> QED BY <1>1, <1>8, <1>9, <1>10, <1>11 DEF BufferInv, Length

LEMMA BufferStep ==
    ASSUME TypeInv, MutexInv, SliceInv, CountInv, BufferInv, [ConnNext]_connVars
    PROVE  BufferInv'
<1>1. ASSUME UNCHANGED <<buf, n, err, left, k>>,
             \A w \in Messages : stepOf'[w] = stepOf[w],
             stepOf'[Closer] = "send" => stepOf[Closer] = "send"
      PROVE  BufferInv'
  <2>1. Drains /\ n' \in Int
    BY <1>1 DEF Drains, TypeInv, ConnTypeOK
  <2>2. \A w \in Messages : Contents(w)'
    BY <1>1, <2>1, ContentsSame DEF BufferInv
  <2>3. \A g \in Goroutines : stepOf'[g] = "send" => stepOf[g] = "send" /\ k'[g] = k[g]
    BY <1>1 DEF Goroutines, Closer
  <2> QED BY <1>1, <2>1, <2>2, <2>3, BufferSame
<1>2. CASE CloseBegin \/ CloseSocket
  <2>1. /\ UNCHANGED <<n, err, left, k, buf>>
        /\ \E t \in {"flush", "done"} : stepOf' = [stepOf EXCEPT ![Closer] = t]
    BY <1>2 DEF CloseBegin, CloseSocket, GoesOn
  <2>2. stepOf'[Closer] # "send" /\ \A w \in Messages : stepOf'[w] = stepOf[w]
    BY <2>1, CloserMoves
  <2> QED BY <1>1, <2>1, <2>2
<1>3. CASE ReadMessage \/ UNCHANGED connVars
  <2>1. UNCHANGED <<n, err, left, k, buf, stepOf>>
    BY <1>3 DEF ReadMessage, ReadLength, ReadPayload, connVars
  <2> QED BY <1>1, <2>1
<1> QED BY <1>2, <1>3, BufferWrite, BufferFlush DEF ConnNext


-----------------------------------------------------------------------------
(* The order of messages.                                                  *)

LEMMA LeFacts ==
    ASSUME TypeInv
    PROVE  /\ \A a, b : Le(a, b) => Le(a, a) /\ Le(b, b)
           /\ \A a, b : Le(a, a) /\ order # <<>> /\ b = order[Len(order)] => Le(a, b)
<1>1. Len(order) \in Nat /\ (order # <<>> => Len(order) >= 1)
  BY EmptySeq DEF TypeInv, ConnTypeOK
<1>2. ASSUME NEW a, NEW b, Le(a, b)
      PROVE  Le(a, a) /\ Le(b, b)
  BY <1>1, <1>2 DEF Le
<1>3. ASSUME NEW a, NEW b, Le(a, a), order # <<>>, b = order[Len(order)]
      PROVE  Le(a, b)
  <2>1. PICK i \in 1 .. Len(order) : order[i] = a
    BY <1>3 DEF Le
  <2>2. Len(order) \in 1 .. Len(order) /\ i <= Len(order)
    BY <1>1, <1>3
  <2> QED BY <1>3, <2>1, <2>2 DEF Le
<1> QED BY <1>2, <1>3

\* The order is only added to.
LEMMA LeKeeps ==
    ASSUME TypeInv, [ConnNext]_connVars
    PROVE  \A a, b : Le(a, b) => Le(a, b)'
<1>1. order' = order \/ \E m \in Messages : order' = Append(order, m)
  <2>1. ASSUME NEW m \in Messages, WriteMessage(m)
        PROVE  order' = order \/ order' = Append(order, m)
    BY <2>1 DEF WriteMessage, WriteBegin, WriteLock, WriteCopy, WriteDirect, WriteError, WriteAdd, WriteUnlock
  <2>2. ASSUME NEW g \in Goroutines, Flush(g)
        PROVE  order' = order
    BY <2>2 DEF Flush, FlushBegin, FlushSend, FlushReset
  <2>3. CASE CloseBegin \/ CloseSocket \/ ReadMessage \/ UNCHANGED connVars
    BY <2>3 DEF CloseBegin, CloseSocket, ReadMessage, ReadLength, ReadPayload, connVars
  <2> QED BY <2>1, <2>2, <2>3 DEF ConnNext
<1>2. order \in Seq(Messages) /\ Len(order) \in Nat
  BY DEF TypeInv, ConnTypeOK
<1>3. /\ \A i \in 1 .. Len(order) : i \in 1 .. Len(order') /\ order'[i] = order[i]
  BY <1>1, <1>2
<1> QED BY <1>3 DEF Le

\* The conjuncts of Sorted.
SortedGot == \A i, j \in 1 .. Len(got) : i <= j => Le(got[i], got[j])

SortedFrame == frame # Nothing => Le(frame, frame) /\ ReadBefore(frame)

SortedStream ==
    \A x \in 1 .. Len(stream) : \A a \in Messages : stream[x] = Length(a) =>
        /\ Le(a, a) /\ ReadBefore(a)
        /\ \A y \in x .. Len(stream) : \A b \in Messages : stream[y] = Length(b) => Le(a, b)

SortedBuffer ==
    \A b \in Messages : buf[1] = Length(b) =>
        /\ Le(b, b) /\ ReadBefore(b)
        /\ \A x \in 1 .. Len(stream) : \A a \in Messages : stream[x] = Length(a) => Le(a, b)

LEMMA SortedParts == Sorted <=> SortedGot /\ SortedFrame /\ SortedStream /\ SortedBuffer
BY DEF Sorted, SortedGot, SortedFrame, SortedStream, SortedBuffer

LEMMA SortedPartsNext == Sorted' <=> (SortedGot /\ SortedFrame /\ SortedStream /\ SortedBuffer)'
BY DEF Sorted, SortedGot, SortedFrame, SortedStream, SortedBuffer, ReadBefore, Le, Length

LEMMA ReadBeforeKeeps ==
    ASSUME TypeInv, [ConnNext]_connVars, got' = got, frame' = frame
    PROVE  \A b : ReadBefore(b) => ReadBefore(b)'
BY LeKeeps DEF ReadBefore

\* Nothing but the order has changed, of what Sorted speaks of.
LEMMA SortedSame ==
    ASSUME TypeInv, [ConnNext]_connVars, Sorted, got' = got, frame' = frame, stream' = stream,
           \A b \in Messages : buf'[1] = Length(b) => buf[1] = Length(b)
    PROVE  Sorted'
<1>1. \A a, b : Le(a, b) => Le(a, b)'
  BY LeKeeps
<1>2. \A b : ReadBefore(b) => ReadBefore(b)'
  BY ReadBeforeKeeps
<1>3. \A b \in Messages : Length(b)' = Length(b)
  BY DEF Length
<1>4. SortedGot'
  BY <1>1, SortedParts DEF SortedGot
<1>5. SortedFrame'
  BY <1>1, <1>2, SortedParts DEF SortedFrame
<1>6. SortedStream'
  BY <1>1, <1>2, <1>3, SortedParts DEF SortedStream
<1>7. SortedBuffer'
  BY <1>1, <1>2, <1>3, SortedParts DEF SortedBuffer
<1> QED BY <1>4, <1>5, <1>6, <1>7, SortedPartsNext

\* The parts that come to the stream have no length but that in the buffer.
LEMMA SortedGrows ==
    ASSUME TypeInv, [ConnNext]_connVars, Sorted, got' = got, frame' = frame, buf' = buf,
           NEW f, NEW i, Grows(f, i),
           \A j \in 1 .. i : \A b \in Messages : f[j] = Length(b) => j = 1 /\ buf[1] = Length(b)
    PROVE  Sorted'
<1>1. \A a, b : Le(a, b) => Le(a, b)'
  BY LeKeeps
<1>2. \A b : ReadBefore(b) => ReadBefore(b)'
  BY ReadBeforeKeeps
<1>3. \A b \in Messages : Length(b)' = Length(b)
  BY DEF Length
<1>4. SortedGot'
  BY <1>1, SortedParts DEF SortedGot
<1>5. SortedFrame'
  BY <1>1, <1>2, SortedParts DEF SortedFrame
<1>6. Len(stream) \in Nat /\ i \in Nat /\ Len(stream') = Len(stream) + i
  BY DEF TypeInv, ConnTypeOK, Grows
<1>7. ASSUME NEW x \in 1 .. Len(stream'), NEW b \in Messages, stream'[x] = Length(b)
      PROVE  \/ x \in 1 .. Len(stream) /\ stream[x] = Length(b)
             \/ x = Len(stream) + 1 /\ buf[1] = Length(b)
  <2>1. CASE x \in 1 .. Len(stream)
    BY <1>7, <2>1 DEF Grows
  <2>2. CASE x \notin 1 .. Len(stream)
    <3>1. x - Len(stream) \in 1 .. i /\ Len(stream) + (x - Len(stream)) = x
      BY <1>6, <2>2
    <3>2. f[x - Len(stream)] = Length(b)
      BY <1>7, <3>1 DEF Grows
    <3>3. x - Len(stream) = 1 /\ buf[1] = Length(b)
      BY <3>1, <3>2
    <3> QED BY <1>6, <3>1, <3>3
  <2> QED BY <2>1, <2>2
<1>8. ASSUME NEW x \in 1 .. Len(stream'), NEW a \in Messages, stream'[x] = Length(a)
      PROVE  Le(a, a) /\ ReadBefore(a)
  BY <1>7, <1>8, SortedParts DEF SortedStream, SortedBuffer
<1>9. ASSUME NEW x \in 1 .. Len(stream'), NEW a \in Messages, stream'[x] = Length(a),
             NEW y \in x .. Len(stream'), NEW b \in Messages, stream'[y] = Length(b)
      PROVE  Le(a, b)
  <2>1. y \in 1 .. Len(stream') /\ x <= y
    BY <1>6
  <2>2. CASE y \in 1 .. Len(stream) /\ stream[y] = Length(b)
    <3>1. x \in 1 .. Len(stream) /\ y \in x .. Len(stream)
      BY <1>6, <2>1, <2>2
    <3>2. stream[x] = Length(a)
      BY <1>9, <3>1 DEF Grows
    <3> QED BY <2>2, <3>1, <3>2, SortedParts DEF SortedStream
  <2>3. CASE y = Len(stream) + 1 /\ buf[1] = Length(b)
    <3>1. CASE x \in 1 .. Len(stream) /\ stream[x] = Length(a)
      BY <2>3, <3>1, SortedParts DEF SortedBuffer
    <3>2. CASE x = Len(stream) + 1 /\ buf[1] = Length(a)
      <4>1. a = b
        BY <2>3, <3>2 DEF Length
      <4> QED BY <3>2, <4>1, SortedParts DEF SortedBuffer
    <3> QED BY <1>7, <1>9, <3>1, <3>2
  <2> QED BY <1>7, <1>9, <2>1, <2>2, <2>3
<1>10. SortedStream'
  BY <1>1, <1>2, <1>3, <1>8, <1>9 DEF SortedStream
<1>11. ASSUME NEW b \in Messages, buf'[1] = Length(b)
       PROVE  /\ Le(b, b) /\ ReadBefore(b)
              /\ \A x \in 1 .. Len(stream') : \A a \in Messages : stream'[x] = Length(a) => Le(a, b)
  <2>1. Le(b, b) /\ ReadBefore(b)
    BY <1>11, SortedParts DEF SortedBuffer
  <2>2. ASSUME NEW x \in 1 .. Len(stream'), NEW a \in Messages, stream'[x] = Length(a)
        PROVE  Le(a, b)
    <3>1. CASE x \in 1 .. Len(stream) /\ stream[x] = Length(a)
      BY <1>11, <3>1, SortedParts DEF SortedBuffer
    <3>2. CASE buf[1] = Length(a)
      <4>1. a = b
        BY <1>11, <3>2 DEF Length
      <4> QED BY <2>1, <4>1
    <3> QED BY <1>7, <2>2, <3>1, <3>2
  <2> QED BY <2>1, <2>2
<1>12. SortedBuffer'
  BY <1>1, <1>2, <1>3, <1>11 DEF SortedBuffer
<1> QED BY <1>4, <1>5, <1>10, <1>12, SortedPartsNext

\* The reader has taken the first i parts.
Taken(i) ==
    /\ i \in Nat /\ i <= Len(stream)
    /\ Len(stream') = Len(stream) - i
    /\ \A x \in 1 .. Len(stream') : stream'[x] = stream[x + i]

LEMMA TakenFacts ==
    ASSUME TypeInv
    PROVE  /\ ReadLength => Taken(1)
           /\ ReadPayload => Taken(SizeOf[frame]) /\ frame \in Messages
<1>1. stream \in Seq(Parts) /\ Len(stream) \in Nat
  BY DEF TypeInv, ConnTypeOK
<1>2. ASSUME ReadLength
      PROVE  Taken(1)
  BY <1>1, <1>2, TailFacts DEF ReadLength, Taken
<1>3. ASSUME ReadPayload
      PROVE  Taken(SizeOf[frame]) /\ frame \in Messages
  <2>1. /\ frame \in Messages /\ SizeOf[frame] \in 0 .. Len(stream)
        /\ stream' = SubSeq(stream, SizeOf[frame] + 1, Len(stream))
    BY <1>1, <1>3, ConstantFacts DEF TypeInv, ConnTypeOK, ReadPayload, CanRead
  <2> QED BY <1>1, <2>1, RemainderFacts DEF Taken
<1> QED BY <1>2, <1>3

LEMMA SortedReads ==
    ASSUME TypeInv, Sorted, ReadMessage
    PROVE  Sorted'
<1>1. /\ order' = order /\ buf' = buf /\ got \in Seq(Messages) /\ Len(got) \in Nat
      /\ \A a, b : Le(a, b) => Le(a, b)'
      /\ \A b \in Messages : Length(b)' = Length(b)
      /\ SortedGot /\ SortedFrame /\ SortedStream /\ SortedBuffer
      /\ \A i \in 1 .. Len(got) : got[i] \in Messages
      /\ Len(stream) \in Nat
  BY SortedParts DEF Le, Length, TypeInv, ConnTypeOK, ReadMessage, ReadLength, ReadPayload
<1>2. PICK i \in Nat : Taken(i)
  BY TakenFacts, ConstantFacts DEF ReadMessage
\* What can have been read now: what had been, and what the reader is at.
<1>3. /\ got' \in Seq(Messages) /\ Len(got') \in Nat
      /\ got' = got \/ (frame # Nothing /\ got' = Append(got, frame) /\ frame' = Nothing)
      /\ \/ frame' = frame
         \/ frame' = Nothing
         \/ \E a \in Messages : frame = Nothing /\ i >= 1 /\ stream # <<>> /\ stream[1] = Length(a) /\ frame' = a /\ got' = got
  <2>1. CASE ReadLength
    <3>1. Taken(1) /\ stream # <<>> /\ stream \in Seq(Parts)
      BY <2>1, TakenFacts DEF ReadLength, TypeInv, ConnTypeOK
    <3>2. i >= 1
      BY <1>1, <1>2, <3>1 DEF Taken
    <3> QED BY <1>1, <2>1, <3>1, <3>2, TailFacts DEF ReadLength
  <2>2. CASE ReadPayload
    <3>1. frame \in Messages
      BY <2>2, TakenFacts
    <3> QED BY <1>1, <2>2, <3>1 DEF ReadPayload
  <2> QED BY <2>1, <2>2 DEF ReadMessage
<1>4. ASSUME NEW b, ReadBefore(b)
      PROVE  \A j \in 1 .. Len(got') : Le(got'[j], b)
  BY <1>1, <1>3, <1>4 DEF ReadBefore
<1>5. SortedGot'
  <2>1. CASE got' = got
    BY <1>1, <2>1 DEF SortedGot
  <2>2. CASE frame # Nothing /\ got' = Append(got, frame)
    <3>1. /\ Len(got') = Len(got) + 1 /\ got'[Len(got) + 1] = frame
          /\ \A j \in 1 .. Len(got) : got'[j] = got[j]
      BY <1>1, <1>3, <2>2
    <3>2. Le(frame, frame) /\ \A j \in 1 .. Len(got) : Le(got[j], frame)
      BY <1>1, <2>2 DEF SortedFrame, ReadBefore
    <3>3. \A j, l \in 1 .. Len(got') : j <= l => Le(got'[j], got'[l])
      BY <1>1, <3>1, <3>2 DEF SortedGot
    <3> QED BY <1>1, <3>3 DEF SortedGot
  <2> QED BY <1>3, <2>1, <2>2
<1>6. ASSUME NEW b, ReadBefore(b), frame' # Nothing => Le(frame', b)
      PROVE  ReadBefore(b)'
  BY <1>1, <1>4, <1>6 DEF ReadBefore
<1>7. SortedFrame'
  <2>1. CASE frame' = frame
    BY <1>1, <1>6, <2>1 DEF SortedFrame
  <2>2. CASE frame' = Nothing
    BY <2>2 DEF SortedFrame
  <2>3. ASSUME NEW a \in Messages, stream # <<>>, stream[1] = Length(a), frame' = a
        PROVE  SortedFrame'
    <3>1. 1 \in 1 .. Len(stream)
      BY <1>1, <2>3, EmptySeq DEF TypeInv, ConnTypeOK
    <3>2. Le(a, a) /\ ReadBefore(a)
      BY <1>1, <2>3, <3>1 DEF SortedStream
    <3> QED BY <1>1, <1>6, <2>3, <3>2 DEF SortedFrame
  <2> QED BY <1>3, <2>1, <2>2, <2>3
<1>8. \A x \in 1 .. Len(stream') : x + i \in 1 .. Len(stream) /\ stream'[x] = stream[x + i]
  BY <1>1, <1>2 DEF Taken
<1>9. ASSUME NEW x \in 1 .. Len(stream'), NEW b \in Messages, stream'[x] = Length(b)
      PROVE  Le(b, b) /\ ReadBefore(b)'
  <2>1. Le(b, b) /\ ReadBefore(b)
    BY <1>1, <1>8, <1>9 DEF SortedStream
  <2>2. frame' # Nothing => Le(frame', b)
    <3>1. CASE frame' = frame
      BY <2>1, <3>1 DEF ReadBefore
    <3>2. ASSUME NEW a \in Messages, i >= 1, stream # <<>>, stream[1] = Length(a), frame' = a
          PROVE  Le(frame', b)
      <4>1. 1 \in 1 .. Len(stream) /\ x + i \in 1 .. Len(stream) /\ stream[x + i] = Length(b)
        BY <1>1, <1>8, <1>9, <3>2, EmptySeq DEF TypeInv, ConnTypeOK
      <4>2. x + i \in 1 .. Len(stream)
        BY <4>1
      <4> QED BY <1>1, <3>2, <4>1, <4>2 DEF SortedStream
    <3> QED BY <1>3, <3>1, <3>2
  <2> QED BY <1>6, <2>1, <2>2
<1>10. ASSUME NEW x \in 1 .. Len(stream'), NEW a \in Messages, stream'[x] = Length(a),
              NEW y \in x .. Len(stream'), NEW b \in Messages, stream'[y] = Length(b)
       PROVE  Le(a, b)
  <2>1. y \in 1 .. Len(stream') /\ y + i \in x + i .. Len(stream)
    BY <1>1, <1>2 DEF Taken
  <2> QED BY <1>1, <1>8, <1>10, <2>1 DEF SortedStream
<1>11. SortedStream'
  BY <1>1, <1>9, <1>10 DEF SortedStream
<1>12. ASSUME NEW b \in Messages, buf[1] = Length(b)
       PROVE  /\ Le(b, b) /\ ReadBefore(b)'
              /\ \A x \in 1 .. Len(stream') : \A a \in Messages : stream'[x] = Length(a) => Le(a, b)
  <2>1. Le(b, b) /\ ReadBefore(b)
    BY <1>1, <1>12 DEF SortedBuffer
  <2>2. frame' # Nothing => Le(frame', b)
    <3>1. CASE frame' = frame
      BY <2>1, <3>1 DEF ReadBefore
    <3>2. ASSUME NEW a \in Messages, stream # <<>>, stream[1] = Length(a), frame' = a
          PROVE  Le(frame', b)
      <4>1. 1 \in 1 .. Len(stream)
        BY <1>1, <3>2, EmptySeq DEF TypeInv, ConnTypeOK
      <4> QED BY <1>1, <1>12, <3>2, <4>1 DEF SortedBuffer
    <3> QED BY <1>3, <3>1, <3>2
  <2>3. \A x \in 1 .. Len(stream') : \A a \in Messages : stream'[x] = Length(a) => Le(a, b)
    BY <1>1, <1>8, <1>12 DEF SortedBuffer
  <2> QED BY <1>6, <2>1, <2>2, <2>3
<1>13. SortedBuffer'
  BY <1>1, <1>12 DEF SortedBuffer
<1> QED BY <1>5, <1>7, <1>11, <1>13, SortedPartsNext


LEMMA SortedWriteCopy ==
    ASSUME TypeInv, MutexInv, SliceInv, CountInv, Sorted, NEW m \in Messages, WriteCopy(m)
    PROVE  Sorted'
<1>1. PICK c \in Nat :
          /\ c >= 1 /\ c <= Len(left[m]) /\ n + c <= BufferSize /\ n >= 0 /\ n \in Int
          /\ k'[m] = c /\ stepOf[m] = "put" /\ stepOf'[m] = "add" /\ ~err
          /\ \A j \in 1 .. c : buf'[n + j] = left[m][j]
          /\ \A j \in 1 .. BufferSize : j \notin n + 1 .. n + c => buf'[j] = buf[j]
          /\ left[m] = <<Length(m)>> => n = 0 /\ c = 1
          /\ left[m] # Payload(m) => n = 0
  BY CopyFacts
<1>2. /\ got' = got /\ frame' = frame /\ stream' = stream /\ order' = order
      /\ BufferSize \in Nat /\ BufferSize >= 2
  BY ConstantFacts DEF WriteCopy, reader
<1>3. [ConnNext]_connVars
  BY DEF ConnNext, WriteMessage
<1>4. CASE n # 0
  <2>1. buf'[1] = buf[1]
    BY <1>1, <1>2, <1>4
  <2> QED BY <1>2, <1>3, <2>1, SortedSame
<1>5. CASE n = 0 /\ left[m] # <<Length(m)>>
  <2>1. buf'[1] = left[m][1] /\ 1 \in 1 .. Len(left[m])
    BY <1>1, <1>5 DEF TypeInv, ConnTypeOK
  <2>2. \A b \in Messages : buf'[1] # Length(b)
    BY <1>5, <2>1, RestFacts
  <2> QED BY <1>2, <1>3, <2>2, SortedSame
<1>6. CASE n = 0 /\ left[m] = <<Length(m)>>
  <2>1. buf'[1] = Length(m)
    BY <1>1, <1>6, PayloadFacts
  <2>2. order # <<>> /\ m = order[Len(order)]
    BY <1>1, ConstantFacts DEF MutexInv, Holding
  <2>3. \A a : Le(a, a) => Le(a, m)
    BY <2>2, LeFacts
  <2>4. Le(m, m)
    <3>1. Len(order) \in 1 .. Len(order)
      BY <2>2, EmptySeq DEF TypeInv, ConnTypeOK
    <3> QED BY <2>2, <3>1 DEF Le
  <2>5. /\ SortedGot /\ SortedFrame /\ SortedStream
        /\ Len(got) \in Nat
    BY SortedParts DEF TypeInv, ConnTypeOK
  <2>6. ReadBefore(m)
    <3>1. \A i \in 1 .. Len(got) : Le(got[i], m)
      BY <2>3, <2>5 DEF SortedGot
    <3>2. frame # Nothing => Le(frame, m)
      BY <2>3, <2>5 DEF SortedFrame
    <3> QED BY <3>1, <3>2 DEF ReadBefore
  <2>7. \A x \in 1 .. Len(stream) : \A a \in Messages : stream[x] = Length(a) => Le(a, m)
    BY <2>3, <2>5 DEF SortedStream
  <2>8. /\ \A a, b : Le(a, b)' = Le(a, b)
        /\ \A b \in Messages : Length(b)' = Length(b)
    BY <1>2 DEF Le, Length
  <2>9. \A b : ReadBefore(b) => ReadBefore(b)'
    BY <1>2, <1>3, ReadBeforeKeeps
  <2>10. SortedGot' /\ SortedFrame' /\ SortedStream'
    BY <1>2, <2>5, <2>8, <2>9 DEF SortedGot, SortedFrame, SortedStream
  <2>11. \A b \in Messages : buf'[1] = Length(b) => b = m
    BY <2>1 DEF Length
  <2>12. SortedBuffer'
    BY <1>2, <2>4, <2>6, <2>7, <2>8, <2>9, <2>11 DEF SortedBuffer
  <2> QED BY <2>10, <2>12, SortedPartsNext
<1> QED BY <1>4, <1>5, <1>6

\* The parts that FlushSend and WriteDirect add.
LEMMA SendLengths ==
    ASSUME TypeInv, BufferInv, NEW g \in Goroutines, stepOf[g] = "send", NEW i \in 0 .. k[g],
           NEW j \in 1 .. i, NEW b \in Messages, buf[j] = Length(b)
    PROVE  j = 1 /\ buf[1] = Length(b)
<1>1. j \in 1 .. BufferSize /\ BufferSize \in Nat
  BY ConstantFacts DEF TypeInv, ConnTypeOK
<1>2. j \notin 2 .. BufferSize
  BY <1>1 DEF BufferInv
<1> QED BY <1>1, <1>2

LEMMA DirectNoLengths ==
    ASSUME TypeInv, SliceInv, NEW m \in Messages, WriteDirect(m)
    PROVE  /\ left[m] # <<Length(m)>>
           /\ \A j \in 1 .. Len(left[m]) : \A b \in Messages : left[m][j] # Length(b)
<1>1. Len(left[m]) > BufferSize
  BY DEF WriteDirect
<1>2. left[m] # <<Length(m)>>
  <2>1. SUFFICES ASSUME left[m] = <<Length(m)>>
                 PROVE  FALSE
    OBVIOUS
  <2>2. Len(left[m]) = 1
    BY <2>1, PayloadFacts
  <2>3. 1 > BufferSize
    BY <1>1, <2>2
  <2> QED BY <2>3, ConstantFacts
<1> QED BY <1>2, RestFacts

LEMMA SortedStep ==
    ASSUME TypeInv, MutexInv, SliceInv, CountInv, BufferInv, Sorted, [ConnNext]_connVars
    PROVE  Sorted'
<1>1. ASSUME UNCHANGED <<got, frame, stream, buf>>
      PROVE  Sorted'
  BY <1>1, SortedSame
<1>2. ASSUME NEW m \in Messages, WriteMessage(m)
      PROVE  Sorted'
  <2>1. CASE WriteCopy(m)
    BY <2>1, SortedWriteCopy
  <2>2. CASE WriteDirect(m)
    <3>1. PICK i \in 0 .. Len(left[m]) : Grows(left[m], i)
      BY <2>2, DirectGrows
    <3>2. \A j \in 1 .. i : \A b \in Messages : left[m][j] # Length(b)
      <4>1. left[m] \in Seq(Parts)
        BY DEF TypeInv, ConnTypeOK
      <4>2. \A j \in 1 .. i : j \in 1 .. Len(left[m])
        BY <4>1
      <4> QED BY <2>2, <4>2, DirectNoLengths
    <3>3. got' = got /\ frame' = frame /\ buf' = buf
      BY <2>2 DEF WriteDirect, reader
    <3> QED BY <3>1, <3>2, <3>3, SortedGrows
  <2>3. CASE WriteBegin(m) \/ WriteLock(m) \/ WriteError(m) \/ WriteAdd(m) \/ WriteUnlock(m)
    <3>1. UNCHANGED <<got, frame, stream, buf>>
      BY <2>3 DEF WriteBegin, WriteLock, WriteError, WriteAdd, WriteUnlock, reader
    <3> QED BY <1>1, <3>1
  <2> QED BY <1>2, <2>1, <2>2, <2>3 DEF WriteMessage
<1>3. ASSUME NEW g \in Goroutines, Flush(g)
      PROVE  Sorted'
  <2>1. CASE FlushSend(g)
    <3>1. PICK i \in 0 .. k[g] : Grows(buf, i)
      BY <2>1, SendGrows
    <3>2. stepOf[g] = "send" /\ got' = got /\ frame' = frame /\ buf' = buf
      BY <2>1 DEF FlushSend, reader
    <3>3. \A j \in 1 .. i : \A b \in Messages : buf[j] = Length(b) => j = 1 /\ buf[1] = Length(b)
      BY <3>2, SendLengths
    <3> QED BY <3>1, <3>2, <3>3, SortedGrows
  <2>2. CASE FlushBegin(g) \/ FlushReset(g)
    <3>1. UNCHANGED <<got, frame, stream, buf>>
      BY <2>2 DEF FlushBegin, FlushReset, reader
    <3> QED BY <1>1, <3>1
  <2> QED BY <1>3, <2>1, <2>2 DEF Flush
<1>4. CASE CloseBegin \/ CloseSocket \/ UNCHANGED connVars
  <2>1. UNCHANGED <<got, frame, stream, buf>>
    BY <1>4 DEF CloseBegin, CloseSocket, reader, connVars
  <2> QED BY <1>1, <2>1
<1> QED BY <1>2, <1>3, <1>4, SortedReads DEF ConnNext

-----------------------------------------------------------------------------
(* Messages come once.                                                     *)

\* The places where the length of m, or what the reader made of it, can be.
LEMMA OnceSame ==
    ASSUME got' = got, frame' = frame, stream' = stream, NEW m \in Messages
    PROVE  /\ Once(m) => Once(m)'
           /\ Absent(m) => Absent(m)'
BY DEF Once, Absent, Length

LEMMA OnceGrows ==
    ASSUME TypeInv, got' = got, frame' = frame, NEW f, NEW i, Grows(f, i), NEW m \in Messages,
           \A j \in 1 .. i : f[j] = Length(m) => j = 1
    PROVE  /\ Once(m) /\ (i >= 1 /\ f[1] = Length(m) => Absent(m)) => Once(m)'
           /\ Absent(m) /\ (i >= 1 => f[1] # Length(m)) => Absent(m)'
<1>1. Len(stream) \in Nat /\ i \in Nat /\ Len(stream') = Len(stream) + i /\ Length(m)' = Length(m)
  BY DEF TypeInv, ConnTypeOK, Grows, Length
<1>2. ASSUME NEW x \in 1 .. Len(stream'), stream'[x] = Length(m)
      PROVE  \/ x \in 1 .. Len(stream) /\ stream[x] = Length(m)
             \/ x = Len(stream) + 1 /\ i >= 1 /\ f[1] = Length(m)
  <2>1. CASE x \in 1 .. Len(stream)
    BY <1>2, <2>1 DEF Grows
  <2>2. CASE x \notin 1 .. Len(stream)
    <3>1. x - Len(stream) \in 1 .. i /\ Len(stream) + (x - Len(stream)) = x
      BY <1>1, <2>2
    <3>2. f[x - Len(stream)] = Length(m)
      BY <1>2, <3>1 DEF Grows
    <3>3. x - Len(stream) = 1
      BY <3>1, <3>2
    <3> QED BY <1>1, <3>1, <3>2, <3>3
  <2> QED BY <2>1, <2>2
<1>3. ASSUME Absent(m), i >= 1 => f[1] # Length(m)
      PROVE  Absent(m)'
  <2>1. \A x \in 1 .. Len(stream') : stream'[x] # Length(m)
    BY <1>2, <1>3 DEF Absent
  <2> QED BY <1>1, <1>3, <2>1 DEF Absent
<1>4. ASSUME Once(m), i >= 1 /\ f[1] = Length(m) => Absent(m)
      PROVE  Once(m)'
  <2>1. CASE i >= 1 /\ f[1] = Length(m)
    <3>1. \A x \in 1 .. Len(stream') : stream'[x] = Length(m) => x = Len(stream) + 1
      BY <1>2, <1>4, <2>1 DEF Absent
    <3> QED BY <1>1, <1>4, <2>1, <3>1 DEF Absent, Once
  <2>2. CASE ~(i >= 1 /\ f[1] = Length(m))
    <3>1. \A x \in 1 .. Len(stream') : stream'[x] = Length(m) => x \in 1 .. Len(stream) /\ stream[x] = Length(m)
      BY <1>2, <2>2
    <3> QED BY <1>1, <1>4, <3>1 DEF Once
  <2> QED BY <2>1, <2>2
<1> QED BY <1>3, <1>4

LEMMA OnceReads ==
    ASSUME TypeInv, ReadMessage, NEW m \in Messages
    PROVE  /\ Once(m) => Once(m)'
           /\ Absent(m) => Absent(m)'
<1>1. PICK i \in Nat : Taken(i)
  BY TakenFacts, ConstantFacts DEF ReadMessage
<1>2. /\ got \in Seq(Messages) /\ Len(got) \in Nat /\ Len(stream) \in Nat /\ stream \in Seq(Parts)
      /\ Length(m)' = Length(m) /\ m # Nothing
  BY ConstantFacts DEF TypeInv, ConnTypeOK, Length
<1>3. \A x \in 1 .. Len(stream') : x + i \in 1 .. Len(stream) /\ stream'[x] = stream[x + i]
  BY <1>1, <1>2 DEF Taken
<1>4. CASE ReadLength
  <2>1. Taken(1) /\ stream # <<>> /\ frame = Nothing /\ got' = got
    BY <1>4, TakenFacts DEF ReadLength
  <2>2. \A x \in 1 .. Len(stream') : x + 1 \in 1 .. Len(stream) /\ stream'[x] = stream[x + 1]
    BY <1>2, <2>1 DEF Taken
  <2>3. 1 \in 1 .. Len(stream)
    BY <1>2, <2>1, TailFacts
  <2>4. frame' = m => stream[1] = Length(m)
    BY <1>2, <1>4, <2>1, TailFacts DEF ReadLength
  <2>5. Absent(m) => Absent(m)'
    BY <1>2, <2>1, <2>2, <2>3, <2>4 DEF Absent
  <2>6. ASSUME Once(m)
        PROVE  Once(m)'
    <3>1. ASSUME frame' = m, NEW x \in 1 .. Len(stream')
          PROVE  stream'[x] # Length(m)
      <4>1. stream[1] = Length(m) /\ x + 1 # 1
        BY <2>4, <3>1
      <4> QED BY <2>2, <2>3, <2>6, <4>1 DEF Once
    <3>2. \A j \in 1 .. Len(got') : got'[j] = m => frame' # m /\ \A x \in 1 .. Len(stream') : stream'[x] # Length(m)
      BY <2>1, <2>2, <2>3, <2>4, <2>6 DEF Once
    <3>3. ASSUME NEW x \in 1 .. Len(stream'), NEW y \in 1 .. Len(stream'),
                 stream'[x] = Length(m), stream'[y] = Length(m)
          PROVE  x = y
      <4>1. x + 1 = y + 1
        BY <2>2, <2>6, <3>3 DEF Once
      <4> QED BY <1>2, <2>1, <4>1 DEF Taken
    <3> QED BY <1>2, <2>1, <2>6, <3>1, <3>2, <3>3 DEF Once
  <2> QED BY <2>5, <2>6
<1>5. CASE ReadPayload
  <2>1. /\ frame \in Messages /\ frame' = Nothing /\ frame # Nothing
        /\ got' = got \/ got' = Append(got, frame)
    BY <1>5, TakenFacts DEF ReadPayload
  <2>2. Absent(m) => Absent(m)'
    <3>1. ASSUME Absent(m)
          PROVE  \A j \in 1 .. Len(got') : got'[j] # m
      BY <1>2, <2>1, <3>1 DEF Absent
    <3> QED BY <1>2, <1>3, <2>1, <3>1 DEF Absent
  <2>3. ASSUME Once(m)
        PROVE  Once(m)'
    <3>1. \A x, y \in 1 .. Len(stream') : stream'[x] = Length(m) /\ stream'[y] = Length(m) => x = y
      <4>1. ASSUME NEW x \in 1 .. Len(stream'), NEW y \in 1 .. Len(stream'),
                   stream'[x] = Length(m), stream'[y] = Length(m)
            PROVE  x = y
        <5>1. x + i = y + i
          BY <1>3, <2>3, <4>1 DEF Once
        <5> QED BY <1>1, <1>2, <5>1 DEF Taken
      <4> QED BY <4>1
    <3>2. ASSUME NEW j \in 1 .. Len(got'), got'[j] = m
          PROVE  \/ j \in 1 .. Len(got) /\ got[j] = m
                 \/ j = Len(got) + 1 /\ frame = m
      BY <1>2, <2>1, <3>2
    <3>3. \A j, l \in 1 .. Len(got') : got'[j] = m /\ got'[l] = m => j = l
      BY <2>3, <3>2 DEF Once
    <3>4. \A j \in 1 .. Len(got') : got'[j] = m => \A x \in 1 .. Len(stream') : stream'[x] # Length(m)
      BY <1>3, <2>3, <3>2 DEF Once
    <3> QED BY <1>2, <2>1, <3>1, <3>3, <3>4 DEF Once
  <2> QED BY <2>2, <2>3
<1> QED BY <1>4, <1>5 DEF ReadMessage


\* A slice of the payload is not the length.
LEMMA RestIsNotLength ==
    ASSUME NEW m \in Messages, IsRest(m)
    PROVE  left[m] # <<Length(m)>>
<1>1. SUFFICES ASSUME left[m] = <<Length(m)>>
               PROVE  FALSE
  OBVIOUS
<1>2. Len(left[m]) = 1 /\ left[m][1] = Length(m) /\ SizeOf[m] \in Nat /\ SizeOf[m] >= 1
  BY <1>1, PayloadFacts, ConstantFacts
<1>3. left[m][1] = <<m, SizeOf[m]>>
  <2>1. 1 \in 1 .. Len(left[m])
    BY <1>2
  <2>2. left[m][1] = <<m, SizeOf[m] - Len(left[m]) + 1>>
    BY <2>1 DEF IsRest
  <2>3. SizeOf[m] - Len(left[m]) + 1 = SizeOf[m]
    BY <1>2
  <2> QED BY <2>2, <2>3
<1> QED BY <1>2, <1>3 DEF Length

LEMMA FlushedSlice ==
    ASSUME TypeInv, SliceInv, NEW m \in Messages, stepOf[m] \in {"flush", "send", "reset"}
    PROVE  left[m] # <<Length(m)>> /\ left[m] # Payload(m)
<1>1. IsRest(m) /\ Len(left[m]) < SizeOf[m]
  BY DEF SliceInv, Slices
<1>2. Len(Payload(m)) = SizeOf[m] /\ SizeOf[m] \in Nat
  BY PayloadFacts, ConstantFacts
<1> QED BY <1>1, <1>2, RestIsNotLength

\* What a flush leaves is sent, unless it only begins.
LEMMA UnsentFlush ==
    ASSUME TypeInv, SliceInv, NEW m \in Messages, Flush(m), Unsent(m)'
    PROVE  Unsent(m) /\ FlushBegin(m)
<1>1. FlushMoves(m) /\ left' = left /\ buf' = buf /\ m \in Goroutines
  BY FlushMovesFact DEF Flush, FlushBegin, FlushSend, FlushReset, Goroutines
<1>2. left[m] # <<Length(m)>> /\ left[m] # Payload(m)
  BY <1>1, FlushedSlice DEF FlushMoves
<1>3. Length(m)' = Length(m) /\ Payload(m)' = Payload(m)
  BY DEF Length, Payload
<1>4. stepOf'[m] \in {"put", "send", "reset", "unlock"}
  BY <1>1 DEF FlushMoves
<1>5. stepOf'[m] = "send" /\ buf[1] = Length(m)
  BY <1>1, <1>2, <1>3, <1>4 DEF Unsent
<1>6. CASE FlushBegin(m)
  <2>1. CASE GoesOn(m, "flush", AfterFlush(m))
    BY <1>1, <1>5, <2>1, GotoFacts, AfterFlushFacts
  <2>2. CASE n > 0
    BY <1>5, <1>6, <2>2 DEF FlushBegin, GoesOn, Unsent
  <2> QED BY <1>6, <2>1, <2>2 DEF FlushBegin
<1>7. CASE FlushSend(m) \/ FlushReset(m)
  <2>1. GoesOn(m, "send", "reset") \/ GoesOn(m, "send", AfterFlush(m)) \/ GoesOn(m, "reset", AfterFlush(m))
    BY <1>7 DEF FlushSend, FlushReset
  <2> QED BY <1>1, <1>5, <2>1, GotoFacts, AfterFlushFacts
<1> QED BY <1>6, <1>7 DEF Flush

\* What a step of another leaves to m's writer.
LEMMA UnsentOther ==
    ASSUME TypeInv, NEW m \in Messages, Unsent(m)', left'[m] = left[m], stepOf'[m] = stepOf[m],
           stepOf[m] \in Holding => buf' = buf /\ (n' > 0 => n > 0)
    PROVE  Unsent(m)
<1>1. Length(m)' = Length(m) /\ Payload(m)' = Payload(m)
  BY DEF Length, Payload
<1>2. CASE stepOf'[m] \in {"idle", "lock"} \/ (left'[m] = <<Length(m)>> /\ stepOf'[m] \in {"put", "add"})
  BY <1>2 DEF Unsent
<1>3. CASE /\ buf'[1] = Length(m)
           /\ \/ stepOf'[m] \in {"put", "add"} /\ left'[m] = Payload(m)
              \/ stepOf'[m] = "flush" /\ n' > 0
              \/ stepOf'[m] = "send"
  <2>1. stepOf[m] \in Holding
    BY <1>3 DEF Holding
  <2> QED BY <1>3, <2>1 DEF Unsent
<1> QED BY <1>1, <1>2, <1>3 DEF Unsent

LEMMA UnsentWrite ==
    ASSUME TypeInv, MutexInv, SliceInv, CountInv, BufferInv, NEW m \in Messages, WriteMessage(m),
           Unsent(m)'
    PROVE  Unsent(m)
<1>1. /\ Length(m)' = Length(m) /\ Payload(m)' = Payload(m) /\ DOMAIN left = Messages
      /\ left[m] \in Seq(Parts) /\ n \in Int
  BY DEF Length, Payload, TypeInv, ConnTypeOK
<1>2. CASE WriteBegin(m) \/ WriteLock(m)
  BY <1>2 DEF WriteBegin, WriteLock, GoesOn, Unsent
<1>3. CASE WriteCopy(m)
  <2>1. PICK c \in Nat :
            /\ c >= 1 /\ c <= Len(left[m]) /\ n + c <= BufferSize /\ n >= 0 /\ n \in Int
            /\ k'[m] = c /\ stepOf[m] = "put" /\ stepOf'[m] = "add" /\ ~err
            /\ \A j \in 1 .. c : buf'[n + j] = left[m][j]
            /\ \A j \in 1 .. BufferSize : j \notin n + 1 .. n + c => buf'[j] = buf[j]
            /\ left[m] = <<Length(m)>> => n = 0 /\ c = 1
            /\ left[m] # Payload(m) => n = 0
    BY <1>3, CopyFacts
  <2>2. left' = left
    BY <1>3 DEF WriteCopy
  <2>3. CASE left[m] = <<Length(m)>>
    BY <2>1, <2>3 DEF Unsent
  <2>4. CASE left[m] # <<Length(m)>>
    <3>1. buf'[1] = Length(m) /\ left[m] = Payload(m)
      BY <1>1, <2>1, <2>2, <2>4 DEF Unsent
    <3>2. n # 0
      <4>1. SUFFICES ASSUME n = 0
                     PROVE  FALSE
        OBVIOUS
      <4>2. buf'[1] = left[m][1] /\ 1 \in 1 .. Len(left[m])
        BY <1>1, <2>1, <4>1
      <4> QED BY <2>4, <3>1, <4>2, RestFacts
    <3>3. buf'[1] = buf[1]
      BY <2>1, <3>2, ConstantFacts
    <3> QED BY <2>1, <3>1, <3>3 DEF Unsent
  <2> QED BY <2>3, <2>4
<1>4. CASE WriteDirect(m) \/ WriteError(m)
  <2>1. /\ n' = n
        /\ \/ stepOf' = [stepOf EXCEPT ![m] = "flush"] /\ n = 0
           \/ stepOf' = [stepOf EXCEPT ![m] = "unlock"]
    BY <1>4 DEF WriteDirect, WriteError, GoesOn
  <2>2. (stepOf'[m] = "flush" /\ n' = 0) \/ stepOf'[m] = "unlock"
    BY <2>1, WriterMoves
  <2> QED BY <1>1, <2>2 DEF Unsent
<1>5. CASE WriteAdd(m)
  <2>1. stepOf[m] = "add" /\ buf' = buf
    BY <1>5 DEF WriteAdd, GoesOn
  <2>2. CASE left[m] = <<Length(m)>>
    BY <2>1, <2>2 DEF Unsent
  <2>3. CASE left[m] # <<Length(m)>>
    <3>1. stepOf'[m] = "flush"
      BY <1>5, <2>3, WriterMoves DEF WriteAdd, GoesOn
    <3>2. buf[1] = Length(m)
      BY <1>1, <2>1, <3>1 DEF Unsent
    <3>3. left[m] = Payload(m)
      BY <2>1, <2>3, <3>2 DEF BufferInv, Contents
    <3> QED BY <2>1, <3>2, <3>3 DEF Unsent
  <2> QED BY <2>2, <2>3
<1>6. CASE WriteUnlock(m)
  <2>1. stepOf'[m] = "done"
    BY <1>6, WriterMoves DEF WriteUnlock, GoesOn
  <2> QED BY <2>1 DEF Unsent
<1> QED BY <1>2, <1>3, <1>4, <1>5, <1>6 DEF WriteMessage

LEMMA UnsentBack ==
    ASSUME TypeInv, MutexInv, SliceInv, CountInv, BufferInv, [ConnNext]_connVars, NEW m \in Messages,
           Unsent(m)'
    PROVE  Unsent(m)
<1>1. ASSUME NEW w \in Messages, WriteMessage(w), w # m
      PROVE  Unsent(m)
  <2>1. left'[m] = left[m] /\ stepOf'[m] = stepOf[m]
    BY <1>1, WriteApart DEF Apart
  <2>2. ASSUME stepOf[m] \in Holding
        PROVE  buf' = buf /\ n' = n
    <3>1. stepOf[w] \notin Holding
      BY <1>1, <2>2, OneHolder
    <3> QED BY <1>1, <3>1 DEF WriteMessage, WriteBegin, WriteLock, WriteCopy, WriteDirect, WriteError, WriteAdd,
               WriteUnlock, GoesOn, Holding
  <2> QED BY <2>1, <2>2, UnsentOther
<1>2. ASSUME NEW g \in Goroutines, Flush(g), g # m
      PROVE  Unsent(m)
  <2>0. FlushMoves(g)
    BY <1>2, FlushMovesFact
  <2>1. buf' = buf /\ left' = left /\ stepOf'[m] = stepOf[m]
    BY <1>2, <2>0 DEF FlushMoves, Flush, FlushBegin, FlushSend, FlushReset
  <2>2. n' > 0 => n > 0
    <3>1. Drains /\ n' \in Int
      BY <1>2, FlushDrains
    <3>2. n \in Int
      BY DEF TypeInv, ConnTypeOK
    <3> QED BY <3>1, <3>2 DEF Drains
  <2> QED BY <2>1, <2>2, UnsentOther
<1>3. CASE CloseBegin \/ CloseSocket
  <2>1. /\ UNCHANGED <<n, left, buf>>
        /\ \E t \in {"flush", "done"} : stepOf' = [stepOf EXCEPT ![Closer] = t]
    BY <1>3 DEF CloseBegin, CloseSocket, GoesOn
  <2>2. \A w \in Messages : stepOf'[w] = stepOf[w]
    BY <2>1, CloserMoves
  <2> QED BY <2>1, <2>2, UnsentOther
<1>4. CASE ReadMessage \/ UNCHANGED connVars
  <2>1. UNCHANGED <<n, left, buf, stepOf>>
    BY <1>4 DEF ReadMessage, ReadLength, ReadPayload, connVars
  <2> QED BY <2>1, UnsentOther
<1> QED BY <1>1, <1>2, <1>3, <1>4, UnsentWrite, UnsentFlush DEF ConnNext


\* Only the Flush of Close can send the length of a message again.
LEMMA SingleKeeps ==
    ASSUME TypeInv, MutexInv, SliceInv, CountInv, BufferInv, [ConnNext]_connVars, NEW m \in Messages,
           Single(m),
           FlushSend(Closer) => buf[1] # Length(m)
    PROVE  Single(m)'
<1>1. ASSUME Absent(m)', Once(m)'
      PROVE  Single(m)'
  BY <1>1 DEF Single
<1>2. ASSUME UNCHANGED <<got, frame, stream>>
      PROVE  Single(m)'
  <2>1. Unsent(m)' => Absent(m)'
    BY <1>2, UnsentBack, OnceSame DEF Single
  <2> QED BY <1>2, <2>1, OnceSame DEF Single
<1>3. ASSUME NEW w \in Messages, WriteDirect(w)
      PROVE  Single(m)'
  <2>1. PICK i \in 0 .. Len(left[w]) : Grows(left[w], i)
    BY <1>3, DirectGrows
  <2>2. \A j \in 1 .. i : left[w][j] # Length(m)
    <3>1. left[w] \in Seq(Parts)
      BY DEF TypeInv, ConnTypeOK
    <3>2. \A j \in 1 .. i : j \in 1 .. Len(left[w])
      BY <3>1
    <3> QED BY <1>3, <3>2, DirectNoLengths
  <2>3. got' = got /\ frame' = frame
    BY <1>3 DEF WriteDirect, reader
  <2>4. i >= 1 => left[w][1] # Length(m)
    BY <2>2
  <2>5. (Once(m) => Once(m)') /\ (Absent(m) => Absent(m)')
    BY <2>1, <2>2, <2>3, <2>4, OnceGrows
  <2> QED BY <2>5, UnsentBack DEF Single
<1>4. ASSUME NEW g \in Goroutines, FlushSend(g)
      PROVE  Single(m)'
  <2>1. PICK i \in 0 .. k[g] : Grows(buf, i)
    BY <1>4, SendGrows
  <2>2. stepOf[g] = "send" /\ got' = got /\ frame' = frame
    BY <1>4 DEF FlushSend, reader
  <2>3. \A j \in 1 .. i : buf[j] = Length(m) => j = 1
    BY <2>2, SendLengths
  <2>4. CASE buf[1] = Length(m)
    <3>1. g \in Messages
      BY <1>4, <2>4 DEF Goroutines, Closer
    <3>2. g = m
      BY <2>2, <2>4, <3>1 DEF BufferInv, Contents, Head1
    <3>3. Unsent(m)
      BY <2>2, <2>4, <3>2 DEF Unsent
    <3>4. Absent(m) /\ Once(m)
      BY <3>3 DEF Single
    <3>5. Once(m)'
      BY <2>1, <2>2, <2>3, <3>4, OnceGrows
    <3>6. ~Unsent(m)'
      <4>1. SUFFICES ASSUME Unsent(m)'
                     PROVE  FALSE
        OBVIOUS
      <4>2. FlushBegin(m)
        BY <1>4, <3>2, <4>1, UnsentFlush DEF Flush
      <4> QED BY <2>2, <3>2, <4>2 DEF FlushBegin, GoesOn
    <3> QED BY <3>5, <3>6 DEF Single
  <2>5. CASE buf[1] # Length(m)
    <3>1. (Once(m) => Once(m)') /\ (Absent(m) => Absent(m)')
      BY <2>1, <2>2, <2>3, <2>5, OnceGrows
    <3> QED BY <3>1, UnsentBack DEF Single
  <2> QED BY <2>4, <2>5
<1>5. CASE ReadMessage
  <2>1. (Once(m) => Once(m)') /\ (Absent(m) => Absent(m)')
    BY <1>5, OnceReads
  <2> QED BY <2>1, UnsentBack DEF Single
<1>6. ASSUME NEW w \in Messages, WriteMessage(w)
      PROVE  Single(m)'
  <2>1. CASE WriteDirect(w)
    BY <1>3, <2>1
  <2>2. CASE ~WriteDirect(w)
    <3>1. UNCHANGED <<got, frame, stream>>
      BY <1>6, <2>2 DEF WriteMessage, WriteBegin, WriteLock, WriteCopy, WriteError, WriteAdd, WriteUnlock, reader
    <3> QED BY <1>2, <3>1
  <2> QED BY <2>1, <2>2
<1>7. ASSUME NEW g \in Goroutines, Flush(g)
      PROVE  Single(m)'
  <2>1. CASE FlushSend(g)
    BY <1>4, <2>1
  <2>2. CASE FlushBegin(g) \/ FlushReset(g)
    <3>1. UNCHANGED <<got, frame, stream>>
      BY <2>2 DEF FlushBegin, FlushReset, reader
    <3> QED BY <1>2, <3>1
  <2> QED BY <1>7, <2>1, <2>2 DEF Flush
<1>8. CASE CloseBegin \/ CloseSocket \/ UNCHANGED connVars
  <2>1. UNCHANGED <<got, frame, stream>>
    BY <1>8 DEF CloseBegin, CloseSocket, reader, connVars
  <2> QED BY <1>2, <2>1
<1> QED BY <1>5, <1>6, <1>7, <1>8 DEF ConnNext

\* What is sent when Close has been called stays so.
LEMMA SentKeeps ==
    ASSUME TypeInv, [ConnNext]_connVars, closed
    PROVE  sent' = sent
<1>1. ASSUME NEW m \in Messages, WriteMessage(m)
      PROVE  sent' = sent
  BY <1>1 DEF WriteMessage, WriteBegin, WriteLock, WriteCopy, WriteDirect, WriteError, WriteAdd, WriteUnlock
<1>2. ASSUME NEW g \in Goroutines, Flush(g)
      PROVE  sent' = sent
  BY <1>2 DEF Flush, FlushBegin, FlushSend, FlushReset
<1>3. CASE CloseBegin \/ CloseSocket \/ ReadMessage \/ UNCHANGED connVars
  BY <1>3 DEF CloseBegin, CloseSocket, ReadMessage, ReadLength, ReadPayload, connVars
<1> QED BY <1>1, <1>2, <1>3 DEF ConnNext

\* How the goroutine of Close moves.
LEMMA CloserStep ==
    ASSUME TypeInv, [ConnNext]_connVars
    PROVE  \/ stepOf'[Closer] = stepOf[Closer] /\ ~FlushSend(Closer)
           \/ stepOf[Closer] = "idle" /\ stepOf'[Closer] = "flush" /\ CloseBegin
           \/ stepOf[Closer] = "flush" /\ stepOf'[Closer] \in {"send", "closeSocket"} /\ FlushBegin(Closer)
           \/ stepOf[Closer] = "send" /\ stepOf'[Closer] \in {"reset", "closeSocket"} /\ FlushSend(Closer)
           \/ stepOf[Closer] \in {"reset", "closeSocket"} /\ stepOf'[Closer] \in {"closeSocket", "done"}
<1>1. Closer \in Goroutines /\ Closer \notin Messages /\ AfterFlush(Closer) = "closeSocket"
  BY ConstantFacts, AfterFlushFacts DEF Goroutines
<1>2. FlushSend(Closer) => stepOf[Closer] = "send" /\ stepOf'[Closer] \in {"reset", "closeSocket"}
  <2>1. SUFFICES ASSUME FlushSend(Closer)
                 PROVE  stepOf[Closer] = "send" /\ stepOf'[Closer] \in {"reset", "closeSocket"}
    OBVIOUS
  <2>2. GoesOn(Closer, "send", "reset") \/ GoesOn(Closer, "send", "closeSocket")
    BY <1>1, <2>1 DEF FlushSend
  <2> QED BY <1>1, <2>2, GotoFacts
<1>3. ASSUME stepOf' = stepOf \/ stepOf'[Closer] = stepOf[Closer]
      PROVE  stepOf'[Closer] = stepOf[Closer] /\ ~FlushSend(Closer)
  BY <1>2, <1>3
<1>4. ASSUME NEW m \in Messages, WriteMessage(m)
      PROVE  stepOf'[Closer] = stepOf[Closer]
  BY <1>4, WriteApart DEF Apart
<1>5. ASSUME NEW g \in Goroutines, Flush(g), g # Closer
      PROVE  stepOf'[Closer] = stepOf[Closer]
  BY <1>5, FlushMovesFact DEF FlushMoves
<1>6. CASE FlushBegin(Closer)
  <2>1. GoesOn(Closer, "flush", "send") \/ GoesOn(Closer, "flush", "closeSocket")
    BY <1>1, <1>6 DEF FlushBegin
  <2> QED BY <1>1, <1>6, <2>1, GotoFacts
<1>7. CASE FlushReset(Closer)
  <2>1. GoesOn(Closer, "reset", "closeSocket")
    BY <1>1, <1>7 DEF FlushReset
  <2> QED BY <1>1, <2>1, GotoFacts
<1>8. CASE CloseBegin
  BY <1>1, <1>8, GotoFacts DEF CloseBegin
<1>9. CASE CloseSocket
  BY <1>1, <1>9, GotoFacts DEF CloseSocket
<1>10. CASE ReadMessage \/ UNCHANGED connVars
  BY <1>3, <1>10 DEF ReadMessage, ReadLength, ReadPayload, connVars
<1> QED BY <1>2, <1>3, <1>4, <1>5, <1>6, <1>7, <1>8, <1>9, <1>10 DEF ConnNext, Flush

\* When Close finds something to flush, it is of a message that is being written.
LEMMA CloserSends ==
    ASSUME TypeInv, MutexInv, SliceInv, CountInv, BufferInv, ~err, n > 0,
           NEW w \in Messages, buf[1] = Length(w)
    PROVE  w \notin sent
<1>1. writeMu # Nothing
  BY DEF CountInv
<1>2. PICK h \in Messages : writeMu = h
  BY <1>1 DEF TypeInv, ConnTypeOK
<1>3. stepOf[h] \in Holding
  BY <1>2 DEF MutexInv
<1>4. stepOf[h] # "unlock"
  BY DEF CountInv, Filled
<1>5. Head1(h)
  BY <1>3, <1>4 DEF BufferInv, Contents, Holding
<1>6. w = h
  BY <1>5 DEF Head1
<1> QED BY <1>3, <1>6 DEF MutexInv, Holding

LEMMA RepeatStep ==
    ASSUME TypeInv, MutexInv, SliceInv, CountInv, BufferInv, RepeatInv, [ConnNext]_connVars, MutexInv'
    PROVE  RepeatInv'
<1> DEFINE early == {"idle", "flush", "send"}
<1>1. ASSUME stepOf'[Closer] \in early
      PROVE  \A m \in Messages : Single(m)'
  <2>1. stepOf[Closer] \in early /\ ~FlushSend(Closer)
    BY <1>1, CloserStep DEF FlushSend
  <2>2. \A m \in Messages : Single(m)
    BY <2>1 DEF RepeatInv
  <2> QED BY <2>1, <2>2, SingleKeeps
<1>2. \E d \in Messages \cup {Nothing} : d \notin sent' /\ \A m \in Messages \ {d} : Single(m)'
  <2>0. Nothing \notin sent /\ Nothing \notin sent'
    <3>1. Nothing \notin Messages /\ sent \subseteq Messages
      BY ConstantFacts DEF TypeInv, ConnTypeOK
    <3>2. sent' \subseteq Messages
      BY TypeStep DEF TypeInv, ConnTypeOK
    <3> QED BY <3>1, <3>2
  <2>1. CASE stepOf[Closer] \in early /\ ~FlushSend(Closer)
    <3>1. \A m \in Messages : Single(m)
      BY <2>1 DEF RepeatInv
    <3>2. \A m \in Messages : Single(m)'
      BY <2>1, <3>1, SingleKeeps
    <3> QED BY <2>0, <3>2
  <2>2. CASE FlushSend(Closer)
    <3>1. stepOf[Closer] = "send" /\ sent' = sent
      BY <2>2, SentKeeps DEF FlushSend, TypeInv
    <3>2. \A m \in Messages : Single(m)
      BY <3>1 DEF RepeatInv
    <3>3. ASSUME NEW w \in Messages, buf[1] = Length(w)
          PROVE  w \notin sent' /\ \A m \in Messages \ {w} : Single(m)'
      <4>1. w \notin sent'
        BY <3>1, <3>3 DEF RepeatInv
      <4>2. \A m \in Messages \ {w} : buf[1] # Length(m)
        BY <3>3 DEF Length
      <4> QED BY <3>2, <4>1, <4>2, SingleKeeps
    <3>4. ASSUME \A w \in Messages : buf[1] # Length(w)
          PROVE  \A m \in Messages : Single(m)'
      BY <3>2, <3>4, SingleKeeps
    <3> QED BY <2>0, <3>3, <3>4
  <2>3. CASE stepOf[Closer] \notin early
    <3>1. ~FlushSend(Closer) /\ closed
      BY <2>3 DEF FlushSend, TypeInv
    <3>2. sent' = sent
      BY <3>1, SentKeeps
    <3>3. PICK d \in Messages \cup {Nothing} : d \notin sent /\ \A m \in Messages \ {d} : Single(m)
      BY DEF RepeatInv
    <3>4. \A m \in Messages \ {d} : Single(m)'
      BY <3>1, <3>3, SingleKeeps
    <3> QED BY <3>2, <3>3, <3>4
  <2> QED BY <2>1, <2>2, <2>3
<1>3. ASSUME stepOf'[Closer] = "send", NEW w \in Messages, buf'[1] = Length(w)
      PROVE  w \notin sent'
  <2>1. closed'
    BY <1>3, TypeStep DEF TypeInv
  <2>2. CASE FlushBegin(Closer) /\ stepOf[Closer] = "flush"
    <3>1. Closer \in Goroutines /\ AfterFlush(Closer) = "closeSocket"
      BY ConstantFacts, AfterFlushFacts DEF Goroutines
    <3>2. ~GoesOn(Closer, "flush", AfterFlush(Closer))
      BY <1>3, <3>1, GotoFacts
    <3>3. ~err /\ n > 0 /\ buf' = buf
      BY <2>2, <3>2 DEF FlushBegin
    <3>4. w \notin sent
      BY <1>3, <3>3, CloserSends
    <3>5. sent' = sent
      BY <2>2 DEF FlushBegin
    <3> QED BY <3>4, <3>5
  <2>3. CASE stepOf[Closer] = "send" /\ stepOf'[Closer] = stepOf[Closer]
    <3>1. sent' = sent
      BY <2>3, SentKeeps DEF TypeInv
    <3>2. CASE buf'[1] = buf[1]
      BY <1>3, <2>3, <3>1, <3>2 DEF RepeatInv
    <3>3. ASSUME NEW m \in Messages, WriteCopy(m)
          PROVE  w \notin sent'
      <4>1. BufferInv'
        BY <3>3, BufferWriteCopy
      <4>2. stepOf'[m] = "add"
        BY <3>3, WriterMoves DEF WriteCopy
      <4>3. Head1(m)'
        BY <4>1, <4>2 DEF BufferInv, Contents
      <4>4. w = m
        BY <1>3, <4>3 DEF Head1, Length
      <4> QED BY <4>2, <4>4 DEF MutexInv
    <3>4. buf' = buf \/ \E m \in Messages : WriteCopy(m)
      <4>1. ASSUME NEW m \in Messages, WriteMessage(m)
            PROVE  buf' = buf \/ WriteCopy(m)
        BY <4>1 DEF WriteMessage, WriteBegin, WriteLock, WriteDirect, WriteError, WriteAdd, WriteUnlock
      <4>2. ASSUME NEW g \in Goroutines, Flush(g)
            PROVE  buf' = buf
        BY <4>2 DEF Flush, FlushBegin, FlushSend, FlushReset
      <4>3. CASE CloseBegin \/ CloseSocket \/ ReadMessage \/ UNCHANGED connVars
        BY <4>3 DEF CloseBegin, CloseSocket, ReadMessage, ReadLength, ReadPayload, connVars
      <4> QED BY <4>1, <4>2, <4>3 DEF ConnNext
    <3> QED BY <3>2, <3>3, <3>4
  <2> QED BY <1>3, <2>2, <2>3, CloserStep
<1>4. \A w \in Messages : Length(w)' = Length(w)
  BY DEF Length
<1>5. stepOf'[Closer] = "send" => \A w \in Messages : buf'[1] = Length(w) => w \notin sent'
  BY <1>3
<1> QED BY <1>1, <1>2, <1>4, <1>5 DEF RepeatInv


-----------------------------------------------------------------------------
(* Until Close is called.                                                  *)

\* The conjuncts of Reads.
Reading ==
    /\ ~lost
    /\ Len(got) <= Len(order)
    /\ \A i \in 1 .. Len(got) : got[i] = order[i]
    /\ frame # Nothing \/ stream # <<>> => Len(got) < Len(order)
    /\ frame # Nothing => frame = order[Len(got) + 1]
    /\ stream # <<>> => stream[1] = <<order[Len(got) + 1], IF frame = Nothing THEN 0 ELSE 1>>

Started == \A x \in 1 .. Len(stream) : stepOf[stream[x][1]] \notin {"idle", "lock"}

LEMMA ReadsParts == Reads <=> Reading /\ Started /\ Runs
BY DEF Reads, Reading, Started

LEMMA ReadsPartsNext == Reads' <=> (Reading /\ Started /\ Runs)'
BY DEF Reads, Reading, Started, Runs

LEMMA OrderFacts ==
    ASSUME TypeInv, MutexInv
    PROVE  /\ order \in Seq(Messages) /\ Len(order) \in Nat
           /\ \A p \in 1 .. Len(order) : /\ order[p] \in Messages
                                         /\ SizeOf[order[p]] \in Nat /\ SizeOf[order[p]] >= 1
           /\ \A p, q \in 1 .. Len(order) : order[p] = order[q] => p = q
           /\ order # <<>> <=> Len(order) >= 1
           /\ \A m \in Messages : writeMu = m => Len(order) \in 1 .. Len(order) /\ order[Len(order)] = m
           /\ got \in Seq(Messages) /\ Len(got) \in Nat
           /\ stream \in Seq(Parts) /\ Len(stream) \in Nat
           /\ stream = <<>> <=> Len(stream) = 0
<1>1. /\ order \in Seq(Messages) /\ Len(order) \in Nat
      /\ \A p \in 1 .. Len(order) : order[p] \in Messages
      /\ got \in Seq(Messages) /\ Len(got) \in Nat
      /\ stream \in Seq(Parts) /\ Len(stream) \in Nat
  BY DEF TypeInv, ConnTypeOK
<1>2. (order # <<>> <=> Len(order) >= 1) /\ (stream = <<>> <=> Len(stream) = 0)
  BY <1>1, EmptySeq
<1>3. \A m \in Messages : writeMu = m => Len(order) \in 1 .. Len(order) /\ order[Len(order)] = m
  BY <1>1, <1>2, ConstantFacts DEF MutexInv
<1>4. \A p \in 1 .. Len(order) : SizeOf[order[p]] \in Nat /\ SizeOf[order[p]] >= 1
  BY <1>1, ConstantFacts
<1>5. \A p, q \in 1 .. Len(order) : order[p] = order[q] => p = q
  BY DEF MutexInv
<1> QED BY <1>1, <1>2, <1>3, <1>4, <1>5

\* The stream grows by parts of the last message in order, from part b on.
GrowsFrom(m, b, i) ==
    /\ stream' \in Seq(Parts) /\ i \in Nat
    /\ Len(stream') = Len(stream) + i
    /\ \A x \in 1 .. Len(stream) : stream'[x] = stream[x]
    /\ \A x \in 1 .. Len(stream') : x > Len(stream) => stream'[x] = <<m, b + (x - Len(stream)) - 1>>

LEMMA RunsGrow ==
    ASSUME TypeInv, MutexInv, Runs, NEW m \in Messages, writeMu = m, order' = order,
           NEW b \in Nat, SentTo(b), NEW i \in Nat, GrowsFrom(m, b, i), b + i <= SizeOf[m] + 1
    PROVE  Runs'
<1> DEFINE z == Len(stream)
           p == Len(order)
<1>1. /\ p \in 1 .. Len(order) /\ order[p] = m /\ z \in Nat /\ p \in Nat
      /\ \A q \in 1 .. Len(order) : SizeOf[order[q]] \in Nat /\ SizeOf[order[q]] >= 1
      /\ \A q, r \in 1 .. Len(order) : order[q] = order[r] => q = r
      /\ SizeOf[m] \in Nat
      /\ stream = <<>> <=> z = 0
  BY OrderFacts, ConstantFacts
<1>2. /\ Len(stream') = z + i
      /\ \A x \in 1 .. z : stream'[x] = stream[x]
      /\ \A x \in 1 .. z + i : x > z => stream'[x] = <<m, b + (x - z) - 1>>
  BY DEF GrowsFrom
<1>3. z # 0 => \/ b > 0 /\ stream[z] = <<m, b - 1>>
               \/ b = 0 /\ p > 1 /\ stream[z] = <<order[p - 1], SizeOf[order[p - 1]]>>
  BY <1>1 DEF SentTo
<1> HIDE DEF z, p
<1>4. ASSUME NEW x \in 1 .. z + i, NEW q \in 1 .. Len(order), NEW a \in 0 .. SizeOf[order[q]],
             stream'[x] = <<order[q], a>>
      PROVE  /\ \A y \in x .. z + i :
                   a + (y - x) <= SizeOf[order[q]] => stream'[y] = <<order[q], a + (y - x)>>
             /\ x + (SizeOf[order[q]] - a) + 1 <= z + i =>
                   /\ q + 1 <= Len(order)
                   /\ stream'[x + (SizeOf[order[q]] - a) + 1] = <<order[q + 1], 0>>
    <2> DEFINE s == SizeOf[order[q]]
    <2>0. z \in Nat
      BY <1>1
    <2>1. s \in Nat /\ s >= 1 /\ a \in Nat /\ a <= s /\ x \in Nat /\ x >= 1
      BY <1>1
    <2>2. CASE x <= z
      <3>0. x \in 1 .. z /\ z # 0 /\ z \in x .. z
        BY <1>1, <2>1, <2>2
      <3>1. x \in 1 .. z /\ stream[x] = <<order[q], a>> /\ z # 0 /\ z \in x .. z
        BY <1>2, <1>4, <3>0
      <3>2. /\ \A y \in x .. z : a + (y - x) <= s => stream[y] = <<order[q], a + (y - x)>>
            /\ x + (s - a) + 1 <= z =>
                  /\ q + 1 <= Len(order)
                  /\ stream[x + (s - a) + 1] = <<order[q + 1], 0>>
        BY <3>1 DEF Runs, z
      <3> HIDE DEF s
      <3>3. ASSUME NEW y \in x .. z + i, a + (y - x) <= s
            PROVE  stream'[y] = <<order[q], a + (y - x)>>
        <4>1. CASE y <= z
          <5>1. y \in x .. z /\ y \in 1 .. z
            BY <1>1, <3>1, <4>1
          <5> QED BY <1>2, <3>2, <3>3, <5>1
        <4>2. CASE y > z
          <5>1. a + (z - x) <= s /\ a + (z - x) # s
            BY <1>1, <2>1, <3>1, <3>3, <4>2
          <5>2. stream[z] = <<order[q], a + (z - x)>>
            BY <3>1, <3>2, <5>1
          <5>3. CASE b > 0 /\ stream[z] = <<m, b - 1>>
            <6>1. order[q] = m /\ b - 1 = a + (z - x)
              BY <5>2, <5>3
            <6>2. y \in 1 .. z + i
              BY <1>1, <3>1, <4>2
            <6>3. stream'[y] = <<m, b + (y - z) - 1>>
              BY <1>2, <4>2, <6>2
            <6>4. b + (y - z) - 1 = a + (y - x)
              BY <1>1, <3>1, <6>1
            <6> QED BY <6>1, <6>3, <6>4
          <5>4. CASE b = 0 /\ p > 1 /\ stream[z] = <<order[p - 1], SizeOf[order[p - 1]]>>
            <6>1. order[q] = order[p - 1] /\ SizeOf[order[p - 1]] = a + (z - x)
              BY <5>2, <5>4
            <6>2. s = SizeOf[order[p - 1]]
              BY <6>1 DEF s
            <6> QED BY <5>1, <6>1, <6>2
          <5> QED BY <1>3, <3>1, <5>3, <5>4
        <4>3. y <= z \/ y > z
          BY <1>1, <3>1
        <4> QED BY <4>1, <4>2, <4>3
      <3>4. ASSUME x + (s - a) + 1 <= z + i
            PROVE  q + 1 <= Len(order) /\ stream'[x + (s - a) + 1] = <<order[q + 1], 0>>
        <4>1. CASE x + (s - a) + 1 <= z
          <5>1. x + (s - a) + 1 \in 1 .. z
            BY <1>1, <2>1, <3>1, <4>1, SMTT(30)
          <5> QED BY <1>2, <3>2, <4>1, <5>1
        <4>2. CASE x + (s - a) + 1 > z
          <5>1. a + (z - x) <= s
            BY <1>1, <2>1, <3>1, <4>2
          <5>2. stream[z] = <<order[q], a + (z - x)>>
            BY <3>1, <3>2, <5>1
          <5>3. CASE b > 0 /\ stream[z] = <<m, b - 1>>
            <6>1. order[q] = m /\ b - 1 = a + (z - x)
              BY <5>2, <5>3
            <6>2. s = SizeOf[m]
              BY <6>1 DEF s
            <6>3. s + 1 <= (z - x) + a + i
              BY <1>1, <2>1, <3>1, <3>4
            <6>4. (z - x) + a = b - 1
              BY <1>1, <2>1, <3>1, <6>1
            <6>5. b \in Nat /\ i \in Nat /\ s + 1 <= b - 1 + i
              BY <1>1, <2>1, <6>3, <6>4
            <6>6. b + i <= s + 1
              BY <1>1, <6>2
            <6> QED BY <2>1, <6>5, <6>6
          <5>4. CASE b = 0 /\ p > 1 /\ stream[z] = <<order[p - 1], SizeOf[order[p - 1]]>>
            <6>1. order[q] = order[p - 1] /\ SizeOf[order[p - 1]] = a + (z - x)
              BY <5>2, <5>4
            <6>2. s = SizeOf[order[p - 1]] /\ p - 1 \in 1 .. Len(order)
              BY <1>1, <5>4, <6>1 DEF s, p
            <6>3. q = p - 1
              BY <1>1, <6>1, <6>2
            <6>4. x + (s - a) + 1 = z + 1 /\ i >= 1 /\ z + 1 \in 1 .. z + i
              BY <1>1, <2>1, <3>1, <3>4, <6>1, <6>2
            <6>5. stream'[z + 1] = <<m, 0>>
              <7>1. stream'[z + 1] = <<m, b + ((z + 1) - z) - 1>>
                BY <1>1, <1>2, <6>4
              <7>2. b + ((z + 1) - z) - 1 = 0
                BY <1>1, <5>4
              <7> QED BY <7>1, <7>2
            <6>6. q + 1 = p
              BY <1>1, <6>3
            <6> QED BY <1>1, <6>4, <6>5, <6>6 DEF p
          <5> QED BY <1>3, <3>1, <5>3, <5>4
        <4>3. x + (s - a) + 1 <= z \/ x + (s - a) + 1 > z
          BY <2>0, <2>1
        <4> QED BY <4>1, <4>2, <4>3
      <3> QED BY <3>3, <3>4 DEF s
    <2>3. CASE x > z
      <3>1. stream'[x] = <<m, b + (x - z) - 1>>
        BY <1>2, <2>3
      <3>2. order[q] = m /\ a = b + (x - z) - 1
        BY <1>4, <3>1
      <3>3. ASSUME NEW y \in x .. z + i
            PROVE  stream'[y] = <<order[q], a + (y - x)>>
        <4>1. y \in 1 .. z + i /\ y > z
          BY <1>1, <2>3
        <4>2. stream'[y] = <<m, b + (y - z) - 1>>
          BY <1>2, <4>1
        <4>3. b + (y - z) - 1 = a + (y - x)
          BY <1>1, <3>2
        <4> QED BY <3>2, <4>2, <4>3
      <3>4. ~(x + (SizeOf[order[q]] - a) + 1 <= z + i)
        BY <1>1, <3>2, SMTT(30)
      <3> QED BY <3>3, <3>4, Zenon
    <2>4. x <= z \/ x > z
      BY <1>1, <2>1
    <2> QED BY <2>2, <2>3, <2>4, Zenon
<1>5. ASSUME NEW x \in 1 .. Len(stream'), NEW q \in 1 .. Len(order), NEW a \in 0 .. SizeOf[order[q]],
             stream'[x] = <<order[q], a>>
      PROVE  /\ \A y \in x .. Len(stream') :
                   a + (y - x) <= SizeOf[order[q]] => stream'[y] = <<order[q], a + (y - x)>>
             /\ x + (SizeOf[order[q]] - a) + 1 <= Len(stream') =>
                   /\ q + 1 <= Len(order)
                   /\ stream'[x + (SizeOf[order[q]] - a) + 1] = <<order[q + 1], 0>>
  <2>1. Len(stream') = z + i
    BY <1>2
  <2>2. x \in 1 .. z + i
    BY <2>1
  <2> QED BY <1>4, <1>5, <2>1, <2>2, Zenon
<1> QED BY <1>5, Zenon DEF Runs

LEMMA ReadsGrow ==
    ASSUME TypeInv, MutexInv, Reads, NEW m \in Messages, writeMu = m,
           order' = order, got' = got, frame' = frame, lost' = lost,
           \A w \in Messages : stepOf[w] \notin {"idle", "lock"} => stepOf'[w] \notin {"idle", "lock"},
           NEW b \in Nat, SentTo(b), NEW i \in Nat, GrowsFrom(m, b, i), b + i <= SizeOf[m] + 1
    PROVE  Reads' /\ SentTo(b + i)'
<1> DEFINE z == Len(stream)
           p == Len(order)
<1>1. /\ p \in 1 .. Len(order) /\ order[p] = m /\ z \in Nat /\ p \in Nat
      /\ SizeOf[m] \in Nat /\ SizeOf[m] >= 1
      /\ stream = <<>> <=> z = 0
      /\ Len(got) \in Nat /\ stream \in Seq(Parts)
      /\ stepOf[m] \notin {"idle", "lock"}
  BY OrderFacts, ConstantFacts DEF MutexInv, Holding
<1>2. /\ Len(stream') = z + i
      /\ \A x \in 1 .. z : stream'[x] = stream[x]
      /\ \A x \in 1 .. z + i : x > z => stream'[x] = <<m, b + (x - z) - 1>>
      /\ stream' \in Seq(Parts)
  BY DEF GrowsFrom
<1>3. stream' = <<>> <=> z + i = 0
  BY <1>2, EmptySeq
<1>4. Reading /\ Started /\ Runs
  BY ReadsParts
<1>5. z = 0 /\ i >= 1 => /\ Len(got) + 1 = p
                         /\ b = IF frame = Nothing THEN 0 ELSE 1
  BY <1>1 DEF SentTo
<1> HIDE DEF z, p
<1>6. z = 0 /\ i >= 1 => stream'[1] = <<order[Len(got) + 1], IF frame = Nothing THEN 0 ELSE 1>>
  <2>1. SUFFICES ASSUME z = 0, i >= 1
                 PROVE  stream'[1] = <<m, b>>
    BY <1>1, <1>5
  <2>2. stream'[1] = <<m, b + (1 - z) - 1>> /\ b + (1 - z) - 1 = b
    BY <1>1, <1>2, <2>1
  <2> QED BY <2>2
<1>7. Reading'
  <2>1. frame' # Nothing \/ stream' # <<>> => Len(got') < Len(order')
    BY <1>1, <1>3, <1>4, <1>5 DEF Reading, p
  <2>2. stream' # <<>> => stream'[1] = <<order[Len(got) + 1], IF frame = Nothing THEN 0 ELSE 1>>
    <3>1. CASE z = 0
      BY <1>1, <1>3, <1>6, <3>1
    <3>2. CASE z # 0
      <4>1. 1 \in 1 .. z
        BY <1>1, <3>2
      <4>2. stream'[1] = stream[1]
        BY <1>2, <4>1
      <4>3. stream # <<>>
        BY <1>1, <3>2
      <4> QED BY <1>4, <4>2, <4>3 DEF Reading
    <3> QED BY <3>1, <3>2
  <2> QED BY <1>4, <2>1, <2>2 DEF Reading
<1>8. Started'
  <2>1. ASSUME NEW x \in 1 .. Len(stream')
        PROVE  stepOf'[stream'[x][1]] \notin {"idle", "lock"}
    <3>1. CASE x \in 1 .. z
      <4>1. stream[x] \in Parts /\ stream'[x] = stream[x]
        BY <1>1, <1>2, <3>1 DEF z
      <4>2. stream[x][1] \in Messages
        BY <4>1, PartFacts
      <4>3. stepOf[stream[x][1]] \notin {"idle", "lock"}
        BY <1>4, <3>1 DEF Started, z
      <4> QED BY <4>1, <4>2, <4>3
    <3>2. CASE x \notin 1 .. z
      <4>1. stream'[x] = <<m, b + (x - z) - 1>>
        BY <1>1, <1>2, <3>2
      <4>2. stream'[x][1] = m
        BY <4>1
      <4> QED BY <1>1, <4>2
    <3> QED BY <3>1, <3>2
  <2> QED BY <2>1 DEF Started
<1>9. Runs'
  BY <1>4, RunsGrow
<1>10. SentTo(b + i)'
  <2>1. CASE i = 0
    <3>1. z # 0 => stream'[z] = stream[z]
      BY <1>1, <1>2
    <3>2. Len(stream') = z /\ b + i = b /\ (stream' = <<>> <=> stream = <<>>)
      BY <1>1, <1>2, <1>3, <2>1
    <3> QED BY <1>1, <3>1, <3>2 DEF SentTo, z
  <2>2. CASE i >= 1
    <3>1. z + i \in 1 .. z + i /\ z + i > z /\ b + i > 0 /\ b + ((z + i) - z) - 1 = (b + i) - 1
      BY <1>1, <2>2
    <3>2. stream'[z + i] = <<m, (b + i) - 1>>
      BY <1>2, <3>1
    <3> QED BY <1>1, <1>2, <1>3, <2>2, <3>1, <3>2 DEF SentTo, p
  <2> QED BY <2>1, <2>2
<1> QED BY <1>7, <1>8, <1>9, <1>10, ReadsPartsNext


LEMMA RunsShrink ==
    ASSUME TypeInv, Runs, NEW i \in Nat, Taken(i), order' = order,
           \A q \in 1 .. Len(order) : SizeOf[order[q]] \in Nat
    PROVE  Runs'
<1>1. Len(stream) \in Nat /\ Len(stream') = Len(stream) - i
  BY DEF TypeInv, ConnTypeOK, Taken
<1>2. \A x \in 1 .. Len(stream') : x + i \in 1 .. Len(stream) /\ stream'[x] = stream[x + i]
  BY <1>1 DEF Taken
<1>3. ASSUME NEW x \in 1 .. Len(stream'), NEW q \in 1 .. Len(order), NEW a \in 0 .. SizeOf[order[q]],
             stream'[x] = <<order[q], a>>
      PROVE  /\ \A y \in x .. Len(stream') :
                   a + (y - x) <= SizeOf[order[q]] => stream'[y] = <<order[q], a + (y - x)>>
             /\ x + (SizeOf[order[q]] - a) + 1 <= Len(stream') =>
                   /\ q + 1 <= Len(order)
                   /\ stream'[x + (SizeOf[order[q]] - a) + 1] = <<order[q + 1], 0>>
  <2> DEFINE s == SizeOf[order[q]]
             v == x + i
  <2>1. v \in 1 .. Len(stream) /\ stream[v] = <<order[q], a>> /\ s \in Nat /\ a \in 0 .. s
    BY <1>2, <1>3
  <2>2. /\ \A y \in v .. Len(stream) : a + (y - v) <= s => stream[y] = <<order[q], a + (y - v)>>
        /\ v + (s - a) + 1 <= Len(stream) =>
              /\ q + 1 <= Len(order)
              /\ stream[v + (s - a) + 1] = <<order[q + 1], 0>>
    BY <2>1 DEF Runs
  <2>0. x \in Nat /\ x >= 1 /\ a \in Nat /\ a <= s
    BY <2>1
  <2> HIDE DEF s
  <2>3. ASSUME NEW y \in x .. Len(stream'), a + (y - x) <= s
        PROVE  stream'[y] = <<order[q], a + (y - x)>>
    <3>1. y + i \in v .. Len(stream) /\ (y + i) - v = y - x /\ y \in 1 .. Len(stream')
      BY <1>1
    <3>2. stream[y + i] = <<order[q], a + ((y + i) - v)>>
      BY <2>2, <2>3, <3>1
    <3> QED BY <1>2, <3>1, <3>2
  <2>4. ASSUME x + (s - a) + 1 <= Len(stream')
        PROVE  q + 1 <= Len(order) /\ stream'[x + (s - a) + 1] = <<order[q + 1], 0>>
    <3>1. /\ v + (s - a) + 1 <= Len(stream)
          /\ x + (s - a) + 1 \in 1 .. Len(stream')
          /\ (x + (s - a) + 1) + i = v + (s - a) + 1
      BY <1>1, <2>0, <2>1, <2>4
    <3> QED BY <1>2, <2>2, <3>1
  <2> QED BY <2>3, <2>4, Zenon DEF s
<1> QED BY <1>3, Zenon DEF Runs

LEMMA StartedShrinks ==
    ASSUME TypeInv, Started, NEW i \in Nat, Taken(i), stepOf' = stepOf
    PROVE  Started'
<1>1. Len(stream) \in Nat
  BY DEF TypeInv, ConnTypeOK
<1>2. \A x \in 1 .. Len(stream') : x + i \in 1 .. Len(stream) /\ stream'[x] = stream[x + i]
  BY <1>1 DEF Taken
<1> QED BY <1>2 DEF Started

LEMMA OpenReadLength ==
    ASSUME TypeInv, MutexInv, Reads, ReadLength, TypeInv'
    PROVE  Reads' /\ \A b \in Int : SentTo(b) => SentTo(b)'
<1> DEFINE p == Len(order)
           g == Len(got) + 1
<1>1. /\ p \in Nat
      /\ \A q \in 1 .. p : order[q] \in Messages /\ SizeOf[order[q]] \in Nat /\ SizeOf[order[q]] >= 1
      /\ \A q, r \in 1 .. p : order[q] = order[r] => q = r
      /\ Len(got) \in Nat /\ stream \in Seq(Parts) /\ Len(stream) \in Nat
      /\ stream = <<>> <=> Len(stream) = 0
  BY OrderFacts
<1>2. /\ frame = Nothing /\ stream # <<>> /\ Head(stream) = stream[1] /\ Len(stream) >= 1
      /\ order' = order /\ got' = got /\ stepOf' = stepOf /\ Taken(1)
  BY <1>1, TailFacts, TakenFacts DEF ReadLength
<1>3. /\ Len(stream') = Len(stream) - 1
      /\ \A x \in 1 .. Len(stream) - 1 : stream'[x] = stream[x + 1]
      /\ stream' = <<>> <=> Len(stream) = 1
  <2>1. Len(stream') = Len(stream) - 1 /\ \A x \in 1 .. Len(stream) - 1 : stream'[x] = stream[x + 1]
    BY <1>2 DEF Taken
  <2>2. stream' \in Seq(Parts)
    BY DEF TypeInv, ConnTypeOK
  <2>3. stream' = <<>> <=> Len(stream') = 0
    BY <2>2, EmptySeq
  <2> QED BY <1>1, <1>2, <2>1, <2>3
<1>4. Reading /\ Started /\ Runs
  BY ReadsParts
<1>5. g \in 1 .. p /\ stream[1] = <<order[g], 0>>
  BY <1>1, <1>2, <1>4 DEF Reading
<1>6. order[g] \in Messages /\ SizeOf[order[g]] \in Nat /\ SizeOf[order[g]] >= 1
  BY <1>1, <1>5
<1>7. frame' = order[g] /\ lost' = lost
  BY <1>2, <1>5, <1>6 DEF ReadLength, Length
<1> HIDE DEF p, g
<1>8. Len(stream) >= 2 => stream[2] = <<order[g], 1>>
  <2>1. ASSUME Len(stream) >= 2
        PROVE  stream[2] = <<order[g], 1>>
    <3>1. 1 \in 1 .. Len(stream) /\ 2 \in 1 .. Len(stream) /\ 0 + (2 - 1) = 1 /\ 0 \in 0 .. SizeOf[order[g]]
      BY <1>1, <1>6, <2>1
    <3>2. stream[2] = <<order[g], 0 + (2 - 1)>>
      BY <1>4, <1>5, <1>6, <3>1 DEF Runs, p
    <3> QED BY <3>1, <3>2
  <2> QED BY <2>1
<1>9. Reading'
  <2>1. frame' # Nothing
    BY <1>6, <1>7, ConstantFacts
  <2>2. stream' # <<>> => stream'[1] = <<order[g], 1>>
    BY <1>1, <1>2, <1>3, <1>8
  <2>3. Len(got) < Len(order)
    BY <1>1, <1>5 DEF p, g
  <2> QED BY <1>2, <1>4, <1>7, <2>1, <2>2, <2>3 DEF Reading, g
<1>10. Started' /\ Runs'
  BY <1>1, <1>2, <1>4, RunsShrink, StartedShrinks DEF p
<1>11. ASSUME NEW b \in Int, SentTo(b)
       PROVE  SentTo(b)'
  <2>1. \/ b > 0 /\ stream[Len(stream)] = <<order[p], b - 1>>
        \/ b = 0 /\ p > 1 /\ stream[Len(stream)] = <<order[p - 1], SizeOf[order[p - 1]]>>
    BY <1>2, <1>11 DEF SentTo, p
  <2>2. CASE Len(stream) = 1
    <3>1. stream' = <<>> /\ frame' # Nothing /\ stream[Len(stream)] = <<order[g], 0>>
      BY <1>3, <1>5, <1>6, <1>7, <2>2, ConstantFacts
    <3>2. CASE b > 0 /\ stream[Len(stream)] = <<order[p], b - 1>>
      <4>1. order[p] = order[g] /\ b - 1 = 0 /\ p \in 1 .. p
        BY <1>1, <1>5, <3>1, <3>2
      <4>2. p = g /\ b = 1
        BY <1>1, <1>5, <4>1
      <4> QED BY <1>2, <3>1, <4>2 DEF SentTo, p, g
    <3>3. CASE b = 0 /\ p > 1 /\ stream[Len(stream)] = <<order[p - 1], SizeOf[order[p - 1]]>>
      <4>1. SizeOf[order[p - 1]] = 0 /\ p - 1 \in 1 .. p
        BY <1>1, <3>1, <3>3
      <4> QED BY <1>1, <4>1
    <3> QED BY <2>1, <3>2, <3>3
  <2>3. CASE Len(stream) # 1
    <3>1. /\ stream' # <<>> /\ Len(stream') = Len(stream) - 1
          /\ stream'[Len(stream')] = stream[Len(stream)]
      BY <1>1, <1>2, <1>3, <2>3
    <3> QED BY <1>2, <2>1, <3>1 DEF SentTo, p
  <2> QED BY <2>2, <2>3
<1> QED BY <1>9, <1>10, <1>11, ReadsPartsNext

LEMMA OpenReadPayload ==
    ASSUME TypeInv, MutexInv, Reads, ReadPayload, TypeInv'
    PROVE  Reads' /\ \A b \in Int : SentTo(b) => SentTo(b)'
<1> DEFINE p == Len(order)
           g == Len(got) + 1
           s == SizeOf[frame]
<1>1. /\ p \in Nat
      /\ \A q \in 1 .. p : order[q] \in Messages /\ SizeOf[order[q]] \in Nat /\ SizeOf[order[q]] >= 1
      /\ \A q, r \in 1 .. p : order[q] = order[r] => q = r
      /\ got \in Seq(Messages) /\ Len(got) \in Nat /\ stream \in Seq(Parts) /\ Len(stream) \in Nat
      /\ stream = <<>> <=> Len(stream) = 0
  BY OrderFacts
<1>2. /\ frame \in Messages /\ frame # Nothing /\ s <= Len(stream) /\ s \in Nat /\ s >= 1
      /\ order' = order /\ stepOf' = stepOf /\ frame' = Nothing /\ lost' = lost /\ Taken(s)
  BY TakenFacts, ConstantFacts DEF ReadPayload, CanRead, Taken
<1> HIDE DEF s
<1>3. /\ Len(stream') = Len(stream) - s
      /\ \A x \in 1 .. Len(stream) - s : stream'[x] = stream[x + s]
      /\ stream' = <<>> <=> Len(stream) = s
  <2>1. Len(stream') = Len(stream) - s /\ \A x \in 1 .. Len(stream) - s : stream'[x] = stream[x + s]
    BY <1>2 DEF Taken
  <2>2. stream' \in Seq(Parts)
    BY DEF TypeInv, ConnTypeOK
  <2>3. stream' = <<>> <=> Len(stream') = 0
    BY <2>2, EmptySeq
  <2> QED BY <1>1, <1>2, <2>1, <2>3
<1>4. Reading /\ Started /\ Runs
  BY ReadsParts
<1>5. g \in 1 .. p /\ frame = order[g] /\ stream[1] = <<order[g], 1>>
  BY <1>1, <1>2, <1>4 DEF Reading
<1>6. /\ \A y \in 1 .. Len(stream) : 1 + (y - 1) <= s => stream[y] = <<order[g], 1 + (y - 1)>>
      /\ 1 + (s - 1) + 1 <= Len(stream) => g + 1 <= p /\ stream[1 + (s - 1) + 1] = <<order[g + 1], 0>>
  <2>1. 1 \in 1 .. Len(stream) /\ 1 \in 0 .. SizeOf[order[g]] /\ s = SizeOf[order[g]]
    BY <1>1, <1>2, <1>5 DEF s
  <2> QED BY <1>4, <1>5, <2>1 DEF Runs
<1> HIDE DEF p, g
<1>7. ASSUME NEW y \in 1 .. s
      PROVE  stream[y] = <<frame, y>>
  <2>1. y \in 1 .. Len(stream) /\ 1 + (y - 1) = y /\ y <= s
    BY <1>1, <1>2
  <2> QED BY <1>5, <1>6, <2>1
<1>8. s + 1 <= Len(stream) => g + 1 <= p /\ stream[s + 1] = <<order[g + 1], 0>>
  <2>1. 1 + (s - 1) + 1 = s + 1
    BY <1>2
  <2> QED BY <1>6, <2>1
<1>9. SubSeq(stream, 1, s) = Payload(frame)
  <2>1. /\ SubSeq(stream, 1, s) \in Seq(Parts) /\ Len(SubSeq(stream, 1, s)) = s
        /\ \A y \in 1 .. s : SubSeq(stream, 1, s)[y] = stream[y]
    BY <1>1, <1>2
  <2>2. /\ Payload(frame) \in Seq(Parts) /\ Len(Payload(frame)) = s
        /\ \A y \in 1 .. s : Payload(frame)[y] = <<frame, y>>
    BY <1>2, PayloadFacts DEF s
  <2> QED BY <1>7, <2>1, <2>2, SeqEqual
<1>10. got' = Append(got, frame)
  BY <1>9 DEF ReadPayload, s
<1>11. /\ Len(got') = g /\ got'[g] = order[g]
       /\ \A j \in 1 .. Len(got) : got'[j] = got[j]
  BY <1>1, <1>2, <1>5, <1>10 DEF g
<1>12. Reading'
  <2>1. Len(got') <= Len(order)
    BY <1>1, <1>5, <1>11 DEF p
  <2>2. \A j \in 1 .. Len(got') : got'[j] = order[j]
    BY <1>1, <1>4, <1>11 DEF Reading, g
  <2>3. stream' # <<>> => g + 1 <= p /\ stream'[1] = <<order[g + 1], 0>>
    BY <1>1, <1>2, <1>3, <1>8
  <2>4. stream' # <<>> => Len(got') < Len(order)
    BY <1>1, <1>5, <1>11, <2>3 DEF p
  <2> QED BY <1>2, <1>4, <1>11, <2>1, <2>2, <2>3, <2>4 DEF Reading
<1>13. Started' /\ Runs'
  BY <1>1, <1>2, <1>4, RunsShrink, StartedShrinks DEF p
<1>14. ASSUME NEW b \in Int, SentTo(b)
       PROVE  SentTo(b)'
  <2>1. \/ b > 0 /\ stream[Len(stream)] = <<order[p], b - 1>>
        \/ b = 0 /\ p > 1 /\ stream[Len(stream)] = <<order[p - 1], SizeOf[order[p - 1]]>>
    BY <1>1, <1>2, <1>14 DEF SentTo, p
  <2>2. CASE Len(stream) = s
    <3>1. stream' = <<>> /\ stream[Len(stream)] = <<order[g], s>>
      BY <1>2, <1>3, <1>5, <1>7, <2>2
    <3>2. CASE b > 0 /\ stream[Len(stream)] = <<order[p], b - 1>>
      <4>1. order[p] = order[g] /\ b - 1 = s /\ p \in 1 .. p
        BY <1>1, <1>5, <3>1, <3>2
      <4>2. p = g /\ b = s + 1 /\ s = SizeOf[order[p]]
        BY <1>1, <1>2, <1>5, <4>1 DEF s
      <4> QED BY <1>2, <1>11, <3>1, <4>2 DEF SentTo, p
    <3>3. CASE b = 0 /\ p > 1 /\ stream[Len(stream)] = <<order[p - 1], SizeOf[order[p - 1]]>>
      <4>1. order[p - 1] = order[g] /\ p - 1 \in 1 .. p
        BY <1>1, <3>1, <3>3
      <4>2. p = g + 1
        BY <1>1, <1>5, <4>1
      <4> QED BY <1>2, <1>11, <3>1, <3>3, <4>2 DEF SentTo, p
    <3> QED BY <2>1, <3>2, <3>3
  <2>3. CASE Len(stream) # s
    <3>1. /\ stream' # <<>> /\ Len(stream') = Len(stream) - s
          /\ stream'[Len(stream')] = stream[Len(stream)]
      BY <1>1, <1>2, <1>3, <2>3
    <3> QED BY <1>2, <2>1, <3>1 DEF SentTo, p
  <2> QED BY <2>2, <2>3
<1> QED BY <1>12, <1>13, <1>14, ReadsPartsNext


\* A step that changes nothing of which SentTo and Reads speak.
LEMMA OpenSame ==
    ASSUME TypeInv, MutexInv, Reads,
           order' = order, got' = got, frame' = frame, lost' = lost, stream' = stream,
           \A w \in Messages : stepOf[w] \notin {"idle", "lock"} => stepOf'[w] \notin {"idle", "lock"}
    PROVE  Reads' /\ \A b \in Int : SentTo(b)' = SentTo(b)
<1>1. \A x \in 1 .. Len(stream) : stream[x][1] \in Messages
  BY PartFacts DEF TypeInv, ConnTypeOK
<1>2. Reading'
  BY ReadsParts DEF Reading
<1>5. Runs'
  <2>1. Runs /\ Len(stream) \in Nat /\ stream \in Seq(Parts)
    BY OrderFacts, ReadsParts
  <2>2. 0 \in 0 .. Len(stream) /\ Len(stream') = Len(stream) - 0
    BY <2>1
  <2>3. \A x \in 1 .. Len(stream') : stream'[x] = stream[x + 0]
    BY <2>1
  <2>4. Taken(0)
    BY <2>1, <2>2, <2>3 DEF Taken
  <2>5. \A q \in 1 .. Len(order) : SizeOf[order[q]] \in Nat
    BY OrderFacts
  <2> QED BY <2>1, <2>4, <2>5, RunsShrink
<1>3. Started'
  BY <1>1, ReadsParts DEF Started
<1>4. \A b \in Int : SentTo(b)' = SentTo(b)
  BY DEF SentTo
<1> QED BY <1>2, <1>3, <1>4, <1>5, ReadsPartsNext

LEMMA CopiedFacts ==
    ASSUME TypeInv, SliceInv, NEW m \in Messages
    PROVE  /\ Copied(m) \in Int /\ Copied(m) <= SizeOf[m]
           /\ left[m] = <<Length(m)>> => Copied(m) = -1
           /\ left[m] # <<Length(m)>> => /\ Copied(m) = SizeOf[m] - Len(left[m])
                                         /\ Copied(m) >= 0
                                         /\ \A j \in 1 .. Len(left[m]) : left[m][j] = <<m, Copied(m) + j>>
<1>1. SizeOf[m] \in Nat /\ left[m] \in Seq(Parts) /\ Len(left[m]) \in Nat
  BY ConstantFacts DEF TypeInv, ConnTypeOK
<1>2. CASE left[m] = <<Length(m)>>
  BY <1>1, <1>2 DEF Copied
<1>3. CASE left[m] # <<Length(m)>>
  <2>1. Copied(m) = SizeOf[m] - Len(left[m])
    BY <1>3 DEF Copied
  <2>2. IsRest(m)
    BY <1>3, RestFacts
  <2>3. Copied(m) >= 0 /\ Copied(m) <= SizeOf[m] /\ Copied(m) \in Int
    BY <1>1, <2>1, <2>2 DEF IsRest
  <2> QED BY <1>3, <2>1, <2>2, <2>3 DEF IsRest
<1> QED BY <1>2, <1>3

LEMMA CopiedSame ==
    ASSUME NEW m \in Messages, left'[m] = left[m]
    PROVE  Copied(m)' = Copied(m)
BY DEF Copied, Length

\* The holder alone decides.
LEMMA WritesBy ==
    ASSUME NEW m \in Messages, writeMu' = m, Buffered(m)', Nothing \notin Messages
    PROVE  Writes'
BY DEF Writes

LEMMA OpenWriteLock ==
    ASSUME TypeInv, MutexInv, SliceInv, CountInv, OpenInv, NEW m \in Messages, WriteLock(m), ~closed,
           TypeInv', MutexInv'
    PROVE  Reads' /\ (~err' => Writes')
<1> DEFINE p == Len(order)
<1>1. /\ p \in Nat
      /\ \A q \in 1 .. p : order[q] \in Messages /\ SizeOf[order[q]] \in Nat /\ SizeOf[order[q]] >= 1
      /\ order \in Seq(Messages) /\ (order # <<>> <=> p >= 1)
      /\ got \in Seq(Messages) /\ Len(got) \in Nat /\ stream \in Seq(Parts) /\ Len(stream) \in Nat
  BY OrderFacts
<1>2. /\ stepOf[m] = "lock" /\ writeMu = Nothing /\ writeMu' = m /\ order' = Append(order, m)
      /\ UNCHANGED <<n, buf, err, stream, k, got, frame, lost>>
  BY DEF WriteLock, GoesOn, reader
<1>3. stepOf'[m] = "put" /\ \A w \in Messages : w # m => stepOf'[w] = stepOf[w]
  BY WriterMoves DEF WriteLock, GoesOn
<1>4. left'[m] = <<Length(m)>>
  BY DEF WriteLock, TypeInv, ConnTypeOK
<1>5. Reads /\ (~err => Writes)
  BY DEF OpenInv
<1>6. Reading /\ Started /\ Runs
  BY <1>5, ReadsParts
<1>7. /\ Len(order') = p + 1 /\ order'[p + 1] = m
      /\ \A q \in 1 .. p : order'[q] = order[q]
  BY <1>1, <1>2
<1> HIDE DEF p
<1>8. \A x \in 1 .. Len(stream) : stream[x] \in Parts /\ stream[x][1] \in Messages
  BY <1>1, PartFacts
<1>9. Started'
  BY <1>2, <1>3, <1>6, <1>8 DEF Started
<1>10. Reading'
  <2>1. frame' # Nothing \/ stream' # <<>> => Len(got) + 1 \in 1 .. p
    BY <1>1, <1>2, <1>6 DEF Reading, p
  <2>2. \A i \in 1 .. Len(got) : i \in 1 .. p
    BY <1>1, <1>6 DEF Reading, p
  <2>3. ~lost' /\ Len(got') <= Len(order')
    BY <1>1, <1>2, <1>6, <1>7 DEF Reading, p
  <2>4. \A i \in 1 .. Len(got') : got'[i] = order'[i]
    BY <1>2, <1>6, <1>7, <2>2 DEF Reading
  <2>5. frame' # Nothing \/ stream' # <<>> => Len(got') < Len(order')
    BY <1>1, <1>2, <1>7, <2>1
  <2>6. frame' # Nothing => frame' = order'[Len(got') + 1]
    BY <1>2, <1>6, <1>7, <2>1 DEF Reading
  <2>7. stream' # <<>> => stream'[1] = <<order'[Len(got') + 1], IF frame' = Nothing THEN 0 ELSE 1>>
    BY <1>2, <1>6, <1>7, <2>1 DEF Reading
  <2> QED BY <2>3, <2>4, <2>5, <2>6, <2>7 DEF Reading
<1>11. Runs'
  <2>1. ASSUME NEW x \in 1 .. Len(stream), NEW q \in 1 .. p + 1, NEW a \in 0 .. SizeOf[order'[q]],
               stream[x] = <<order'[q], a>>
        PROVE  q \in 1 .. p /\ order'[q] = order[q]
    <3>1. stepOf[stream[x][1]] # "lock"
      BY <1>6 DEF Started
    <3>2. stream[x][1] = order'[q]
      BY <2>1
    <3>3. order'[q] # m
      <4> SUFFICES ASSUME order'[q] = m
                   PROVE  FALSE
        OBVIOUS
      <4>1. stepOf[m] # "lock"
        BY <3>1, <3>2
      <4>2. stepOf[m] = "lock"
        BY <1>2
      <4> QED BY <4>1, <4>2
    <3>4. q \in 1 .. p
      BY <1>1, <1>7, <3>3
    <3> QED BY <1>7, <3>4
  <2>2. ASSUME NEW x \in 1 .. Len(stream), NEW q \in 1 .. p + 1, NEW a \in 0 .. SizeOf[order'[q]],
               stream[x] = <<order'[q], a>>
        PROVE  /\ \A y \in x .. Len(stream) :
                     a + (y - x) <= SizeOf[order'[q]] => stream[y] = <<order'[q], a + (y - x)>>
               /\ x + (SizeOf[order'[q]] - a) + 1 <= Len(stream) =>
                     /\ q + 1 <= p + 1
                     /\ stream[x + (SizeOf[order'[q]] - a) + 1] = <<order'[q + 1], 0>>
    <3>1. q \in 1 .. p /\ order'[q] = order[q]
      BY <2>1, <2>2
    <3>2. /\ \A y \in x .. Len(stream) :
                a + (y - x) <= SizeOf[order[q]] => stream[y] = <<order[q], a + (y - x)>>
          /\ x + (SizeOf[order[q]] - a) + 1 <= Len(stream) =>
                /\ q + 1 <= p
                /\ stream[x + (SizeOf[order[q]] - a) + 1] = <<order[q + 1], 0>>
      BY <1>6, <2>2, <3>1 DEF Runs, p
    <3>3. q + 1 <= p => order'[q + 1] = order[q + 1] /\ q + 1 <= p + 1
      BY <1>1, <1>7, <3>1
    <3> QED BY <3>1, <3>2, <3>3
  <2>3. \A x \in 1 .. Len(stream') : \A q \in 1 .. Len(order') : \A a \in 0 .. SizeOf[order'[q]] :
           stream'[x] = <<order'[q], a>> =>
            /\ \A y \in x .. Len(stream') :
                  a + (y - x) <= SizeOf[order'[q]] => stream'[y] = <<order'[q], a + (y - x)>>
            /\ x + (SizeOf[order'[q]] - a) + 1 <= Len(stream') =>
                  /\ q + 1 <= Len(order')
                  /\ stream'[x + (SizeOf[order'[q]] - a) + 1] = <<order'[q + 1], 0>>
    <3>1. stream' = stream /\ Len(order') = p + 1
      BY <1>2, <1>7
    <3> QED BY <2>2, <3>1, ZenonT(40)
  <2> QED BY <2>3, Zenon DEF Runs
<1>12. Reads'
  BY <1>9, <1>10, <1>11, ReadsPartsNext
<1>13. ASSUME ~err
       PROVE  Writes'
  <2>1. n = 0
    BY <1>2, <1>13 DEF CountInv
  <2>2. SentTo(0)'
    <3>1. CASE order = <<>>
      <4>1. p = 0 /\ stream = <<>> /\ frame = Nothing /\ Len(got) = 0
        BY <1>1, <1>6, <3>1 DEF Reading, p
      <4> QED BY <1>2, <1>7, <4>1 DEF SentTo
    <3>2. CASE order # <<>>
      <4>1. p \in 1 .. p /\ SentTo(SizeOf[order[p]] + 1) /\ SizeOf[order[p]] \in Nat /\ SizeOf[order[p]] >= 1
        BY <1>1, <1>2, <1>5, <1>13, <3>2 DEF Writes, p
      <4>2. /\ order'[p] = order[p] /\ (p + 1) - 1 = p /\ p + 1 > 1
            /\ SizeOf[order[p]] + 1 # 0 /\ SizeOf[order[p]] + 1 # 1
            /\ (SizeOf[order[p]] + 1) - 1 = SizeOf[order[p]]
        BY <1>1, <1>7, <4>1
      <4>3. CASE stream # <<>>
        <5>1. stream[Len(stream)] = <<order[p], SizeOf[order[p]]>>
          BY <4>1, <4>2, <4>3 DEF SentTo, p
        <5> QED BY <1>2, <1>7, <4>2, <4>3, <5>1 DEF SentTo
      <4>4. CASE stream = <<>>
        <5>1. frame = Nothing /\ p = Len(got)
          BY <4>1, <4>2, <4>4 DEF SentTo, p
        <5> QED BY <1>2, <1>7, <4>4, <5>1 DEF SentTo
      <4> QED BY <4>3, <4>4
    <3> QED BY <3>1, <3>2
  <2>3. Copied(m)' = -1
    <3>1. Length(m)' = Length(m)
      BY DEF Length
    <3> QED BY <1>4, <3>1 DEF Copied
  <2>4. Copied(m)' - n' + 1 = 0
    BY <1>2, <2>1, <2>3
  <2>5. Buffered(m)'
    BY <1>2, <1>3, <2>1, <2>2, <2>4 DEF Buffered
  <2> QED BY <1>2, <2>5, ConstantFacts, WritesBy
<1> QED BY <1>2, <1>12, <1>13



\* What a step of the holder, and one of the flusher, finds.
LEMMA HolderFacts ==
    ASSUME TypeInv, MutexInv, SliceInv, CountInv, OpenInv, ~closed, NEW m \in Messages, stepOf[m] \in Holding
    PROVE  /\ writeMu = m /\ Reads /\ (~err => Buffered(m))
           /\ \A w \in Messages : w # m => stepOf[w] \notin Holding
           /\ n \in Int /\ (~err => n >= 0)
           /\ SizeOf[m] \in Nat /\ SizeOf[m] >= 1
           /\ left[m] \in Seq(Parts) /\ Len(left[m]) \in Nat
           /\ order # <<>> /\ order[Len(order)] = m
<1>1. writeMu = m
  BY DEF MutexInv
<1>2. \A w \in Messages : w # m => stepOf[w] \notin Holding
  BY <1>1 DEF MutexInv
<1>3. Reads /\ (~err => Buffered(m))
  BY <1>1 DEF OpenInv, Writes
<1>4. order # <<>> /\ order[Len(order)] = m
  BY <1>1, ConstantFacts DEF MutexInv
<1> QED BY <1>1, <1>2, <1>3, <1>4, ConstantFacts DEF TypeInv, ConnTypeOK, CountInv

LEMMA GrowsOn ==
    ASSUME TypeInv, NEW f, NEW i, Grows(f, i), NEW m \in Messages, NEW b \in Nat,
           \A j \in 1 .. i : f[j] = <<m, b + j - 1>>
    PROVE  GrowsFrom(m, b, i)
<1> DEFINE z == Len(stream)
<1>1. z \in Nat /\ i \in Nat /\ Len(stream') = z + i
  BY DEF Grows, TypeInv, ConnTypeOK
<1>2. \A j \in 1 .. i : stream'[z + j] = f[j]
  BY DEF Grows
<1> HIDE DEF z
<1>3. ASSUME NEW x \in 1 .. z + i, x > z
      PROVE  stream'[x] = <<m, b + (x - z) - 1>>
  <2>1. x - z \in 1 .. i /\ z + (x - z) = x
    BY <1>1, <1>3
  <2> QED BY <1>2, <2>1
<1> QED BY <1>1, <1>3 DEF Grows, GrowsFrom, z

LEMMA BufferedSame ==
    ASSUME TypeInv, SliceInv, NEW w \in Messages, Buffered(w),
           left'[w] = left[w], stepOf'[w] = stepOf[w], k'[w] = k[w], buf' = buf, n' = n,
           \A b \in Int : SentTo(b) => SentTo(b)'
    PROVE  Buffered(w)'
<1>1. Copied(w) \in Int /\ n \in Int /\ SizeOf[w] \in Nat
  BY CopiedFacts, ConstantFacts DEF TypeInv, ConnTypeOK
<1>2. Copied(w)' = Copied(w)
  BY CopiedSame
<1>3. PICK b \in Int : b = Copied(w) - n + 1
  BY <1>1
<1>4. PICK c \in Int : c = Copied(w) + 1
  BY <1>1
<1>5. PICK d \in Int : d = SizeOf[w] + 1
  BY <1>1
<1>6. /\ SentTo(b) => SentTo(b)'
      /\ SentTo(c) => SentTo(c)'
      /\ SentTo(d) => SentTo(d)'
  OBVIOUS
<1>7. /\ SentTo(Copied(w) - n + 1) => SentTo(Copied(w) - n + 1)'
      /\ SentTo(Copied(w) + 1) => SentTo(Copied(w) + 1)'
      /\ SentTo(SizeOf[w] + 1) => SentTo(SizeOf[w] + 1)'
  <2>1. SentTo(b)' => SentTo(Copied(w) - n + 1)'
    BY <1>2, <1>3 DEF SentTo
  <2>2. SentTo(c)' => SentTo(Copied(w) + 1)'
    BY <1>2, <1>4 DEF SentTo
  <2>3. SentTo(d)' => SentTo(SizeOf[w] + 1)'
    BY <1>5 DEF SentTo
  <2> QED BY <1>3, <1>4, <1>5, <1>6, <2>1, <2>2, <2>3
<1>8. /\ stepOf[w] \in {"put", "add", "flush", "send"} =>
            /\ Copied(w) - n + 1 >= 0
            /\ SentTo(Copied(w) - n + 1)'
            /\ \A j \in 1 .. n : buf[j] = <<w, Copied(w) - n + j>>
      /\ stepOf[w] = "add" => \A j \in 1 .. n + k[w] : buf[j] = <<w, Copied(w) - n + j>>
      /\ stepOf[w] = "send" => k[w] = n
      /\ stepOf[w] = "reset" => SentTo(Copied(w) + 1)'
      /\ stepOf[w] = "unlock" => left[w] = <<>> /\ SentTo(SizeOf[w] + 1)'
  BY <1>7 DEF Buffered
<1> QED BY <1>2, <1>8 DEF Buffered

LEMMA WritesSame ==
    ASSUME TypeInv, MutexInv, SliceInv, Writes, writeMu' = writeMu, order' = order, left' = left, k' = k,
           buf' = buf, n' = n,
           \A w \in Messages : writeMu = w => stepOf'[w] = stepOf[w],
           \A b \in Int : SentTo(b) => SentTo(b)'
    PROVE  Writes'
<1>1. ASSUME writeMu = Nothing, order # <<>>
      PROVE  SentTo(SizeOf[order[Len(order)]] + 1)'
  <2>1. Len(order) \in 1 .. Len(order)
    BY <1>1, OrderFacts
  <2>2. SizeOf[order[Len(order)]] + 1 \in Int
    BY <2>1, OrderFacts
  <2>3. SentTo(SizeOf[order[Len(order)]] + 1)
    BY <1>1 DEF Writes
  <2> QED BY <2>2, <2>3 DEF SentTo
<1>2. ASSUME NEW w \in Messages, writeMu = w
      PROVE  Buffered(w)'
  <2>1. Buffered(w)
    BY <1>2 DEF Writes
  <2> QED BY <1>2, <2>1, BufferedSame
<1> QED BY <1>1, <1>2 DEF Writes

LEMMA OpenWriteBegin ==
    ASSUME TypeInv, MutexInv, SliceInv, CountInv, OpenInv, NEW m \in Messages, WriteBegin(m), ~closed
    PROVE  Reads' /\ (~err' => Writes')
<1>1. stepOf[m] = "idle" /\ \A w \in Messages : w # m => stepOf'[w] = stepOf[w]
  BY WriterMoves DEF WriteBegin, GoesOn
<1>2. Reads /\ (~err => Writes)
  BY DEF OpenInv
<1>3. Reads' /\ \A b \in Int : SentTo(b)' = SentTo(b)
  BY <1>1, <1>2, OpenSame DEF WriteBegin, reader
<1>4. \A w \in Messages : writeMu = w => stepOf'[w] = stepOf[w]
  BY <1>1 DEF MutexInv, Holding
<1>5. ASSUME ~err
      PROVE  Writes'
  BY <1>2, <1>3, <1>4, <1>5, WritesSame DEF WriteBegin
<1> QED BY <1>3, <1>5 DEF WriteBegin

LEMMA OpenWriteCopy ==
    ASSUME TypeInv, MutexInv, SliceInv, CountInv, OpenInv, NEW m \in Messages, WriteCopy(m), ~closed
    PROVE  Reads' /\ (~err' => Writes')
<1> DEFINE a == Copied(m)
<1>1. PICK c \in Nat :
              /\ c >= 1 /\ c <= Len(left[m]) /\ n + c <= BufferSize /\ n >= 0 /\ n \in Int
              /\ k'[m] = c /\ stepOf[m] = "put" /\ stepOf'[m] = "add" /\ ~err
              /\ \A j \in 1 .. c : buf'[n + j] = left[m][j]
              /\ \A j \in 1 .. BufferSize : j \notin n + 1 .. n + c => buf'[j] = buf[j]
              /\ left[m] = <<Length(m)>> => n = 0 /\ c = 1
              /\ left[m] # Payload(m) => n = 0
  BY CopyFacts
<1>2. writeMu = m /\ Reads /\ Buffered(m) /\ Len(left[m]) \in Nat
  BY <1>1, HolderFacts DEF Holding
<1>3. \A w \in Messages : w # m => stepOf'[w] = stepOf[w]
  BY WriterMoves DEF WriteCopy
<1>4. /\ writeMu' = m /\ left' = left /\ n' = n
      /\ UNCHANGED <<order, got, frame, lost, stream>>
  BY <1>2 DEF WriteCopy, reader
<1>5. Reads' /\ \A b \in Int : SentTo(b)' = SentTo(b)
  BY <1>1, <1>2, <1>3, <1>4, OpenSame
<1>6. Copied(m)' = a
  BY <1>4, CopiedSame
<1>7. /\ a \in Int
      /\ left[m] = <<Length(m)>> => a = -1
      /\ left[m] # <<Length(m)>> => \A j \in 1 .. Len(left[m]) : left[m][j] = <<m, a + j>>
  BY CopiedFacts
<1>8. a - n + 1 >= 0 /\ SentTo(a - n + 1) /\ \A j \in 1 .. n : buf[j] = <<m, a - n + j>>
  BY <1>1, <1>2 DEF Buffered
<1> HIDE DEF a
<1>9. ASSUME NEW j \in 1 .. n + c
      PROVE  buf'[j] = <<m, a - n + j>>
  <2>1. CASE j <= n
    <3>1. j \in 1 .. n /\ j \in 1 .. BufferSize /\ j \notin n + 1 .. n + c
      BY <1>1, <2>1, ConstantFacts
    <3> QED BY <1>1, <1>8, <3>1
  <2>2. CASE j > n /\ left[m] = <<Length(m)>>
    <3>1. n = 0 /\ c = 1 /\ j = 1 /\ a = -1
      BY <1>1, <1>7, <2>2
    <3>2. buf'[n + 1] = left[m][1] /\ n + 1 = 1 /\ left[m][1] = Length(m) /\ a - n + j = 0
      BY <1>1, <2>2, <3>1
    <3> QED BY <3>1, <3>2 DEF Length
  <2>3. CASE j > n /\ left[m] # <<Length(m)>>
    <3>1. j - n \in 1 .. c /\ j - n \in 1 .. Len(left[m]) /\ n + (j - n) = j /\ a + (j - n) = a - n + j
      BY <1>1, <1>2, <1>7, <2>3
    <3>2. buf'[j] = left[m][j - n]
      BY <1>1, <3>1
    <3>3. left[m][j - n] = <<m, a + (j - n)>>
      BY <1>7, <2>3, <3>1
    <3> QED BY <3>1, <3>2, <3>3
  <2> QED BY <1>1, <2>1, <2>2, <2>3
<1>10. \A j \in 1 .. n : j \in 1 .. n + c
  BY <1>1
<1>11. SentTo(Copied(m) - n + 1)'
  <2>1. PICK b \in Int : b = a - n + 1
    BY <1>1, <1>7
  <2>2. SentTo(b)'
    BY <1>5, <1>8, <2>1
  <2> QED BY <1>4, <1>6, <2>1, <2>2 DEF SentTo
<1>12. Buffered(m)'
  BY <1>1, <1>4, <1>6, <1>8, <1>9, <1>10, <1>11 DEF Buffered
<1> QED BY <1>4, <1>5, <1>12, WritesBy, ConstantFacts



LEMMA OpenWriteDirect ==
    ASSUME TypeInv, MutexInv, SliceInv, CountInv, OpenInv, NEW m \in Messages, WriteDirect(m), ~closed
    PROVE  Reads' /\ (~err' => Writes')
<1>1. stepOf[m] = "put" /\ ~err /\ n = 0 /\ Len(left[m]) > BufferSize /\ k' = k
  BY DEF WriteDirect
<1>2. /\ writeMu = m /\ Reads /\ Buffered(m) /\ left[m] \in Seq(Parts) /\ Len(left[m]) \in Nat
      /\ SizeOf[m] \in Nat
  BY <1>1, HolderFacts DEF Holding
<1>3. /\ writeMu' = m /\ n' = n
      /\ UNCHANGED <<order, got, frame, lost>>
  BY <1>2 DEF WriteDirect, reader
<1>4. \A w \in Messages : stepOf[w] \notin {"idle", "lock"} => stepOf'[w] \notin {"idle", "lock"}
  <2>1. GoesOn(m, "put", "flush") \/ GoesOn(m, "put", "unlock")
    BY DEF WriteDirect
  <2>2. CASE GoesOn(m, "put", "flush")
    BY <2>2, WriterMoves DEF GoesOn
  <2>3. CASE GoesOn(m, "put", "unlock")
    BY <2>3, WriterMoves DEF GoesOn
  <2> QED BY <2>1, <2>2, <2>3
<1>5. left[m] # <<Length(m)>>
  <2>1. SUFFICES ASSUME left[m] = <<Length(m)>>
                 PROVE  FALSE
    OBVIOUS
  <2>2. Len(left[m]) = 1
    BY <2>1, PayloadFacts
  <2>3. 1 > BufferSize
    BY <1>1, <2>2
  <2> QED BY <2>3, ConstantFacts
<1>6. PICK a \in Int : a = Copied(m)
  BY CopiedFacts
<1>7. /\ a >= 0 /\ a + Len(left[m]) = SizeOf[m]
      /\ \A j \in 1 .. Len(left[m]) : left[m][j] = <<m, a + j>>
  BY <1>2, <1>5, <1>6, CopiedFacts
<1>8. PICK b \in Nat : b = a + 1
  BY <1>7
<1>9. SentTo(b)
  <2>1. SentTo(Copied(m) - n + 1) /\ Copied(m) - n + 1 = b
    BY <1>1, <1>2, <1>6, <1>8 DEF Buffered
  <2> QED BY <2>1
<1>10. PICK i \in 0 .. Len(left[m]) :
              /\ Grows(left[m], i)
              /\ (i = Len(left[m]) /\ err' = err /\ left'[m] = <<>> /\ stepOf'[m] = "flush") \/ err'
  BY DirectGrows
<1>11. \A j \in 1 .. i : left[m][j] = <<m, b + j - 1>>
  <2>1. ASSUME NEW j \in 1 .. i
        PROVE  left[m][j] = <<m, b + j - 1>>
    <3>1. j \in 1 .. Len(left[m]) /\ a + j = b + j - 1
      BY <1>2, <1>8
    <3> QED BY <1>7, <3>1
  <2> QED BY <2>1
<1>12. i \in Nat /\ b + i <= SizeOf[m] + 1
  BY <1>2, <1>7, <1>8
<1>13. GrowsFrom(m, b, i)
  BY <1>10, <1>11, GrowsOn
<1>14. Reads' /\ SentTo(b + i)'
  BY <1>2, <1>3, <1>4, <1>9, <1>12, <1>13, ReadsGrow
<1>15. ASSUME ~err'
       PROVE  Writes'
  <2>1. i = Len(left[m]) /\ left'[m] = <<>> /\ stepOf'[m] = "flush"
    BY <1>10, <1>15
  <2>2. Copied(m)' = SizeOf[m]
    <3>1. left'[m] # <<Length(m)>> /\ Len(left'[m]) = 0
      BY <2>1
    <3>2. Length(m)' = Length(m)
      BY DEF Length
    <3> QED BY <1>2, <3>1, <3>2 DEF Copied
  <2>3. Copied(m)' - n' + 1 = b + i /\ Copied(m)' - n' + 1 >= 0
    BY <1>1, <1>2, <1>3, <1>7, <1>8, <2>1, <2>2
  <2>4. SentTo(Copied(m) - n + 1)'
    BY <1>14, <2>3 DEF SentTo
  <2>5. Buffered(m)'
    BY <1>1, <1>3, <2>1, <2>3, <2>4 DEF Buffered
  <2> QED BY <1>3, <2>5, ConstantFacts, WritesBy
<1> QED BY <1>14, <1>15

LEMMA OpenWriteError ==
    ASSUME TypeInv, MutexInv, SliceInv, CountInv, OpenInv, NEW m \in Messages, WriteError(m), ~closed
    PROVE  Reads' /\ (~err' => Writes')
<1>1. stepOf[m] = "put" /\ err /\ Reads
  BY DEF WriteError, GoesOn, OpenInv
<1>2. err'
  BY <1>1 DEF WriteError
<1>3. UNCHANGED <<order, got, frame, lost, stream>>
  BY DEF WriteError, reader
<1>4. \A w \in Messages : stepOf[w] \notin {"idle", "lock"} => stepOf'[w] \notin {"idle", "lock"}
  BY WriterMoves DEF WriteError, GoesOn
<1> QED BY <1>1, <1>2, <1>3, <1>4, OpenSame

LEMMA OpenWriteAdd ==
    ASSUME TypeInv, MutexInv, SliceInv, CountInv, OpenInv, NEW m \in Messages, WriteAdd(m), ~closed
    PROVE  Reads' /\ (~err' => Writes')
<1> DEFINE rest == SubSeq(left[m], k[m] + 1, Len(left[m]))
<1>1. stepOf[m] = "add" /\ (err' => err) /\ (err => err')
  BY DEF WriteAdd, GoesOn
<1>2. /\ writeMu = m /\ Reads /\ (~err => Buffered(m)) /\ left[m] \in Seq(Parts) /\ Len(left[m]) \in Nat
      /\ SizeOf[m] \in Nat /\ n \in Int /\ (~err => n >= 0)
  BY <1>1, HolderFacts DEF Holding
<1>3. /\ writeMu' = m /\ n' = n + k[m] /\ buf' = buf /\ k' = k
      /\ UNCHANGED <<order, got, frame, lost, stream>>
  BY <1>2 DEF WriteAdd, reader
<1>4. \A w \in Messages : stepOf[w] \notin {"idle", "lock"} => stepOf'[w] \notin {"idle", "lock"}
  BY WriterMoves DEF WriteAdd, GoesOn
<1>5. Reads' /\ \A b \in Int : SentTo(b)' = SentTo(b)
  BY <1>2, <1>3, <1>4, OpenSame
<1>6. stepOf'[m] \in {"put", "flush"}
  BY WriterMoves DEF WriteAdd, GoesOn
<1>7. k[m] \in Nat /\ k[m] >= 1 /\ k[m] <= Len(left[m])
  BY <1>1, ConstantFacts DEF SliceInv, Slices, TypeInv, ConnTypeOK, Goroutines
<1>8. PICK a \in Int : a = Copied(m)
  BY CopiedFacts
<1>9. Length(m)' = Length(m) /\ Payload(m)' = Payload(m)
  BY DEF Length, Payload
<1>10. Copied(m)' = a + k[m]
  <2>1. CASE left[m] = <<Length(m)>>
    <3>1. left'[m] = Payload(m)
      BY <2>1 DEF WriteAdd, TypeInv, ConnTypeOK
    <3>2. left'[m] # <<Length(m)>> /\ Len(left'[m]) = SizeOf[m]
      BY <3>1, PayloadFacts
    <3>3. Copied(m)' = SizeOf[m] - SizeOf[m]
      BY <1>9, <3>2 DEF Copied
    <3>4. a = -1 /\ k[m] = 1
      BY <1>7, <1>8, <2>1, CopiedFacts, PayloadFacts
    <3> QED BY <1>2, <3>3, <3>4
  <2>2. CASE left[m] # <<Length(m)>>
    <3>1. left'[m] = rest
      BY <2>2 DEF WriteAdd, TypeInv, ConnTypeOK
    <3>2. /\ Len(rest) = Len(left[m]) - k[m]
          /\ \A j \in 1 .. Len(left[m]) - k[m] : rest[j] = left[m][j + k[m]]
      BY <1>2, <1>7, SMTT(30)
    <3>3. /\ a = SizeOf[m] - Len(left[m]) /\ a >= 0
          /\ \A j \in 1 .. Len(left[m]) : left[m][j] = <<m, a + j>>
      BY <1>8, <2>2, CopiedFacts
    <3>4. left'[m] # <<Length(m)>>
      <4>1. SUFFICES ASSUME rest = <<Length(m)>>
                     PROVE  FALSE
        BY <3>1
      <4> HIDE DEF rest
      <4>2. Len(rest) = 1 /\ rest[1] = Length(m)
        BY <4>1, PayloadFacts
      <4>3. 1 \in 1 .. Len(left[m]) - k[m] /\ 1 + k[m] \in 1 .. Len(left[m])
        <5>1. Len(left[m]) - k[m] = 1
          BY <3>2, <4>2
        <5> QED BY <1>2, <1>7, <5>1
      <4>4. left[m][1 + k[m]] = Length(m) /\ left[m][1 + k[m]] = <<m, a + (1 + k[m])>>
        BY <3>2, <3>3, <4>2, <4>3
      <4>5. a + (1 + k[m]) = 0
        BY <4>4 DEF Length
      <4> QED BY <1>7, <3>3, <4>5
    <3>5. Copied(m)' = SizeOf[m] - (Len(left[m]) - k[m])
      BY <1>9, <3>1, <3>2, <3>4 DEF Copied
    <3> QED BY <1>2, <1>7, <3>3, <3>5
  <2> QED BY <2>1, <2>2
<1>11. ASSUME ~err'
       PROVE  Writes'
  <2>1. ~err /\ Buffered(m)
    BY <1>1, <1>2, <1>11
  <2>2. Copied(m)' - n' = a - n
    BY <1>2, <1>3, <1>7, <1>10
  <2>3. PICK b \in Int : b = a - n
    BY <1>2
  <2>4. /\ b + 1 >= 0 /\ SentTo(b + 1)
        /\ \A j \in 1 .. n + k[m] : buf[j] = <<m, b + j>>
    BY <1>1, <1>8, <2>1, <2>3 DEF Buffered
  <2>5. SentTo(b + 1)'
    <3>1. PICK c \in Int : c = b + 1
      OBVIOUS
    <3> QED BY <1>5, <2>4, <3>1
  <2>6. SentTo(Copied(m) - n + 1)'
    BY <2>2, <2>3, <2>5 DEF SentTo
  <2>7. /\ Copied(m)' - n' + 1 >= 0
        /\ \A j \in 1 .. n' : buf'[j] = <<m, Copied(m)' - n' + j>>
    BY <1>3, <2>2, <2>3, <2>4
  <2>8. Buffered(m)'
    BY <1>6, <2>6, <2>7 DEF Buffered
  <2> QED BY <1>3, <2>8, ConstantFacts, WritesBy
<1> QED BY <1>5, <1>11

LEMMA OpenWriteUnlock ==
    ASSUME TypeInv, MutexInv, SliceInv, CountInv, OpenInv, NEW m \in Messages, WriteUnlock(m), ~closed
    PROVE  Reads' /\ (~err' => Writes')
<1>1. stepOf[m] = "unlock" /\ (err => err')
  BY DEF WriteUnlock, GoesOn
<1>2. /\ writeMu = m /\ Reads /\ (~err => Buffered(m))
      /\ SizeOf[m] \in Nat /\ order[Len(order)] = m
  BY <1>1, HolderFacts DEF Holding
<1>3. /\ writeMu' = Nothing
      /\ UNCHANGED <<order, got, frame, lost, stream>>
  BY DEF WriteUnlock, reader
<1>4. \A w \in Messages : stepOf[w] \notin {"idle", "lock"} => stepOf'[w] \notin {"idle", "lock"}
  BY WriterMoves DEF WriteUnlock, GoesOn
<1>5. Reads' /\ \A b \in Int : SentTo(b)' = SentTo(b)
  BY <1>2, <1>3, <1>4, OpenSame
<1>6. ASSUME ~err'
      PROVE  Writes'
  <2>1. SentTo(SizeOf[m] + 1)
    BY <1>1, <1>2, <1>6 DEF Buffered
  <2>2. PICK b \in Int : b = SizeOf[m] + 1
    BY <1>2
  <2>3. SentTo(b)'
    BY <1>5, <2>1, <2>2
  <2>4. SizeOf[order'[Len(order')]] + 1 = b
    BY <1>2, <1>3, <2>2
  <2>5. SentTo(SizeOf[order[Len(order)]] + 1)'
    BY <2>3, <2>4 DEF SentTo
  <2> QED BY <1>3, <2>5, ConstantFacts DEF Writes
<1> QED BY <1>5, <1>6


\* Where a writer is after its Flush, when the buffer is empty.
LEMMA OpenAfterFlush ==
    ASSUME TypeInv, SliceInv, NEW m \in Messages, stepOf[m] \in {"flush", "send", "reset"},
           left' = left, stepOf'[m] = AfterFlush(m), n' = 0,
           NEW b \in Int, b = Copied(m) + 1, SentTo(b)'
    PROVE  Buffered(m)'
<1>1. Copied(m) \in Int /\ Copied(m) >= 0 /\ Copied(m) = SizeOf[m] - Len(left[m]) /\ SizeOf[m] \in Nat
  BY FlushedSlice, CopiedFacts, ConstantFacts
<1>2. Copied(m)' = Copied(m)
  BY CopiedSame
<1>3. \A j \in 1 .. n' : FALSE
  OBVIOUS
<1>4. CASE left[m] # <<>>
  <2>1. stepOf'[m] = "put"
    BY <1>4, AfterFlushFacts DEF Goroutines
  <2>2. SentTo(Copied(m) - n + 1)' /\ Copied(m)' - n' + 1 >= 0
    <3>1. Copied(m)' - n' + 1 = b
      BY <1>1, <1>2
    <3> QED BY <1>1, <3>1 DEF SentTo
  <2> QED BY <1>3, <2>1, <2>2 DEF Buffered
<1>5. CASE left[m] = <<>>
  <2>1. stepOf'[m] = "unlock"
    BY <1>5, AfterFlushFacts DEF Goroutines
  <2>2. b = SizeOf[m] + 1
    BY <1>1, <1>5
  <2>3. SentTo(SizeOf[m] + 1)'
    BY <2>2 DEF SentTo
  <2> QED BY <1>5, <2>1, <2>3 DEF Buffered
<1> QED BY <1>4, <1>5

LEMMA OpenFlushBegin ==
    ASSUME TypeInv, MutexInv, SliceInv, CountInv, OpenInv, NEW m \in Messages, FlushBegin(m), ~closed
    PROVE  Reads' /\ (~err' => Writes')
<1>1. stepOf[m] = "flush" /\ (err => err')
  BY DEF FlushBegin, GoesOn
<1>2. /\ writeMu = m /\ Reads /\ (~err => Buffered(m))
      /\ n \in Int /\ (~err => n >= 0)
  BY <1>1, HolderFacts DEF Holding
<1>3. /\ writeMu' = m /\ n' = n /\ buf' = buf /\ left' = left
      /\ UNCHANGED <<order, got, frame, lost, stream>>
  BY <1>2 DEF FlushBegin, reader
<1>4. \A w \in Messages : stepOf[w] \notin {"idle", "lock"} => stepOf'[w] \notin {"idle", "lock"}
  <2>1. FlushMoves(m)
    BY FlushMovesFact DEF Flush, Goroutines
  <2> QED BY <2>1 DEF FlushMoves
<1>5. Reads' /\ \A b \in Int : SentTo(b)' = SentTo(b)
  BY <1>2, <1>3, <1>4, OpenSame
<1>6. PICK a \in Int : a = Copied(m)
  BY CopiedFacts
<1>7. Copied(m)' = a
  BY <1>3, <1>6, CopiedSame
<1>8. ASSUME ~err'
      PROVE  Buffered(m)'
  <2>1. ~err
    BY <1>1, <1>8
  <2>2. PICK b \in Int : b = a - n + 1
    BY <1>2
  <2>3. b >= 0 /\ SentTo(b)' /\ \A j \in 1 .. n : buf[j] = <<m, a - n + j>>
    BY <1>1, <1>2, <1>5, <1>6, <2>1, <2>2 DEF Buffered
  <2>4. CASE n <= 0
    <3>1. n = 0 /\ b = Copied(m) + 1
      BY <1>2, <1>6, <2>1, <2>2, <2>4
    <3>2. stepOf'[m] = AfterFlush(m)
      <4>1. GoesOn(m, "flush", AfterFlush(m))
        BY <1>2, <2>4 DEF FlushBegin
      <4> QED BY <4>1, WriterMoves DEF GoesOn
    <3> QED BY <1>1, <1>3, <2>3, <3>1, <3>2, OpenAfterFlush
  <2>5. CASE ~(n <= 0)
    <3>1. stepOf'[m] = "send" /\ k'[m] = n
      <4>1. /\ stepOf' = [stepOf EXCEPT ![m] = "send"] /\ k' = [k EXCEPT ![m] = n]
        BY <2>1, <2>5 DEF FlushBegin, GoesOn
      <4> QED BY <4>1, WriterMoves DEF TypeInv, ConnTypeOK, Goroutines
    <3>2. SentTo(Copied(m) - n + 1)' /\ Copied(m)' - n' + 1 >= 0
      <4>1. Copied(m)' - n' + 1 = b
        BY <1>3, <1>7, <2>2
      <4> QED BY <2>3, <4>1 DEF SentTo
    <3>3. \A j \in 1 .. n' : buf'[j] = <<m, Copied(m)' - n' + j>>
      BY <1>3, <1>7, <2>3
    <3> QED BY <1>3, <3>1, <3>2, <3>3 DEF Buffered
  <2> QED BY <2>4, <2>5
<1> QED BY <1>3, <1>5, <1>8, ConstantFacts, WritesBy

LEMMA OpenFlushSend ==
    ASSUME TypeInv, MutexInv, SliceInv, CountInv, BufferInv, OpenInv, NEW m \in Messages, FlushSend(m), ~closed
    PROVE  Reads' /\ (~err' => Writes')
<1>1. stepOf[m] = "send"
  BY DEF FlushSend
<1>2. ~err
  BY <1>1 DEF OpenInv
<1>3. /\ writeMu = m /\ Reads /\ Buffered(m)
      /\ n \in Int /\ n >= 0 /\ SizeOf[m] \in Nat
  BY <1>1, <1>2, HolderFacts DEF Holding
<1>4. /\ writeMu' = m /\ buf' = buf /\ left' = left
      /\ UNCHANGED <<order, got, frame, lost>>
  BY <1>3 DEF FlushSend, reader
<1>5. \A w \in Messages : stepOf[w] \notin {"idle", "lock"} => stepOf'[w] \notin {"idle", "lock"}
  <2>1. FlushMoves(m)
    BY FlushMovesFact DEF Flush, Goroutines
  <2> QED BY <2>1 DEF FlushMoves
<1>6. PICK a \in Int : a = Copied(m)
  BY CopiedFacts
<1>7. a <= SizeOf[m] /\ Copied(m)' = a
  BY <1>4, <1>6, CopiedFacts, CopiedSame
<1>8. a - n + 1 >= 0 /\ (\A j \in 1 .. n : buf[j] = <<m, a - n + j>>) /\ k[m] = n
  BY <1>1, <1>3, <1>6 DEF Buffered
<1>9. PICK b \in Nat : b = a - n + 1
  BY <1>3, <1>8
<1>10. SentTo(b)
  BY <1>1, <1>3, <1>6, <1>9 DEF Buffered
<1>11. PICK i \in 0 .. k[m] : /\ Grows(buf, i)
                              /\ (i = k[m] /\ err' = err /\ stepOf'[m] = "reset") \/ err'
  BY SendGrows DEF Goroutines
<1>12. i \in Nat /\ i <= n
  BY <1>3, <1>8, <1>11
<1>13. \A j \in 1 .. i : buf[j] = <<m, b + j - 1>>
  <2>1. ASSUME NEW j \in 1 .. i
        PROVE  buf[j] = <<m, b + j - 1>>
    <3>1. j \in 1 .. n /\ a - n + j = b + j - 1
      BY <1>3, <1>9, <1>12
    <3> QED BY <1>8, <3>1
  <2> QED BY <2>1
<1>14. GrowsFrom(m, b, i)
  BY <1>11, <1>13, GrowsOn
<1>15. b + i <= SizeOf[m] + 1
  BY <1>3, <1>7, <1>9, <1>12
<1>16. Reads' /\ SentTo(b + i)'
  BY <1>3, <1>4, <1>5, <1>10, <1>12, <1>14, <1>15, ReadsGrow
<1>17. ASSUME ~err'
       PROVE  Buffered(m)'
  <2>1. i = n /\ stepOf'[m] = "reset"
    BY <1>8, <1>11, <1>17
  <2>2. Copied(m)' + 1 = b + i
    BY <1>3, <1>7, <1>9, <2>1
  <2>3. SentTo(Copied(m) + 1)'
    BY <1>16, <2>2 DEF SentTo
  <2> QED BY <2>1, <2>3 DEF Buffered
<1> QED BY <1>4, <1>16, <1>17, ConstantFacts, WritesBy

LEMMA OpenFlushReset ==
    ASSUME TypeInv, MutexInv, SliceInv, CountInv, OpenInv, NEW m \in Messages, FlushReset(m), ~closed
    PROVE  Reads' /\ (~err' => Writes')
<1>1. stepOf[m] = "reset" /\ (err => err')
  BY DEF FlushReset, GoesOn
<1>2. writeMu = m /\ Reads /\ (~err => Buffered(m))
  BY <1>1, HolderFacts DEF Holding
<1>3. /\ writeMu' = m /\ n' = 0 /\ left' = left
      /\ UNCHANGED <<order, got, frame, lost, stream>>
  BY <1>2 DEF FlushReset, reader
<1>4. /\ \A w \in Messages : stepOf[w] \notin {"idle", "lock"} => stepOf'[w] \notin {"idle", "lock"}
      /\ stepOf'[m] = AfterFlush(m)
  <2>1. FlushMoves(m)
    BY FlushMovesFact DEF Flush, Goroutines
  <2>2. stepOf'[m] = AfterFlush(m)
    BY WriterMoves DEF FlushReset, GoesOn
  <2> QED BY <2>1, <2>2 DEF FlushMoves
<1>5. Reads' /\ \A b \in Int : SentTo(b)' = SentTo(b)
  BY <1>2, <1>3, <1>4, OpenSame
<1>6. ASSUME ~err'
      PROVE  Buffered(m)'
  <2>1. SentTo(Copied(m) + 1)
    BY <1>1, <1>2, <1>6 DEF Buffered
  <2>2. PICK b \in Int : b = Copied(m) + 1
    BY CopiedFacts
  <2>3. SentTo(b)'
    BY <1>5, <2>1, <2>2
  <2> QED BY <1>1, <1>3, <1>4, <2>2, <2>3, OpenAfterFlush
<1> QED BY <1>3, <1>5, <1>6, ConstantFacts, WritesBy


\* After an error nobody is about to write to the socket, while Close has not been
\* called: a step that makes one is that of the holder, and goes elsewhere.
LEMMA NoSendStep ==
    ASSUME TypeInv, MutexInv, BufferInv, OpenInv, ~closed, [ConnNext]_connVars
    PROVE  err' => \A w \in Messages : stepOf'[w] # "send"
<1>1. err => \A w \in Messages : stepOf[w] # "send"
  BY DEF OpenInv
<1>2. \A w \in Messages : w \in Goroutines
  BY DEF Goroutines
<1>3. CASE UNCHANGED connVars
  BY <1>1, <1>3 DEF connVars
<1>4. ASSUME NEW m \in Messages, WriteMessage(m)
      PROVE  err' => \A w \in Messages : stepOf'[w] # "send"
  <2>1. Apart(m)
    BY <1>4, WriteApart
  <2>2. stepOf'[m] # "send"
    <3>1. CASE WriteBegin(m)
      BY <3>1, WriterMoves DEF WriteBegin, GoesOn
    <3>2. CASE WriteLock(m)
      BY <3>2, WriterMoves DEF WriteLock, GoesOn
    <3>3. CASE WriteCopy(m)
      BY <3>3, WriterMoves DEF WriteCopy, GoesOn
    <3>4. CASE WriteDirect(m)
      BY <3>4, WriterMoves DEF WriteDirect, GoesOn
    <3>5. CASE WriteError(m)
      BY <3>5, WriterMoves DEF WriteError, GoesOn
    <3>6. CASE WriteAdd(m)
      BY <3>6, WriterMoves DEF WriteAdd, GoesOn
    <3>7. CASE WriteUnlock(m)
      BY <3>7, WriterMoves DEF WriteUnlock, GoesOn
    <3> QED BY <1>4, <3>1, <3>2, <3>3, <3>4, <3>5, <3>6, <3>7 DEF WriteMessage
  <2>3. CASE WriteDirect(m)
    <3>1. stepOf[m] \in Holding
      BY <2>3 DEF WriteDirect, Holding
    <3>2. \A w \in Messages : w # m => stepOf'[w] \notin Holding
      BY <1>4, <3>1, OthersOutside
    <3> QED BY <2>2, <3>2 DEF Holding
  <2>4. CASE ~WriteDirect(m)
    <3>1. err' => err
      BY <1>4, <2>4 DEF WriteMessage, WriteBegin, WriteLock, WriteCopy, WriteError, WriteAdd, WriteUnlock
    <3> QED BY <1>1, <2>1, <2>2, <3>1 DEF Apart
  <2> QED BY <2>3, <2>4
<1>5. ASSUME NEW g \in Goroutines, Flush(g)
      PROVE  err' => \A w \in Messages : stepOf'[w] # "send"
  <2>1. FlushMoves(g)
    BY <1>5, FlushMovesFact
  <2>2. g # Closer
    BY <2>1 DEF FlushMoves, TypeInv
  <2>3. g \in Messages
    BY <2>2 DEF Goroutines
  <2>4. \A w \in Messages : w # g => stepOf'[w] = stepOf[w]
    BY <2>1 DEF FlushMoves
  <2>5. CASE FlushBegin(g)
    <3>1. (err' => err) /\ (err => err')
      BY <2>5 DEF FlushBegin
    <3>2. err => stepOf'[g] # "send"
      <4>1. SUFFICES ASSUME err
                     PROVE  stepOf'[g] # "send"
        OBVIOUS
      <4>2. GoesOn(g, "flush", AfterFlush(g))
        BY <2>5, <4>1 DEF FlushBegin
      <4> QED BY <2>3, <4>2, AfterFlushFacts, WriterMoves DEF GoesOn
    <3> QED BY <1>1, <2>4, <3>1, <3>2
  <2>6. CASE FlushSend(g)
    <3>1. stepOf[g] = "send"
      BY <2>6 DEF FlushSend
    <3>2. \A w \in Messages : w # g => stepOf[w] \notin Holding
      BY <2>3, <3>1, OneHolder DEF Holding
    <3>3. stepOf'[g] # "send"
      <4>1. ASSUME GoesOn(g, "send", "reset")
            PROVE  stepOf'[g] # "send"
        <5>1. stepOf'[g] = "reset"
          BY <2>3, <4>1, WriterMoves DEF GoesOn
        <5> QED BY <5>1
      <4>2. ASSUME GoesOn(g, "send", AfterFlush(g))
            PROVE  stepOf'[g] # "send"
        <5>1. stepOf'[g] = AfterFlush(g)
          BY <2>3, <4>2, WriterMoves DEF GoesOn
        <5> QED BY <2>3, <5>1, AfterFlushFacts
      <4> QED BY <2>6, <4>1, <4>2 DEF FlushSend
    <3> QED BY <2>4, <3>2, <3>3 DEF Holding
  <2>7. CASE FlushReset(g)
    <3>1. (err' => err) /\ (err => err')
      BY <2>7 DEF FlushReset
    <3>2. stepOf'[g] # "send"
      BY <2>3, <2>7, AfterFlushFacts, WriterMoves DEF FlushReset, GoesOn
    <3> QED BY <1>1, <2>4, <3>1, <3>2
  <2> QED BY <1>5, <2>5, <2>6, <2>7 DEF Flush
<1>6. CASE CloseBegin
  <2>1. \A w \in Messages : stepOf'[w] = stepOf[w]
    BY <1>6, CloserMoves DEF CloseBegin, GoesOn
  <2> QED BY <1>1, <1>6, <2>1 DEF CloseBegin
<1>7. CASE CloseSocket
  <2>1. \A w \in Messages : stepOf'[w] = stepOf[w]
    BY <1>7, CloserMoves DEF CloseSocket, GoesOn
  <2> QED BY <1>1, <1>7, <2>1 DEF CloseSocket
<1>8. CASE ReadMessage
  BY <1>1, <1>8 DEF ReadMessage, ReadLength, ReadPayload
<1> QED BY <1>3, <1>4, <1>5, <1>6, <1>7, <1>8 DEF ConnNext

LEMMA OpenStep ==
    ASSUME TypeInv, MutexInv, SliceInv, CountInv, BufferInv, OpenInv, [ConnNext]_connVars, TypeInv', MutexInv'
    PROVE  OpenInv'
<1> SUFFICES ASSUME ~closed'
             PROVE  Reads' /\ (~err' => Writes') /\ (err' => \A w \in Messages : stepOf'[w] # "send")
  BY DEF OpenInv
<1>1. ~closed
  BY DEF ConnNext, connVars, WriteMessage, WriteBegin, WriteLock, WriteCopy, WriteDirect, WriteError, WriteAdd, WriteUnlock,
         Flush, FlushBegin, FlushSend, FlushReset, CloseBegin, CloseSocket, ReadMessage, ReadLength, ReadPayload
<1>2. Reads /\ (~err => Writes)
  BY <1>1 DEF OpenInv
<1>3. ASSUME UNCHANGED connVars
      PROVE  Reads' /\ (~err' => Writes')
  <2>1. Reads' /\ \A b \in Int : SentTo(b)' = SentTo(b)
    BY <1>2, <1>3, OpenSame DEF connVars, reader
  <2>2. ASSUME ~err'
        PROVE  Writes'
    <3>1. Writes
      BY <1>2, <1>3, <2>2 DEF connVars
    <3>2. /\ writeMu' = writeMu /\ order' = order /\ left' = left /\ k' = k /\ buf' = buf /\ n' = n
          /\ \A w \in Messages : writeMu = w => stepOf'[w] = stepOf[w]
      BY <1>3 DEF connVars
    <3>3. \A b \in Int : SentTo(b) => SentTo(b)'
      BY <2>1, Zenon
    <3> QED BY <3>1, <3>2, <3>3, WritesSame, Zenon
  <2> QED BY <2>1, <2>2
<1>4. ASSUME NEW m \in Messages, WriteMessage(m)
      PROVE  Reads' /\ (~err' => Writes')
  BY <1>1, <1>4, OpenWriteBegin, OpenWriteLock, OpenWriteCopy, OpenWriteDirect, OpenWriteError, OpenWriteAdd,
     OpenWriteUnlock DEF WriteMessage
<1>5. ASSUME NEW g \in Goroutines, Flush(g)
      PROVE  Reads' /\ (~err' => Writes')
  <2>1. FlushMoves(g)
    BY <1>5, FlushMovesFact
  <2>2. g # Closer
    BY <1>1, <2>1 DEF FlushMoves, TypeInv
  <2>3. g \in Messages
    BY <2>2 DEF Goroutines
  <2> QED BY <1>1, <1>5, <2>3, OpenFlushBegin, OpenFlushSend, OpenFlushReset DEF Flush
<1>6. ~CloseBegin /\ ~CloseSocket
  BY <1>1 DEF CloseBegin, CloseSocket, GoesOn, TypeInv
<1>7. ASSUME ReadMessage
      PROVE  Reads' /\ (~err' => Writes')
  <2>1. Reads' /\ \A b \in Int : SentTo(b) => SentTo(b)'
    BY <1>2, <1>7, OpenReadLength, OpenReadPayload DEF ReadMessage
  <2>2. /\ writeMu' = writeMu /\ order' = order /\ left' = left /\ k' = k /\ buf' = buf /\ n' = n
        /\ \A w \in Messages : writeMu = w => stepOf'[w] = stepOf[w]
    BY <1>7 DEF ReadMessage, ReadLength, ReadPayload
  <2>3. (err' => err) /\ (err => err')
    BY <1>7 DEF ReadMessage, ReadLength, ReadPayload
  <2>4. ASSUME ~err'
        PROVE  Writes'
    <3>1. Writes
      BY <1>2, <2>3, <2>4
    <3> QED BY <2>1, <2>2, <3>1, WritesSame, Zenon
  <2> QED BY <2>1, <2>4
<1>8. Reads' /\ (~err' => Writes')
  BY <1>3, <1>4, <1>5, <1>6, <1>7 DEF ConnNext
<1>9. err' => \A w \in Messages : stepOf'[w] # "send"
  BY <1>1, NoSendStep
<1> QED BY <1>8, <1>9


-----------------------------------------------------------------------------
(* The invariant.                                                          *)

LEMMA InitInv == ConnInit => IInv
<1> SUFFICES ASSUME ConnInit
             PROVE  IInv
  OBVIOUS
<1> USE ConstantFacts
<1>1. /\ stepOf = [g \in Goroutines |-> "idle"] /\ writeMu = Nothing /\ closed = FALSE /\ err = FALSE /\ lost = FALSE
      /\ n = 0 /\ order = <<>> /\ got = <<>> /\ stream = <<>> /\ sent = {} /\ frame = Nothing /\ socket = "open"
      /\ left = [m \in Messages |-> <<>>] /\ k = [g \in Goroutines |-> 0]
      /\ buf = [i \in 1 .. BufferSize |-> Nothing]
  BY DEF ConnInit
<1>2. /\ \A m \in Messages : stepOf[m] = "idle" /\ left[m] = <<>> /\ m # Nothing /\ m \in Goroutines
      /\ stepOf[Closer] = "idle" /\ Closer \in Goroutines
      /\ \A g \in Goroutines : stepOf[g] = "idle"
  BY <1>1 DEF Goroutines
<1>3. Len(order) = 0 /\ Len(got) = 0 /\ Len(stream) = 0 /\ \A x \in 1 .. 0 : FALSE
  BY <1>1
<1>4. \A j \in 1 .. BufferSize : buf[j] = Nothing
  BY <1>1
<1>5. TypeInv
  <2>1. ConnTypeOK
    <3>1. left \in [Messages -> Seq(Parts)]
      BY <1>1
    <3>2. k \in [Goroutines -> 0 .. BufferSize] /\ buf \in [1 .. BufferSize -> Parts \cup {Nothing}]
      BY <1>1
    <3>3. n \in Int /\ n <= BufferSize /\ writeMu \in Messages \cup {Nothing} /\ frame \in Messages \cup {Nothing}
      BY <1>1
    <3>4. stream \in Seq(Parts) /\ order \in Seq(Messages) /\ got \in Seq(Messages) /\ sent \subseteq Messages
      BY <1>1
    <3>5. closed \in BOOLEAN /\ err \in BOOLEAN /\ lost \in BOOLEAN /\ socket \in {"open", "closed"}
      BY <1>1
    <3> QED BY <3>1, <3>2, <3>3, <3>4, <3>5 DEF ConnTypeOK
  <2>2. DOMAIN stepOf = Goroutines
    BY <1>1
  <2> QED BY <1>1, <1>2, <2>1, <2>2 DEF TypeInv, CloserSteps, WriterSteps
<1>6. MutexInv
  BY <1>1, <1>2, <1>3 DEF MutexInv, Holding
<1>7. SliceInv
  <2>1. \A m \in Messages : IsRest(m)
    BY <1>2, <1>3 DEF IsRest
  <2> QED BY <1>2, <2>1 DEF SliceInv, Slices
<1>8. CountInv
  BY <1>1, <1>2 DEF CountInv, Filled
<1>9. \A j \in 1 .. BufferSize : \A m \in Messages : buf[j] # Length(m)
  <2>1. \A m \in Messages : Nothing # Length(m)
    BY ConstantFacts DEF Length
  <2>2. ASSUME NEW j \in 1 .. BufferSize, NEW m \in Messages
        PROVE  buf[j] # Length(m)
    <3>1. buf[j] = Nothing
      BY <1>4
    <3> QED BY <2>1, <3>1
  <2> QED BY <2>2
<1>10. BufferInv
  <2>1. \A j \in 2 .. BufferSize : \A m \in Messages : buf[j] # Length(m)
    BY <1>9
  <2>2. \A m \in Messages : Contents(m)
    BY <1>2 DEF Contents
  <2>3. \A g \in Goroutines : stepOf[g] # "send"
    BY <1>2
  <2>4. \A j \in 1 .. n : buf[j] \in Parts
    BY <1>1
  <2> QED BY <2>1, <2>2, <2>3, <2>4 DEF BufferInv
<1>11. Sorted
  BY <1>1, <1>3, <1>9 DEF Sorted
<1>12. RepeatInv
  <2>1. \A m \in Messages : Single(m)
    BY <1>1, <1>2, <1>3 DEF Single, Once, Absent
  <2> QED BY <1>1, <1>2, <2>1 DEF RepeatInv
<1>13. OpenInv
  <2>1. Reads
    BY <1>1, <1>3 DEF Reads, Runs
  <2>2. Writes
    BY <1>1, <1>2 DEF Writes
  <2> QED BY <1>1, <2>1, <2>2 DEF OpenInv
<1> QED BY <1>5, <1>6, <1>7, <1>8, <1>10, <1>11, <1>12, <1>13 DEF IInv

LEMMA InvStep == IInv /\ [ConnNext]_connVars => IInv'
<1> SUFFICES ASSUME IInv, [ConnNext]_connVars
             PROVE  IInv'
  OBVIOUS
<1>1. TypeInv /\ MutexInv /\ SliceInv /\ CountInv /\ BufferInv /\ Sorted /\ RepeatInv /\ OpenInv
  BY DEF IInv
<1>2. TypeInv' /\ MutexInv'
  BY <1>1, TypeStep, MutexStep
<1>3. SliceInv' /\ CountInv' /\ BufferInv'
  BY <1>1, SliceStep, CountStep, BufferStep
<1>4. Sorted' /\ RepeatInv'
  BY <1>1, <1>2, SortedStep, RepeatStep
<1>5. OpenInv'
  BY <1>1, <1>2, OpenStep
<1> QED BY <1>2, <1>3, <1>4, <1>5 DEF IInv


LEMMA Invariance == ConnSpec => []IInv
<1>1. ConnInit => IInv
  BY InitInv
<1>2. IInv /\ [ConnNext]_connVars => IInv'
  BY InvStep
<1> QED BY <1>1, <1>2, PTL DEF ConnSpec

\* The place of a message in order is one.
LEMMA PlaceFacts ==
    ASSUME TypeInv, MutexInv, NEW m, NEW i \in DOMAIN order, order[i] = m
    PROVE  (CHOOSE j \in DOMAIN order : order[j] = m) = i
<1>1. DOMAIN order = 1 .. Len(order)
  BY DEF TypeInv, ConnTypeOK
<1>2. \A j \in DOMAIN order : order[j] = m => j = i
  BY <1>1 DEF MutexInv
<1> QED BY <1>2, Zenon

LEMMA Whole == IInv => FramesWhole
<1> SUFFICES ASSUME IInv
             PROVE  FramesWhole
  OBVIOUS
<1> DEFINE Repeated == {got[i] : i \in {x \in DOMAIN got : \E y \in DOMAIN got : x < y /\ got[x] = got[y]}}
           Place(m) == CHOOSE i \in DOMAIN order : order[i] = m
<1>1. TypeInv /\ MutexInv /\ Sorted /\ RepeatInv /\ OpenInv
  BY DEF IInv
<1>2. /\ got \in Seq(Messages) /\ order \in Seq(Messages) /\ Len(got) \in Nat /\ Len(order) \in Nat
      /\ DOMAIN got = 1 .. Len(got) /\ DOMAIN order = 1 .. Len(order)
  BY <1>1 DEF TypeInv, ConnTypeOK
<1>3. ConnTypeOK
  BY <1>1 DEF TypeInv
<1>4. ASSUME ~closed
      PROVE  ~lost /\ PrefixOf(got, order)
  <2>1. ~lost /\ Len(got) <= Len(order) /\ \A i \in 1 .. Len(got) : got[i] = order[i]
    BY <1>1, <1>4 DEF OpenInv, Reads
  <2>2. /\ SubSeq(order, 1, Len(got)) \in Seq(Messages) /\ Len(SubSeq(order, 1, Len(got))) = Len(got)
        /\ \A i \in 1 .. Len(got) : SubSeq(order, 1, Len(got))[i] = order[i]
    BY <1>2, <2>1
  <2>3. SubSeq(order, 1, Len(got)) = got
    BY <1>2, <2>1, <2>2, SeqEqual
  <2> QED BY <2>1, <2>3 DEF PrefixOf
<1>5. ASSUME NEW i \in DOMAIN got, NEW j \in DOMAIN got, i < j
      PROVE  Place(got[i]) <= Place(got[j])
  <2>1. Le(got[i], got[j])
    BY <1>1, <1>2, <1>5 DEF Sorted
  <2>2. PICK a, b \in 1 .. Len(order) : a <= b /\ order[a] = got[i] /\ order[b] = got[j]
    BY <2>1 DEF Le
  <2>3. Place(got[i]) = a /\ Place(got[j]) = b
    BY <1>1, <1>2, <2>2, PlaceFacts
  <2> QED BY <2>2, <2>3
<1>6. PICK d \in Messages \cup {Nothing} : d \notin sent /\ \A m \in Messages \ {d} : Single(m)
  BY <1>1 DEF RepeatInv
<1>7. Repeated \subseteq {d}
  <2>1. SUFFICES ASSUME NEW x \in DOMAIN got, NEW y \in DOMAIN got, x < y, got[x] = got[y], got[x] # d
                 PROVE  FALSE
    OBVIOUS
  <2>2. got[x] \in Messages \ {d}
    BY <1>2, <2>1
  <2>3. Once(got[x])
    BY <1>6, <2>2 DEF Single
  <2>4. x = y
    BY <1>2, <2>1, <2>3 DEF Once
  <2> QED BY <1>2, <2>1, <2>4
<1>8. Repeated \cap sent = {}
  BY <1>6, <1>7
<1> HIDE DEF Repeated, Place
<1>9. Cardinality(Repeated) <= 1
  <2>1. IsFiniteSet({d}) /\ Cardinality({d}) = 1
    BY FS_Singleton
  <2> QED BY <1>7, <2>1, FS_Subset
<1> QED BY <1>3, <1>4, <1>5, <1>8, <1>9 DEF FramesWhole, Repeated, Place

-----------------------------------------------------------------------------
\* Whatever the number of writers, the lengths of their messages and the size of
\* the buffer, messages are whole, in order and once until Close is called; and
\* the Flush of Close, which does not take the mutex, neither changes the order
\* nor repeats more than one message, and none that had been sent.
THEOREM FramesStayWhole == ConnSpec => []FramesWhole
<1>1. ConnSpec => []IInv
  BY Invariance
<1>2. IInv => FramesWhole
  BY Whole
<1> QED BY <1>1, <1>2, PTL
-----------------------------------------------------------------------------
(* Handshake: what an end knows of the other, and who is registered.       *)

LEMMA ShakeConstants ==
    /\ From \in [Conns -> Nodes] /\ To \in [Conns -> Nodes]
    /\ MaxRestarts \in Nat
    /\ VersionOf \in [Identities -> Nat]
    /\ None \notin Identities \cup (Conns \X {"out", "in"})
BY HandshakeAssumption DEF Identities

\* Steps at which the goroutine holds its entry under the ID, and under the
\* address.
HoldsID == {"storeAddr", "rollback", "reading", "deleteID"}
HoldsAddr == {"reading", "deleteID", "deleteAddr"}

\* Peer.id is set.
KnowsPeer == HoldsID \cup HoldsAddr \cup {"sendAck", "storeID"}

StepsOf(e) == IF e = "out" THEN Steps \ {"backlog", "hs", "sendAck"}
                           ELSE Steps \ {"dial", "ack"}

\* A peer of n that says it is i may be registered.
Compatible(i, r) == i[1] # r /\ VersionOf[i] = VersionOf[Identity(r)]

\* What an end has heard, x, is None or comes from a process of the other node:
\* from the one that runs if that has not closed its socket.
HeardOK(c, e, x) ==
    x # None => /\ x[1] = Far(c, e)
                /\ open[c][Other(e)] \/ Far(c, e) = At(c, e) => x = Identity(Far(c, e))

EndOK(c, e) ==
    /\ pc[c][e] \in StepsOf(e)
    /\ open[c][e] <=> pc[c][e] \notin {"none", "dial"}
    /\ ~open[c][e] => known[c][e] = None /\ wire[c][e] = None
    /\ pc[c][e] \in KnowsPeer => known[c][e] # None
    /\ HeardOK(c, e, wire[c][e]) /\ HeardOK(c, e, known[c][e])
    /\ known[c][e] # None => Compatible(known[c][e], At(c, e))

\* The Ack comes after the dialling end was greeted, and before the other end
\* goes on; a connection is made when both its goroutines are new.
AckOK(c) ==
    /\ wire[c]["out"] # None => Compatible(wire[c]["out"], From[c])
    /\ pc[c]["in"] \in {"backlog", "hs", "sendAck"} /\ open[c]["out"]
          => pc[c]["out"] \in {"ack", "close"} /\ wire[c]["out"] = None
    /\ pc[c]["in"] \in KnowsPeer \ {"sendAck"} /\ pc[c]["out"] = "ack"
          => wire[c]["out"] # None
    /\ pc[c]["out"] = "dial" => pc[c]["in"] = "none"

\* The goroutines and the maps agree on who holds what.
HoldersOK(c, e) ==
    /\ pc[c][e] \in HoldsID => ids[At(c, e)][known[c][e]] = <<c, e>>
    /\ pc[c][e] \in HoldsAddr => addrs[At(c, e)][Far(c, e)] = <<c, e>>

IDOK(r, i) ==
    LET c == ids[r][i][1]  e == ids[r][i][2]
    IN ids[r][i] # None => At(c, e) = r /\ known[c][e] = i /\ pc[c][e] \in HoldsID

AddrOK(r, m) ==
    LET c == addrs[r][m][1]  e == addrs[r][m][2]
    IN addrs[r][m] # None => At(c, e) = r /\ Far(c, e) = m /\ pc[c][e] \in HoldsAddr

EndsOK == \A c \in Conns, e \in Ends : EndOK(c, e)
AcksOK == \A c \in Conns : AckOK(c)
RegistriesOK ==
    /\ \A c \in Conns, e \in Ends : HoldersOK(c, e)
    /\ \A r \in Nodes, i \in Identities : IDOK(r, i)
    /\ \A r \in Nodes, m \in Nodes : AddrOK(r, m)

ShakeIInv == TypeOK /\ EndsOK /\ AcksOK /\ RegistriesOK
-----------------------------------------------------------------------------
(* What the constants and the two ends are.                                *)

LEMMA Constants ==
    /\ \A c \in Conns, e \in Ends : At(c, e) \in Nodes /\ Far(c, e) \in Nodes
                                  /\ Other(e) \in Ends /\ Other(e) # e
                                  /\ Other(Other(e)) = e
                                  /\ Far(c, Other(e)) = At(c, e)
                                  /\ At(c, Other(e)) = Far(c, e)
                                  /\ <<c, e>> \in Entries
    /\ \A c \in Conns : /\ At(c, "out") = From[c] /\ Far(c, "out") = To[c]
                        /\ At(c, "in") = To[c] /\ Far(c, "in") = From[c]
    /\ \A x \in Entries : x = <<x[1], x[2]>> /\ x[1] \in Conns /\ x[2] \in Ends
    /\ None \notin Entries /\ None \notin Identities
    /\ "out" \in Ends /\ "in" \in Ends /\ Other("out") = "in" /\ Other("in") = "out"
BY ShakeConstants DEF At, Far, Other, Ends, Entries

LEMMA IdentityType ==
    ASSUME TypeOK, NEW r \in Nodes
    PROVE  Identity(r) \in Identities /\ Identity(r)[1] = r /\ Identity(r) # None
BY ShakeConstants DEF TypeOK, Identity, Identities

LEMMA EndTypes ==
    ASSUME TypeOK, NEW c \in Conns, NEW e \in Ends
    PROVE  /\ pc[c][e] \in Steps /\ open[c][e] \in BOOLEAN
           /\ known[c][e] \in Identities \cup {None}
           /\ wire[c][e] \in Identities \cup {None}
BY DEF TypeOK

\* A function of two arguments that is changed at one place.
LEMMA SetAt ==
    ASSUME NEW A, NEW B, NEW S, NEW f \in [A -> [B -> S]],
           NEW a \in A, NEW b \in B, NEW v \in S
    PROVE  LET g == [f EXCEPT ![a][b] = v]
           IN /\ g \in [A -> [B -> S]]
              /\ g[a][b] = v
              /\ \A x \in A, y \in B : <<x, y>> # <<a, b>> => g[x][y] = f[x][y]
OBVIOUS

\* Only the end (c, e) of f has changed.
OnlyAt(f, g, c, e) ==
    \A c2 \in Conns, e2 \in Ends : <<c2, e2>> # <<c, e>> => g[c2][e2] = f[c2][e2]

\* The goroutine of an end goes from s to t, the others stay where they are.
Moves(c, e, s, t) ==
    /\ pc[c][e] = s /\ pc'[c][e] = t
    /\ OnlyAt(pc, pc', c, e)
    /\ pc' \in [Conns -> [Ends -> Steps]]

LEMMA PcSet ==
    ASSUME TypeOK, NEW c \in Conns, NEW e \in Ends, NEW t \in Steps,
           pc' = [pc EXCEPT ![c][e] = t]
    PROVE  Moves(c, e, pc[c][e], t)
BY SetAt DEF TypeOK, Moves, OnlyAt

LEMMA GotoMoves ==
    ASSUME TypeOK, NEW c \in Conns, NEW e \in Ends, NEW s, NEW t \in Steps,
           Goto(c, e, s, t)
    PROVE  Moves(c, e, s, t)
BY PcSet DEF Goto

GivenUp(s) == IF s = "reading" THEN "deleteID" ELSE "close"

LEMMA GiveUpMoves ==
    ASSUME TypeOK, NEW c \in Conns, NEW e \in Ends, GiveUp(c, e)
    PROVE  Moves(c, e, pc[c][e], GivenUp(pc[c][e]))
<1>1. pc' = [pc EXCEPT ![c][e] = GivenUp(pc[c][e])]
  BY DEF GiveUp, GivenUp, TypeOK
<1>2. GivenUp(pc[c][e]) \in Steps
  BY DEF GivenUp, Steps
<1> QED
  BY <1>1, <1>2, PcSet

\* n's registry is changed under one ID, or under one address.
Registers(r, i, x) ==
    /\ ids' \in [Nodes -> [Identities -> Entries \cup {None}]]
    /\ ids'[r][i] = x
    /\ \A m \in Nodes, j \in Identities : <<m, j>> # <<r, i>> => ids'[m][j] = ids[m][j]

RegistersAddr(r, m, x) ==
    /\ addrs' \in [Nodes -> [Nodes -> Entries \cup {None}]]
    /\ addrs'[r][m] = x
    /\ \A q \in Nodes, j \in Nodes : <<q, j>> # <<r, m>> => addrs'[q][j] = addrs[q][j]

LEMMA IdsSet ==
    ASSUME TypeOK, NEW r \in Nodes, NEW i \in Identities, NEW x \in Entries \cup {None},
           ids' = [ids EXCEPT ![r][i] = x]
    PROVE  Registers(r, i, x)
BY SetAt DEF TypeOK, Registers

LEMMA AddrsSet ==
    ASSUME TypeOK, NEW r \in Nodes, NEW m \in Nodes, NEW x \in Entries \cup {None},
           addrs' = [addrs EXCEPT ![r][m] = x]
    PROVE  RegistersAddr(r, m, x)
BY SetAt DEF TypeOK, RegistersAddr

\* Every step is one of these.
LEMMA StepCases ==
    ASSUME [Next]_vars
    PROVE  \/ \E c \in Conns : Dial(c) \/ Connect(c) \/ ConnectFail(c)
                              \/ ReceiveHandshakeAck(c) \/ Accept(c)
                              \/ ReceiveHandshake(c) \/ SendHandshakeAck(c)
           \/ \E c \in Conns, e \in Ends :
                 \/ StoreID(c, e) \/ StoreAddr(c, e) \/ Rollback(c, e)
                 \/ Fail(c, e) \/ ReadEOF(c, e)
                 \/ DeleteID(c, e) \/ DeleteAddr(c, e) \/ Close(c, e)
           \/ \E r \in Nodes : Restart(r)
           \/ UNCHANGED vars
BY DEF Next, Goroutine
-----------------------------------------------------------------------------
(* What each action does, argument by argument.                            *)

\* Steps that say nothing to the other end.
Still == UNCHANGED <<inc, open, known, wire>>
StillIds == UNCHANGED ids
StillAddrs == UNCHANGED addrs

LEMMA DialDoes ==
    ASSUME TypeOK, NEW c \in Conns, Dial(c)
    PROVE  /\ Moves(c, "out", "none", "dial") /\ pc[c]["in"] = "none"
           /\ Still /\ StillIds /\ StillAddrs
BY Constants, GotoMoves DEF Dial, Still, StillIds, StillAddrs, Steps

LEMMA ConnectFailDoes ==
    ASSUME TypeOK, NEW c \in Conns, ConnectFail(c)
    PROVE  Moves(c, "out", "dial", "none") /\ Still /\ StillIds /\ StillAddrs
BY Constants, GotoMoves DEF ConnectFail, Still, StillIds, StillAddrs, Steps

LEMMA AcceptDoes ==
    ASSUME TypeOK, NEW c \in Conns, Accept(c)
    PROVE  /\ \E t \in {"hs", "close"} : Moves(c, "in", "backlog", t)
           /\ Still /\ StillIds /\ StillAddrs
<1>1. "hs" \in Steps /\ "close" \in Steps
  BY DEF Steps, Waiting
<1> QED
  BY <1>1, Constants, GotoMoves DEF Accept, Still, StillIds, StillAddrs

LEMMA StoreIDDoes ==
    ASSUME TypeOK, NEW c \in Conns, NEW e \in Ends, StoreID(c, e), known[c][e] # None
    PROVE  /\ Still /\ StillAddrs
           /\ \/ Moves(c, e, "storeID", "close") /\ StillIds
              \/ /\ Moves(c, e, "storeID", "storeAddr")
                 /\ ids[At(c, e)][known[c][e]] = None
                 /\ Registers(At(c, e), known[c][e], <<c, e>>)
<1>1. "storeAddr" \in Steps /\ "close" \in Steps
  BY DEF Steps
<1>2. known[c][e] \in Identities /\ At(c, e) \in Nodes /\ <<c, e>> \in Entries \cup {None}
  BY EndTypes, Constants
<1>3. CASE Goto(c, e, "storeID", "close") /\ UNCHANGED ids
  BY <1>1, <1>3, GotoMoves DEF StoreID, Still, StillAddrs, StillIds
<1>4. CASE /\ Goto(c, e, "storeID", "storeAddr")
           /\ ids[At(c, e)][known[c][e]] = None
           /\ ids' = [ids EXCEPT ![At(c, e)][known[c][e]] = <<c, e>>]
  <2>1. Moves(c, e, "storeID", "storeAddr")
    BY <1>1, <1>4, GotoMoves
  <2>2. Registers(At(c, e), known[c][e], <<c, e>>)
    BY <1>2, <1>4, IdsSet
  <2> QED
    BY <1>4, <2>1, <2>2 DEF StoreID, Still, StillAddrs
<1> QED
  BY <1>3, <1>4 DEF StoreID

LEMMA StoreAddrDoes ==
    ASSUME TypeOK, NEW c \in Conns, NEW e \in Ends, StoreAddr(c, e)
    PROVE  /\ Still /\ StillIds
           /\ \/ Moves(c, e, "storeAddr", "rollback") /\ StillAddrs
              \/ /\ Moves(c, e, "storeAddr", "reading")
                 /\ addrs[At(c, e)][Far(c, e)] = None
                 /\ RegistersAddr(At(c, e), Far(c, e), <<c, e>>)
<1>1. "reading" \in Steps /\ "rollback" \in Steps
  BY DEF Steps, Waiting
<1>2. At(c, e) \in Nodes /\ Far(c, e) \in Nodes /\ <<c, e>> \in Entries \cup {None}
  BY Constants
<1>3. CASE Goto(c, e, "storeAddr", "rollback") /\ UNCHANGED addrs
  BY <1>1, <1>3, GotoMoves DEF StoreAddr, Still, StillAddrs, StillIds
<1>4. CASE /\ Goto(c, e, "storeAddr", "reading")
           /\ addrs[At(c, e)][Far(c, e)] = None
           /\ addrs' = [addrs EXCEPT ![At(c, e)][Far(c, e)] = <<c, e>>]
  <2>1. Moves(c, e, "storeAddr", "reading")
    BY <1>1, <1>4, GotoMoves
  <2>2. RegistersAddr(At(c, e), Far(c, e), <<c, e>>)
    BY <1>2, <1>4, AddrsSet
  <2> QED
    BY <1>4, <2>1, <2>2 DEF StoreAddr, Still, StillIds
<1> QED
  BY <1>3, <1>4 DEF StoreAddr

LEMMA RollbackDoes ==
    ASSUME TypeOK, NEW c \in Conns, NEW e \in Ends, Rollback(c, e), known[c][e] # None
    PROVE  /\ Moves(c, e, "rollback", "close") /\ Still /\ StillAddrs
           /\ Registers(At(c, e), known[c][e], None)
<1>1. "close" \in Steps
  BY DEF Steps
<1>2. known[c][e] \in Identities /\ At(c, e) \in Nodes
  BY EndTypes, Constants
<1> QED
  BY <1>1, <1>2, GotoMoves, IdsSet DEF Rollback, Still, StillAddrs

LEMMA DeleteIDDoes ==
    ASSUME TypeOK, NEW c \in Conns, NEW e \in Ends, DeleteID(c, e), known[c][e] # None
    PROVE  /\ Moves(c, e, "deleteID", "deleteAddr") /\ Still /\ StillAddrs
           /\ Registers(At(c, e), known[c][e], None)
<1>1. "deleteAddr" \in Steps
  BY DEF Steps
<1>2. known[c][e] \in Identities /\ At(c, e) \in Nodes
  BY EndTypes, Constants
<1> QED
  BY <1>1, <1>2, GotoMoves, IdsSet DEF DeleteID, Still, StillAddrs

LEMMA DeleteAddrDoes ==
    ASSUME TypeOK, NEW c \in Conns, NEW e \in Ends, DeleteAddr(c, e)
    PROVE  /\ Moves(c, e, "deleteAddr", "close") /\ Still /\ StillIds
           /\ RegistersAddr(At(c, e), Far(c, e), None)
<1>1. "close" \in Steps
  BY DEF Steps
<1> QED
  BY <1>1, Constants, GotoMoves, AddrsSet DEF DeleteAddr, Still, StillIds

LEMMA GiveUpDoes ==
    ASSUME TypeOK, NEW c \in Conns, NEW e \in Ends, Fail(c, e) \/ ReadEOF(c, e)
    PROVE  /\ \E s \in Waiting \cup {"sendAck"} : Moves(c, e, s, GivenUp(s))
           /\ Still /\ StillIds /\ StillAddrs
<1>1. GiveUp(c, e) /\ pc[c][e] \in Waiting \cup {"sendAck"}
  BY DEF Fail, ReadEOF
<1>2. Still /\ StillIds /\ StillAddrs
  BY <1>1 DEF GiveUp, Still, StillIds, StillAddrs
<1> QED
  BY <1>1, <1>2, GiveUpMoves

Empties(c, e) ==
    /\ open' \in [Conns -> [Ends -> BOOLEAN]]
    /\ known' \in [Conns -> [Ends -> Identities \cup {None}]]
    /\ wire' \in [Conns -> [Ends -> Identities \cup {None}]]
    /\ ~open'[c][e] /\ known'[c][e] = None /\ wire'[c][e] = None
    /\ OnlyAt(open, open', c, e) /\ OnlyAt(known, known', c, e) /\ OnlyAt(wire, wire', c, e)

LEMMA CloseDoes ==
    ASSUME TypeOK, NEW c \in Conns, NEW e \in Ends, Close(c, e)
    PROVE  /\ Moves(c, e, "close", "none") /\ Empties(c, e)
           /\ UNCHANGED inc /\ StillIds /\ StillAddrs
<1>1. Moves(c, e, "close", "none")
  BY GotoMoves DEF Close, Steps
<1>2. open' \in [Conns -> [Ends -> BOOLEAN]] /\ ~open'[c][e] /\ OnlyAt(open, open', c, e)
  <2>1. /\ open \in [Conns -> [Ends -> BOOLEAN]] /\ FALSE \in BOOLEAN
        /\ open' = [open EXCEPT ![c][e] = FALSE]
    BY DEF TypeOK, Close
  <2>2. open' \in [Conns -> [Ends -> BOOLEAN]] /\ open'[c][e] = FALSE
    BY <2>1
  <2>3. OnlyAt(open, open', c, e)
    BY <2>1 DEF OnlyAt
  <2> QED
    BY <2>2, <2>3
<1>3. /\ known' \in [Conns -> [Ends -> Identities \cup {None}]]
      /\ known'[c][e] = None /\ OnlyAt(known, known', c, e)
  BY SetAt DEF TypeOK, Close, OnlyAt
<1>4. /\ wire' \in [Conns -> [Ends -> Identities \cup {None}]]
      /\ wire'[c][e] = None /\ OnlyAt(wire, wire', c, e)
  BY SetAt DEF TypeOK, Close, OnlyAt
<1> QED
  BY <1>1, <1>2, <1>3, <1>4 DEF Close, Empties, StillIds, StillAddrs

\* The message m is on its way to an end.
Sends(c, e, m) ==
    /\ wire' \in [Conns -> [Ends -> Identities \cup {None}]]
    /\ wire'[c][e] = m
    /\ OnlyAt(wire, wire', c, e)

LEMMA SendDoes ==
    ASSUME TypeOK, NEW c \in Conns, SendHandshakeAck(c)
    PROVE  /\ Moves(c, "in", "sendAck", "storeID")
           /\ Sends(c, "out", IF open[c]["out"] THEN Identity(To[c]) ELSE None)
           /\ UNCHANGED <<inc, open, known>> /\ StillIds /\ StillAddrs
<1> DEFINE m == IF open[c]["out"] THEN Identity(To[c]) ELSE None
<1>1. m \in Identities \cup {None}
  BY Constants, IdentityType
<1>2. wire' = [wire EXCEPT ![c]["out"] = m]
  BY DEF SendHandshakeAck
<1> HIDE DEF m
<1>3. Sends(c, "out", m)
  BY <1>1, <1>2, Constants, SetAt DEF TypeOK, Sends, OnlyAt
<1>4. Moves(c, "in", "sendAck", "storeID")
  BY Constants, GotoMoves DEF SendHandshakeAck, Steps
<1> QED
  BY <1>3, <1>4 DEF m, SendHandshakeAck, StillIds, StillAddrs

LEMMA ConnectDoes ==
    ASSUME TypeOK, NEW c \in Conns, Connect(c)
    PROVE  /\ pc[c]["out"] = "dial" /\ pc'[c]["out"] = "ack" /\ pc'[c]["in"] = "backlog"
           /\ \A e \in Ends : open'[c][e]
           /\ \A d \in Conns \ {c}, e \in Ends : pc'[d][e] = pc[d][e] /\ open'[d][e] = open[d][e]
           /\ pc' \in [Conns -> [Ends -> Steps]]
           /\ open' \in [Conns -> [Ends -> BOOLEAN]]
           /\ Sends(c, "in", Identity(From[c]))
           /\ UNCHANGED <<inc, known>> /\ StillIds /\ StillAddrs
<1> DEFINE step == [e \in Ends |-> IF e = "out" THEN "ack" ELSE "backlog"]
           up == [e \in Ends |-> TRUE]
<1>1. step \in [Ends -> Steps] /\ step["out"] = "ack" /\ step["in"] = "backlog"
  BY DEF Ends, Steps, Waiting
<1>2. up \in [Ends -> BOOLEAN] /\ \A e \in Ends : up[e]
  OBVIOUS
<1>3. /\ pc[c]["out"] = "dial" /\ pc' = [pc EXCEPT ![c] = step]
      /\ open' = [open EXCEPT ![c] = up]
      /\ wire' = [wire EXCEPT ![c]["in"] = Identity(From[c])]
      /\ UNCHANGED <<inc, known>> /\ StillIds /\ StillAddrs
  BY DEF Connect, StillIds, StillAddrs
<1> HIDE DEF step, up
<1>4. Sends(c, "in", Identity(From[c]))
  <2>1. Identity(From[c]) \in Identities \cup {None} /\ "in" \in Ends
    BY Constants, IdentityType
  <2>2. /\ wire \in [Conns -> [Ends -> Identities \cup {None}]]
        /\ wire' = [wire EXCEPT ![c]["in"] = Identity(From[c])]
    BY <1>3 DEF TypeOK
  <2> QED
    BY <2>1, <2>2, SetAt DEF Sends, OnlyAt
<1>5. /\ pc' \in [Conns -> [Ends -> Steps]] /\ pc'[c] = step
      /\ \A d \in Conns \ {c} : pc'[d] = pc[d]
  BY <1>1, <1>3 DEF TypeOK
<1>6. /\ open' \in [Conns -> [Ends -> BOOLEAN]] /\ open'[c] = up
      /\ \A d \in Conns \ {c} : open'[d] = open[d]
  BY <1>2, <1>3 DEF TypeOK
<1> QED
  BY <1>1, <1>2, <1>3, <1>4, <1>5, <1>6

Hears(c, e, s, t, good) ==
    /\ wire[c][e] # None
    /\ IF good THEN Moves(c, e, s, t) /\ known'[c][e] = wire[c][e]
               ELSE Moves(c, e, s, "close") /\ known'[c][e] = known[c][e]
    /\ OnlyAt(known, known', c, e)
    /\ known' \in [Conns -> [Ends -> Identities \cup {None}]]
    /\ Sends(c, e, None)
    /\ UNCHANGED <<inc, open>> /\ StillIds /\ StillAddrs

LEMMA ReceiveDoes ==
    ASSUME TypeOK, NEW c \in Conns, NEW e \in Ends, NEW s, NEW t \in Steps,
           NEW good \in BOOLEAN, Receive(c, e, s, good, t)
    PROVE  Hears(c, e, s, t, good)
<1> DEFINE x == IF good THEN t ELSE "close"
           q == IF good THEN wire[c][e] ELSE known[c][e]
<1>1. x \in Steps /\ q \in Identities \cup {None}
  BY DEF Steps, TypeOK
<1>2. /\ pc[c][e] = s /\ wire[c][e] # None
      /\ wire' = [wire EXCEPT ![c][e] = None]
      /\ pc' = [pc EXCEPT ![c][e] = x]
      /\ known' = [known EXCEPT ![c][e] = q]
      /\ UNCHANGED <<inc, open>> /\ StillIds /\ StillAddrs
  BY DEF Receive, TypeOK, StillIds, StillAddrs
<1> HIDE DEF x, q
<1>3. Moves(c, e, s, x)
  BY <1>1, <1>2, PcSet
<1>4. /\ known' \in [Conns -> [Ends -> Identities \cup {None}]]
      /\ known'[c][e] = q /\ OnlyAt(known, known', c, e)
  BY <1>1, <1>2, SetAt DEF TypeOK, OnlyAt
<1>5. Sends(c, e, None)
  BY <1>2, SetAt DEF TypeOK, Sends, OnlyAt
<1> QED
  BY <1>2, <1>3, <1>4, <1>5 DEF Hears, x, q

LEMMA ReceivesAck ==
    ASSUME TypeOK, NEW c \in Conns, ReceiveHandshakeAck(c)
    PROVE  Hears(c, "out", "ack", "storeID", wire[c]["out"] # Identity(From[c]))
BY Constants, ReceiveDoes DEF ReceiveHandshakeAck, Steps

LEMMA ReceivesHandshake ==
    ASSUME TypeOK, NEW c \in Conns, ReceiveHandshake(c)
    PROVE  Hears(c, "in", "hs", "sendAck", Greets(To[c], wire[c]["in"]))
<1>1. wire[c]["in"] # None
  BY DEF ReceiveHandshake, Receive
<1>2. Receive(c, "in", "hs", Greets(To[c], wire[c]["in"]), "sendAck")
  BY <1>1 DEF ReceiveHandshake, Receive
<1>3. Greets(To[c], wire[c]["in"]) \in BOOLEAN /\ "sendAck" \in Steps
  BY DEF Greets, Steps
<1> QED
  BY <1>2, <1>3, Constants, ReceiveDoes

LEMMA RestartDoes ==
    ASSUME TypeOK, NEW r \in Nodes, Restart(r)
    PROVE  /\ TypeOK'
           /\ \A m \in Nodes \ {r} : inc'[m] = inc[m] /\ ids'[m] = ids[m] /\ addrs'[m] = addrs[m]
           /\ \A i \in Identities : ids'[r][i] = None
           /\ \A m \in Nodes : addrs'[r][m] = None
           /\ \A c \in Conns, e \in Ends : At(c, e) = r =>
                 pc'[c][e] = "none" /\ ~open'[c][e] /\ known'[c][e] = None /\ wire'[c][e] = None
           /\ \A c \in Conns, e \in Ends : At(c, e) # r =>
                 /\ pc'[c][e] = pc[c][e] /\ open'[c][e] = open[c][e]
                 /\ known'[c][e] = known[c][e] /\ wire'[c][e] = wire[c][e]
<1>1. /\ inc' \in [Nodes -> 0 .. MaxRestarts]
      /\ \A m \in Nodes \ {r} : inc'[m] = inc[m]
  BY ShakeConstants DEF TypeOK, Restart
<1>2. /\ ids' \in [Nodes -> [Identities -> Entries \cup {None}]]
      /\ \A m \in Nodes \ {r} : ids'[m] = ids[m]
      /\ \A i \in Identities : ids'[r][i] = None
  BY DEF TypeOK, Restart
<1>3. /\ addrs' \in [Nodes -> [Nodes -> Entries \cup {None}]]
      /\ \A m \in Nodes \ {r} : addrs'[m] = addrs[m]
      /\ \A m \in Nodes : addrs'[r][m] = None
  BY DEF TypeOK, Restart
<1>4. /\ pc' = [c \in Conns |-> [e \in Ends |-> IF At(c, e) = r THEN "none" ELSE pc[c][e]]]
      /\ open' = [c \in Conns |-> [e \in Ends |-> IF At(c, e) = r THEN FALSE ELSE open[c][e]]]
      /\ known' = [c \in Conns |-> [e \in Ends |-> IF At(c, e) = r THEN None ELSE known[c][e]]]
      /\ wire' = [c \in Conns |-> [e \in Ends |-> IF At(c, e) = r THEN None ELSE wire[c][e]]]
  BY DEF Restart
<1>5. /\ pc' \in [Conns -> [Ends -> Steps]]
      /\ open' \in [Conns -> [Ends -> BOOLEAN]]
      /\ known' \in [Conns -> [Ends -> Identities \cup {None}]]
      /\ wire' \in [Conns -> [Ends -> Identities \cup {None}]]
  BY <1>4 DEF TypeOK, Steps
<1> QED
  BY <1>1, <1>2, <1>3, <1>4, <1>5 DEF TypeOK
-----------------------------------------------------------------------------
(* Every action keeps the type.                                            *)

LEMMA ShakeTypeStep ==
    ASSUME TypeOK, EndsOK, [Next]_vars
    PROVE  TypeOK'
<1>0. \A c \in Conns, e \in Ends : pc[c][e] \in KnowsPeer => known[c][e] # None
  BY DEF EndsOK, EndOK
<1> USE DEF Still, StillIds, StillAddrs
<1>1. ASSUME NEW c \in Conns,
             \/ Dial(c) \/ Connect(c) \/ ConnectFail(c) \/ ReceiveHandshakeAck(c)
             \/ Accept(c) \/ ReceiveHandshake(c) \/ SendHandshakeAck(c)
      PROVE  TypeOK'
  <2>1. CASE Dial(c) \/ ConnectFail(c) \/ Accept(c)
    BY <2>1, DialDoes, ConnectFailDoes, AcceptDoes DEF Moves, TypeOK
  <2>2. CASE Connect(c)
    BY <2>2, ConnectDoes DEF Sends, TypeOK
  <2>3. CASE ReceiveHandshakeAck(c)
    BY <2>3, ReceivesAck DEF Hears, Moves, Sends, TypeOK
  <2>4. CASE ReceiveHandshake(c)
    BY <2>4, ReceivesHandshake DEF Hears, Moves, Sends, TypeOK
  <2>5. CASE SendHandshakeAck(c)
    BY <2>5, SendDoes DEF Moves, Sends, TypeOK
  <2> QED
    BY <1>1, <2>1, <2>2, <2>3, <2>4, <2>5
<1>2. ASSUME NEW c \in Conns, NEW e \in Ends,
             \/ StoreID(c, e) \/ StoreAddr(c, e) \/ Rollback(c, e)
             \/ Fail(c, e) \/ ReadEOF(c, e)
             \/ DeleteID(c, e) \/ DeleteAddr(c, e) \/ Close(c, e)
      PROVE  TypeOK'
  <2>1. CASE StoreID(c, e) \/ Rollback(c, e) \/ DeleteID(c, e)
    <3>1. known[c][e] # None
      BY <1>0, <2>1 DEF StoreID, Rollback, DeleteID, Goto, KnowsPeer, HoldsID
    <3> QED
      BY <2>1, <3>1, StoreIDDoes, RollbackDoes, DeleteIDDoes DEF Moves, Registers, TypeOK
  <2>2. CASE StoreAddr(c, e) \/ DeleteAddr(c, e)
    BY <2>2, StoreAddrDoes, DeleteAddrDoes DEF Moves, RegistersAddr, TypeOK
  <2>3. CASE Fail(c, e) \/ ReadEOF(c, e)
    BY <2>3, GiveUpDoes DEF Moves, TypeOK
  <2>4. CASE Close(c, e)
    BY <2>4, CloseDoes DEF Moves, Empties, TypeOK
  <2> QED
    BY <1>2, <2>1, <2>2, <2>3, <2>4
<1>3. ASSUME NEW r \in Nodes, Restart(r)
      PROVE  TypeOK'
  BY <1>3, RestartDoes
<1>4. CASE UNCHANGED vars
  BY <1>4 DEF vars, TypeOK
<1> QED
  BY <1>1, <1>2, <1>3, <1>4, StepCases
-----------------------------------------------------------------------------
(* What an end knows of the other one, and the Ack.                        *)

\* A step of one goroutine that neither sends nor reads nor opens nor closes.
QuietMove(c, e) ==
    LET s == pc[c][e]  t == pc'[c][e]
    IN /\ Still /\ OnlyAt(pc, pc', c, e)
       /\ t \in StepsOf(e) /\ t # "ack"
       /\ t \in {"none", "dial"} <=> s \in {"none", "dial"}
       /\ t \in KnowsPeer => s \in KnowsPeer \ {"sendAck"}
       /\ t \in {"backlog", "hs", "sendAck"} => s \in {"backlog", "hs", "sendAck"}
       /\ s \in {"ack", "close"} => t = "close"
       /\ t = "dial" => pc[c]["in"] = "none"
       /\ e = "in" /\ pc[c]["out"] = "dial" => t = "none"

LEMMA QuietMoves ==
    ASSUME TypeOK, EndsOK, AcksOK, NEW c \in Conns, NEW e \in Ends,
           \/ e = "out" /\ (Dial(c) \/ ConnectFail(c))
           \/ e = "in" /\ Accept(c)
           \/ StoreID(c, e) \/ StoreAddr(c, e) \/ Rollback(c, e)
           \/ Fail(c, e) \/ ReadEOF(c, e)
           \/ DeleteID(c, e) \/ DeleteAddr(c, e)
    PROVE  QuietMove(c, e)
<1>1. /\ pc[c][e] \in StepsOf(e)
      /\ pc[c][e] \in KnowsPeer => known[c][e] # None
      /\ pc[c]["out"] = "dial" => pc[c]["in"] = "none"
  BY DEF EndsOK, EndOK, AcksOK, AckOK
<1> USE DEF QuietMove, StepsOf, Steps, Waiting, KnowsPeer, HoldsID, HoldsAddr
<1>2. CASE e = "out" /\ (Dial(c) \/ ConnectFail(c))
  BY <1>1, <1>2, DialDoes, ConnectFailDoes DEF Moves
<1>3. CASE e = "in" /\ Accept(c)
  BY <1>1, <1>3, AcceptDoes DEF Moves
<1>4. CASE StoreID(c, e)
  <2>1. known[c][e] # None
    BY <1>1, <1>4 DEF StoreID, Goto
  <2> QED
    BY <1>1, <1>4, <2>1, StoreIDDoes DEF Moves
<1>5. CASE StoreAddr(c, e)
  BY <1>1, <1>5, StoreAddrDoes DEF Moves
<1>6. CASE Rollback(c, e)
  <2>1. known[c][e] # None
    BY <1>1, <1>6 DEF Rollback, Goto
  <2> QED
    BY <1>1, <1>6, <2>1, RollbackDoes DEF Moves
<1>7. CASE Fail(c, e) \/ ReadEOF(c, e)
  BY <1>1, <1>7, GiveUpDoes DEF Moves, GivenUp
<1>8. CASE DeleteID(c, e)
  <2>1. known[c][e] # None
    BY <1>1, <1>8 DEF DeleteID, Goto
  <2> QED
    BY <1>1, <1>8, <2>1, DeleteIDDoes DEF Moves
<1>9. CASE DeleteAddr(c, e)
  BY <1>1, <1>9, DeleteAddrDoes DEF Moves
<1> QED
  BY <1>2, <1>3, <1>4, <1>5, <1>6, <1>7, <1>8, <1>9

\* As long as no node is restarted, everybody is who they were.
LEMMA SameIdentities ==
    ASSUME inc' = inc
    PROVE  /\ \A r : Identity(r)' = Identity(r)
           /\ \A i, r : Compatible(i, r)' = Compatible(i, r)
BY DEF Identity, Compatible

LEMMA QuietEnds ==
    ASSUME EndsOK, AcksOK, NEW c \in Conns, NEW e \in Ends, QuietMove(c, e)
    PROVE  EndsOK' /\ AcksOK'
<1> USE DEF QuietMove, Still, OnlyAt
<1>0. inc' = inc /\ open' = open /\ known' = known /\ wire' = wire
  OBVIOUS
<1>1. ASSUME NEW d \in Conns, NEW f \in Ends
      PROVE  EndOK(d, f)'
  <2>1. EndOK(d, f)
    BY DEF EndsOK
  <2>2. HeardOK(d, f, wire[d][f])' /\ HeardOK(d, f, known[d][f])'
    BY <1>0, <2>1, SameIdentities DEF EndOK, HeardOK
  <2>3. (known[d][f] # None => Compatible(known[d][f], At(d, f)))'
    BY <1>0, <2>1, SameIdentities DEF EndOK
  <2>4. CASE <<d, f>> = <<c, e>>
    BY <1>0, <2>1, <2>2, <2>3, <2>4 DEF EndOK
  <2>5. CASE <<d, f>> # <<c, e>>
    BY <1>0, <2>1, <2>2, <2>3, <2>5 DEF EndOK
  <2> QED
    BY <2>4, <2>5
<1>2. ASSUME NEW d \in Conns
      PROVE  AckOK(d)'
  <2>1. AckOK(d) /\ EndOK(d, "out") /\ EndOK(d, "in")
    BY Constants DEF EndsOK, AcksOK
  <2>2. (wire[d]["out"] # None => Compatible(wire[d]["out"], From[d]))'
    BY <1>0, <2>1, SameIdentities DEF AckOK
  <2>3. CASE d # c
    BY <1>0, <2>1, <2>2, <2>3, Constants DEF AckOK
  <2>4. CASE d = c /\ e = "out"
    <3>1. pc'[d]["in"] = pc[d]["in"]
      BY <2>4, Constants
    <3> QED
      BY <1>0, <2>1, <2>2, <2>4, <3>1 DEF AckOK, EndOK
  <2>5. CASE d = c /\ e = "in"
    <3>1. pc'[d]["out"] = pc[d]["out"]
      BY <2>5, Constants
    <3> QED
      BY <1>0, <2>1, <2>2, <2>5, <3>1 DEF AckOK, EndOK
  <2> QED
    BY <2>3, <2>4, <2>5 DEF Ends
<1> QED
  BY <1>1, <1>2 DEF EndsOK, AcksOK

\* Nothing has happened to either end of a connection.
Untouched(d) ==
    \A f \in Ends : /\ pc'[d][f] = pc[d][f] /\ open'[d][f] = open[d][f]
                    /\ known'[d][f] = known[d][f] /\ wire'[d][f] = wire[d][f]

LEMMA UntouchedOK ==
    ASSUME EndsOK, AcksOK, inc' = inc, NEW d \in Conns, Untouched(d)
    PROVE  EndOK(d, "out")' /\ EndOK(d, "in")' /\ AckOK(d)'
<1>1. AckOK(d) /\ EndOK(d, "out") /\ EndOK(d, "in")
  BY Constants DEF EndsOK, AcksOK
<1>2. ASSUME NEW f \in Ends
      PROVE  EndOK(d, f)'
  <2>1. EndOK(d, f) /\ Other(f) \in Ends
    BY Constants DEF EndsOK
  <2>2. HeardOK(d, f, wire[d][f])' /\ HeardOK(d, f, known[d][f])'
    BY <2>1, SameIdentities DEF EndOK, HeardOK, Untouched
  <2>3. (known[d][f] # None => Compatible(known[d][f], At(d, f)))'
    BY <2>1, SameIdentities DEF EndOK, Untouched
  <2> QED
    BY <2>1, <2>2, <2>3 DEF EndOK, Untouched
<1>3. AckOK(d)'
  BY <1>1, SameIdentities, Constants DEF AckOK, Untouched
<1> QED
  BY <1>2, <1>3, Constants

\* A step that touches one connection alone.
LEMMA OneConn ==
    ASSUME EndsOK, AcksOK, inc' = inc, NEW c \in Conns,
           \A d \in Conns \ {c} : Untouched(d),
           EndOK(c, "out")', EndOK(c, "in")', AckOK(c)'
    PROVE  EndsOK' /\ AcksOK'
BY UntouchedOK DEF EndsOK, AcksOK, Ends

LEMMA OutsideUntouched ==
    ASSUME NEW c \in Conns, NEW e \in Ends, OnlyAt(pc, pc', c, e),
           open' = open \/ OnlyAt(open, open', c, e),
           known' = known \/ OnlyAt(known, known', c, e),
           wire' = wire \/ (\E f \in Ends : OnlyAt(wire, wire', c, f))
    PROVE  \A d \in Conns \ {c} : Untouched(d)
BY DEF OnlyAt, Untouched

LEMMA ConnectEnds ==
    ASSUME TypeOK, EndsOK, AcksOK, NEW c \in Conns, Connect(c)
    PROVE  EndsOK' /\ AcksOK'
<1>1. AckOK(c) /\ EndOK(c, "out") /\ EndOK(c, "in")
  BY Constants DEF EndsOK, AcksOK
<1>2. /\ pc[c]["out"] = "dial" /\ pc'[c]["out"] = "ack" /\ pc'[c]["in"] = "backlog"
      /\ open'[c]["out"] /\ open'[c]["in"]
      /\ wire'[c]["in"] = Identity(From[c]) /\ wire'[c]["out"] = wire[c]["out"]
      /\ known' = known /\ inc' = inc
  BY ConnectDoes, Constants DEF Sends, OnlyAt
<1>3. \A d \in Conns \ {c} : Untouched(d)
  BY ConnectDoes, Constants DEF Sends, OnlyAt, Untouched
<1>4. /\ known[c]["out"] = None /\ wire[c]["out"] = None
      /\ known[c]["in"] = None /\ pc[c]["in"] = "none"
  BY <1>1, <1>2 DEF AckOK, EndOK
<1>5. /\ Identity(From[c])' = Identity(From[c]) /\ Identity(From[c])[1] = From[c]
      /\ Identity(From[c]) # None
  BY <1>2, SameIdentities, IdentityType, Constants
<1>6. EndOK(c, "out")'
  BY <1>2, <1>4, Constants DEF EndOK, HeardOK, StepsOf, Steps, Waiting, KnowsPeer, HoldsID, HoldsAddr
<1>7. EndOK(c, "in")'
  BY <1>2, <1>4, <1>5, Constants DEF EndOK, HeardOK, StepsOf, Steps, Waiting, KnowsPeer, HoldsID, HoldsAddr
<1>8. AckOK(c)'
  BY <1>2, <1>4 DEF AckOK, KnowsPeer, HoldsID, HoldsAddr
<1> QED
  BY <1>2, <1>3, <1>6, <1>7, <1>8, OneConn

LEMMA ReceiveAckEnds ==
    ASSUME TypeOK, EndsOK, AcksOK, NEW c \in Conns, ReceiveHandshakeAck(c)
    PROVE  EndsOK' /\ AcksOK'
<1> DEFINE good == wire[c]["out"] # Identity(From[c])
<1>1. AckOK(c) /\ EndOK(c, "out") /\ EndOK(c, "in")
  BY Constants DEF EndsOK, AcksOK
<1>2. Hears(c, "out", "ack", "storeID", good)
  BY ReceivesAck
<1>3. /\ pc[c]["out"] = "ack" /\ wire[c]["out"] # None /\ wire'[c]["out"] = None
      /\ IF good THEN pc'[c]["out"] = "storeID" /\ known'[c]["out"] = wire[c]["out"]
                 ELSE pc'[c]["out"] = "close" /\ known'[c]["out"] = known[c]["out"]
      /\ pc'[c]["in"] = pc[c]["in"] /\ wire'[c]["in"] = wire[c]["in"]
      /\ known'[c]["in"] = known[c]["in"] /\ open' = open /\ inc' = inc
  BY <1>2, Constants DEF Hears, Moves, Sends, OnlyAt
<1>4. \A d \in Conns \ {c} : Untouched(d)
  <2>1. /\ OnlyAt(pc, pc', c, "out") /\ OnlyAt(known, known', c, "out")
        /\ OnlyAt(wire, wire', c, "out") /\ open' = open
    BY <1>2 DEF Hears, Moves, Sends
  <2> QED
    BY <2>1, Constants, OutsideUntouched
<1> HIDE DEF good
<1>5. EndOK(c, "out")'
  BY <1>1, <1>3, Constants, SameIdentities
     DEF EndOK, HeardOK, AckOK, StepsOf, Steps, Waiting, KnowsPeer, HoldsID, HoldsAddr
<1>6. EndOK(c, "in")'
  BY <1>1, <1>3, Constants, SameIdentities DEF EndOK, HeardOK
<1>7. AckOK(c)'
  BY <1>1, <1>3, SameIdentities DEF AckOK, EndOK
<1> QED
  BY <1>3, <1>4, <1>5, <1>6, <1>7, OneConn

LEMMA ReceiveHandshakeEnds ==
    ASSUME TypeOK, EndsOK, AcksOK, NEW c \in Conns, ReceiveHandshake(c)
    PROVE  EndsOK' /\ AcksOK'
<1> DEFINE good == Greets(To[c], wire[c]["in"])
<1>1. AckOK(c) /\ EndOK(c, "out") /\ EndOK(c, "in")
  BY Constants DEF EndsOK, AcksOK
<1>2. Hears(c, "in", "hs", "sendAck", good)
  BY ReceivesHandshake
<1>3. /\ pc[c]["in"] = "hs" /\ wire[c]["in"] # None /\ wire'[c]["in"] = None
      /\ IF good THEN pc'[c]["in"] = "sendAck" /\ known'[c]["in"] = wire[c]["in"]
                 ELSE pc'[c]["in"] = "close" /\ known'[c]["in"] = known[c]["in"]
      /\ pc'[c]["out"] = pc[c]["out"] /\ wire'[c]["out"] = wire[c]["out"]
      /\ known'[c]["out"] = known[c]["out"] /\ open' = open /\ inc' = inc
  BY <1>2, Constants DEF Hears, Moves, Sends, OnlyAt
<1>4. \A d \in Conns \ {c} : Untouched(d)
  <2>1. /\ OnlyAt(pc, pc', c, "in") /\ OnlyAt(known, known', c, "in")
        /\ OnlyAt(wire, wire', c, "in") /\ open' = open
    BY <1>2 DEF Hears, Moves, Sends
  <2> QED
    BY <2>1, Constants, OutsideUntouched
<1>5. good => Compatible(wire[c]["in"], To[c])
  <2>1. ASSUME good
        PROVE  Compatible(wire[c]["in"], To[c])
    <3>1. /\ wire[c]["in"] # Identity(To[c])
          /\ VersionOf[wire[c]["in"]] = VersionOf[Identity(To[c])]
      BY <2>1 DEF Greets, SameVersion
    <3>2. wire[c]["in"][1] # To[c]
      BY <1>1, <1>3, <3>1, Constants DEF EndOK, HeardOK
    <3> QED
      BY <3>1, <3>2 DEF Compatible
  <2> QED
    BY <2>1
<1> HIDE DEF good
<1>6. EndOK(c, "in")'
  BY <1>1, <1>3, <1>5, Constants, SameIdentities
     DEF EndOK, HeardOK, StepsOf, Steps, Waiting, KnowsPeer, HoldsID, HoldsAddr
<1>7. EndOK(c, "out")'
  BY <1>1, <1>3, Constants, SameIdentities DEF EndOK, HeardOK
<1>8. AckOK(c)'
  BY <1>1, <1>3, SameIdentities DEF AckOK, EndOK, KnowsPeer, HoldsID, HoldsAddr
<1> QED
  BY <1>3, <1>4, <1>6, <1>7, <1>8, OneConn

LEMMA SendAckEnds ==
    ASSUME TypeOK, EndsOK, AcksOK, NEW c \in Conns, SendHandshakeAck(c)
    PROVE  EndsOK' /\ AcksOK'
<1>1. AckOK(c) /\ EndOK(c, "out") /\ EndOK(c, "in")
  BY Constants DEF EndsOK, AcksOK
<1>2. /\ pc[c]["in"] = "sendAck" /\ pc'[c]["in"] = "storeID"
      /\ wire'[c]["out"] = IF open[c]["out"] THEN Identity(To[c]) ELSE None
      /\ pc'[c]["out"] = pc[c]["out"] /\ wire'[c]["in"] = wire[c]["in"]
      /\ open' = open /\ known' = known /\ inc' = inc
  BY SendDoes, Constants DEF Moves, Sends, OnlyAt
<1>3. \A d \in Conns \ {c} : Untouched(d)
  <2>1. /\ OnlyAt(pc, pc', c, "in") /\ OnlyAt(wire, wire', c, "out")
        /\ open' = open /\ known' = known
    BY SendDoes DEF Moves, Sends
  <2> QED
    BY <2>1, Constants, OutsideUntouched
<1>4. /\ Identity(To[c])' = Identity(To[c]) /\ Identity(To[c])[1] = To[c]
      /\ Identity(To[c]) # None
  BY <1>2, SameIdentities, IdentityType, Constants
<1>5. EndOK(c, "in")'
  BY <1>1, <1>2, Constants, SameIdentities
     DEF EndOK, HeardOK, StepsOf, Steps, Waiting, KnowsPeer, HoldsID, HoldsAddr
<1>6. EndOK(c, "out")'
  BY <1>1, <1>2, <1>4, Constants, SameIdentities DEF EndOK, HeardOK
<1>7. open[c]["out"] => Compatible(Identity(To[c]), From[c])
  <2>1. ASSUME open[c]["out"]
        PROVE  Compatible(Identity(To[c]), From[c])
    <3>1. /\ known[c]["in"] # None /\ known[c]["in"] = Identity(From[c])
          /\ Compatible(known[c]["in"], To[c])
      BY <1>1, <1>2, <2>1, Constants DEF EndOK, HeardOK, KnowsPeer
    <3>2. Identity(From[c])[1] = From[c]
      BY IdentityType, Constants
    <3> QED
      BY <1>4, <3>1, <3>2 DEF Compatible
  <2> QED
    BY <2>1
<1>8. AckOK(c)'
  BY <1>1, <1>2, <1>4, <1>7, SameIdentities DEF AckOK, EndOK, KnowsPeer, HoldsID, HoldsAddr
<1> QED
  BY <1>2, <1>3, <1>5, <1>6, <1>8, OneConn

LEMMA CloseEnds ==
    ASSUME TypeOK, EndsOK, AcksOK, NEW c \in Conns, NEW e \in Ends, Close(c, e)
    PROVE  EndsOK' /\ AcksOK'
<1>1. AckOK(c) /\ EndOK(c, "out") /\ EndOK(c, "in")
  BY Constants DEF EndsOK, AcksOK
<1>2. /\ pc[c][e] = "close" /\ pc'[c][e] = "none" /\ inc' = inc
      /\ ~open'[c][e] /\ known'[c][e] = None /\ wire'[c][e] = None
      /\ OnlyAt(pc, pc', c, e) /\ OnlyAt(open, open', c, e)
      /\ OnlyAt(known, known', c, e) /\ OnlyAt(wire, wire', c, e)
  BY CloseDoes DEF Moves, Empties
<1>3. \A d \in Conns \ {c} : Untouched(d)
  BY <1>2, OutsideUntouched
<1>4. EndOK(c, e)'
  BY <1>2, Constants
     DEF EndOK, HeardOK, StepsOf, Steps, Waiting, KnowsPeer, HoldsID, HoldsAddr
<1> DEFINE f == Other(e)
<1>5. /\ f \in Ends /\ f # e /\ Other(f) = e /\ EndOK(c, f)
  BY Constants DEF EndsOK
<1> HIDE DEF f
<1>6. /\ pc'[c][f] = pc[c][f] /\ open'[c][f] = open[c][f]
      /\ known'[c][f] = known[c][f] /\ wire'[c][f] = wire[c][f]
  BY <1>2, <1>5 DEF OnlyAt
<1>7. open[c][e]
  BY <1>2 DEF EndsOK, EndOK
<1>8. HeardOK(c, f, wire[c][f])' /\ HeardOK(c, f, known[c][f])'
  BY <1>2, <1>5, <1>6, <1>7, SameIdentities DEF EndOK, HeardOK
<1>9. EndOK(c, f)'
  BY <1>2, <1>5, <1>6, <1>8, SameIdentities DEF EndOK
<1>10. EndOK(c, "out")' /\ EndOK(c, "in")'
  BY <1>4, <1>5, <1>9 DEF Ends
<1>11. AckOK(c)'
  <2>1. CASE e = "out"
    <3>1. f = "in"
      BY <2>1, <1>5 DEF Ends
    <3> QED
      BY <1>1, <1>2, <1>6, <2>1, <3>1, SameIdentities DEF AckOK
  <2>2. CASE e = "in"
    <3>1. f = "out"
      BY <2>2, <1>5 DEF Ends
    <3> QED
      BY <1>1, <1>2, <1>6, <2>2, <3>1, SameIdentities DEF AckOK, KnowsPeer, HoldsID, HoldsAddr
  <2> QED
    BY <2>1, <2>2 DEF Ends
<1> QED
  BY <1>2, <1>3, <1>10, <1>11, OneConn

LEMMA RestartEnds ==
    ASSUME TypeOK, EndsOK, AcksOK, NEW r \in Nodes, Restart(r)
    PROVE  EndsOK' /\ AcksOK'
<1>1. \A m \in Nodes \ {r} : inc'[m] = inc[m]
  BY RestartDoes
<1>2. ASSUME NEW c \in Conns, NEW e \in Ends, At(c, e) = r
      PROVE  /\ pc'[c][e] = "none" /\ ~open'[c][e]
             /\ known'[c][e] = None /\ wire'[c][e] = None
  BY <1>2, RestartDoes
<1>3. ASSUME NEW c \in Conns, NEW e \in Ends, At(c, e) # r
      PROVE  /\ pc'[c][e] = pc[c][e] /\ open'[c][e] = open[c][e]
             /\ known'[c][e] = known[c][e] /\ wire'[c][e] = wire[c][e]
  BY <1>3, RestartDoes
<1>4. \A m \in Nodes \ {r} : /\ Identity(m)' = Identity(m)
                             /\ \A i : Compatible(i, m)' = Compatible(i, m)
  BY <1>1 DEF Identity, Compatible
<1>5. ASSUME NEW c \in Conns, NEW e \in Ends
      PROVE  EndOK(c, e)'
  <2>1. CASE At(c, e) = r
    BY <1>2, <2>1, Constants
       DEF EndOK, HeardOK, StepsOf, Steps, Waiting, KnowsPeer, HoldsID, HoldsAddr
  <2>2. CASE At(c, e) # r
    <3>0. At(c, Other(e)) = Far(c, e) /\ Other(e) \in Ends
      BY Constants
    <3>1. EndOK(c, e) /\ At(c, e) \in Nodes \ {r} /\ Far(c, e) \in Nodes
      BY <2>2, Constants DEF EndsOK
    <3>2. /\ pc'[c][e] = pc[c][e] /\ open'[c][e] = open[c][e]
          /\ known'[c][e] = known[c][e] /\ wire'[c][e] = wire[c][e]
      BY <1>3, <2>2
    <3>3. CASE Far(c, e) = r
      <4>1. ~open'[c][Other(e)]
        BY <1>2, <3>0, <3>3
      <4> QED
        BY <1>4, <2>2, <3>1, <3>2, <3>3, <4>1 DEF EndOK, HeardOK
    <3>4. CASE Far(c, e) # r
      <4>1. open'[c][Other(e)] = open[c][Other(e)] /\ Identity(Far(c, e))' = Identity(Far(c, e))
        BY <1>3, <1>4, <3>0, <3>1, <3>4
      <4> QED
        BY <1>4, <3>1, <3>2, <4>1 DEF EndOK, HeardOK
    <3> QED
      BY <3>3, <3>4
  <2> QED
    BY <2>1, <2>2
<1>6. ASSUME NEW c \in Conns
      PROVE  AckOK(c)'
  <2>1. AckOK(c) /\ At(c, "out") = From[c] /\ From[c] \in Nodes
    BY Constants DEF AcksOK
  <2>2. CASE At(c, "out") = r
    BY <1>2, <2>2, Constants DEF AckOK
  <2>3. CASE At(c, "out") # r /\ At(c, "in") = r
    BY <1>2, <1>3, <1>4, <2>1, <2>3, Constants DEF AckOK, KnowsPeer, HoldsID, HoldsAddr
  <2>4. CASE At(c, "out") # r /\ At(c, "in") # r
    BY <1>3, <1>4, <2>1, <2>4, Constants DEF AckOK
  <2> QED
    BY <2>2, <2>3, <2>4
<1> QED
  BY <1>5, <1>6 DEF EndsOK, AcksOK

LEMMA EndsStep ==
    ASSUME TypeOK, EndsOK, AcksOK, [Next]_vars
    PROVE  EndsOK' /\ AcksOK'
<1>1. ASSUME NEW c \in Conns,
             \/ Dial(c) \/ Connect(c) \/ ConnectFail(c) \/ ReceiveHandshakeAck(c)
             \/ Accept(c) \/ ReceiveHandshake(c) \/ SendHandshakeAck(c)
      PROVE  EndsOK' /\ AcksOK'
  BY <1>1, Constants, QuietMoves, QuietEnds, ConnectEnds, ReceiveAckEnds,
     ReceiveHandshakeEnds, SendAckEnds
<1>2. ASSUME NEW c \in Conns, NEW e \in Ends,
             \/ StoreID(c, e) \/ StoreAddr(c, e) \/ Rollback(c, e)
             \/ Fail(c, e) \/ ReadEOF(c, e)
             \/ DeleteID(c, e) \/ DeleteAddr(c, e) \/ Close(c, e)
      PROVE  EndsOK' /\ AcksOK'
  BY <1>2, QuietMoves, QuietEnds, CloseEnds
<1>3. CASE UNCHANGED vars
  <2>1. inc' = inc /\ \A d \in Conns : Untouched(d)
    BY <1>3 DEF vars, Untouched
  <2> QED
    BY <2>1, UntouchedOK DEF EndsOK, AcksOK, Ends
<1> QED
  BY <1>1, <1>2, <1>3, RestartEnds, StepCases
-----------------------------------------------------------------------------
(* Only its holder gives an entry back.                                    *)

\* An end holds what it held.
Keeps(d, f) ==
    /\ pc'[d][f] \in HoldsID <=> pc[d][f] \in HoldsID
    /\ pc'[d][f] \in HoldsAddr <=> pc[d][f] \in HoldsAddr
    /\ pc[d][f] \in HoldsID => known'[d][f] = known[d][f]

\* What is registered is a pair of a connection and an end of it.
LEMMA Registered ==
    ASSUME TypeOK, NEW r \in Nodes
    PROVE  /\ \A i \in Identities : ids[r][i] # None =>
                 ids[r][i][1] \in Conns /\ ids[r][i][2] \in Ends
                 /\ ids[r][i] = <<ids[r][i][1], ids[r][i][2]>>
           /\ \A m \in Nodes : addrs[r][m] # None =>
                 addrs[r][m][1] \in Conns /\ addrs[r][m][2] \in Ends
                 /\ addrs[r][m] = <<addrs[r][m][1], addrs[r][m][2]>>
<1>1. /\ \A i \in Identities : ids[r][i] \in Entries \cup {None}
      /\ \A m \in Nodes : addrs[r][m] \in Entries \cup {None}
  BY DEF TypeOK
<1> QED
  BY <1>1, Constants

LEMMA AllKeep ==
    ASSUME TypeOK, RegistriesOK, StillIds, StillAddrs,
           \A d \in Conns, f \in Ends : Keeps(d, f)
    PROVE  RegistriesOK'
<1> USE DEF StillIds, StillAddrs, Keeps
<1>1. ASSUME NEW d \in Conns, NEW f \in Ends
      PROVE  HoldersOK(d, f)'
  <2>1. HoldersOK(d, f)
    BY DEF RegistriesOK
  <2> QED BY <1>1, <2>1 DEF HoldersOK
<1>2. ASSUME NEW r \in Nodes, NEW i \in Identities
      PROVE  IDOK(r, i)'
  BY Registered DEF RegistriesOK, IDOK
<1>3. ASSUME NEW r \in Nodes, NEW m \in Nodes
      PROVE  AddrOK(r, m)'
  BY Registered DEF RegistriesOK, AddrOK
<1> QED
  BY <1>1, <1>2, <1>3 DEF RegistriesOK

\* All other ends keep what they hold.
LEMMA OthersKeep ==
    ASSUME NEW c \in Conns, NEW e \in Ends, NEW s, NEW t, Moves(c, e, s, t),
           known' = known \/ OnlyAt(known, known', c, e)
    PROVE  \A d \in Conns, f \in Ends : <<d, f>> # <<c, e>> =>
              Keeps(d, f) /\ pc'[d][f] = pc[d][f] /\ known'[d][f] = known[d][f]
BY DEF Moves, OnlyAt, Keeps

LEMMA MoveKeeps ==
    ASSUME TypeOK, RegistriesOK, StillIds, StillAddrs,
           NEW c \in Conns, NEW e \in Ends, NEW s, NEW t, Moves(c, e, s, t),
           known' = known \/ (OnlyAt(known, known', c, e) /\ s \notin HoldsID),
           s \in HoldsID <=> t \in HoldsID, s \in HoldsAddr <=> t \in HoldsAddr
    PROVE  RegistriesOK'
<1>1. Keeps(c, e)
  BY DEF Keeps, Moves
<1>2. ASSUME NEW d \in Conns, NEW f \in Ends
      PROVE  Keeps(d, f)
  BY <1>1, OthersKeep
<1> QED
  BY <1>2, AllKeep

LEMMA HoldersKnow ==
    ASSUME EndsOK, NEW c \in Conns, NEW e \in Ends, pc[c][e] \in HoldsID
    PROVE  known[c][e] # None
BY DEF EndsOK, EndOK, KnowsPeer

LEMMA IDTaken ==
    ASSUME TypeOK, EndsOK, RegistriesOK, Still, StillAddrs,
           NEW c \in Conns, NEW e \in Ends, NEW s, NEW t, Moves(c, e, s, t),
           s \notin HoldsID, t \in HoldsID, s \in HoldsAddr <=> t \in HoldsAddr,
           known[c][e] \in Identities, ids[At(c, e)][known[c][e]] = None,
           Registers(At(c, e), known[c][e], <<c, e>>)
    PROVE  RegistriesOK'
<1>1. known' = known /\ addrs' = addrs /\ pc[c][e] = s /\ pc'[c][e] = t
  BY DEF Still, StillAddrs, Moves
<1>2. \A d \in Conns, f \in Ends : <<d, f>> # <<c, e>> =>
         Keeps(d, f) /\ pc'[d][f] = pc[d][f] /\ known'[d][f] = known[d][f]
  BY <1>1, OthersKeep
<1>3. ASSUME NEW d \in Conns, NEW f \in Ends
      PROVE  HoldersOK(d, f)'
  <2>1. HoldersOK(d, f) /\ At(d, f) \in Nodes
    BY Constants DEF RegistriesOK
  <2>2. pc'[d][f] \in HoldsAddr => addrs'[At(d, f)][Far(d, f)] = <<d, f>>
    BY <1>1, <1>2, <2>1 DEF HoldersOK
  <2>3. CASE <<d, f>> = <<c, e>>
    BY <1>1, <2>2, <2>3 DEF HoldersOK, Registers
  <2>4. CASE <<d, f>> # <<c, e>> /\ pc[d][f] \in HoldsID
    <3>1. ids[At(d, f)][known[d][f]] = <<d, f>> /\ <<d, f>> # None
      BY <2>1, <2>4, Constants DEF HoldersOK
    <3>2. known[d][f] \in Identities \cup {None}
      BY EndTypes
    <3>3. known[d][f] # None
      BY <2>4, HoldersKnow
    <3>4. ids'[At(d, f)][known[d][f]] = <<d, f>>
      BY <2>1, <3>1, <3>2, <3>3 DEF Registers
    <3> QED
      BY <1>1, <2>2, <3>4 DEF HoldersOK
  <2>5. CASE <<d, f>> # <<c, e>> /\ pc[d][f] \notin HoldsID
    BY <1>2, <2>2, <2>5 DEF HoldersOK
  <2> QED
    BY <2>3, <2>4, <2>5
<1>4. ASSUME NEW r \in Nodes, NEW i \in Identities
      PROVE  IDOK(r, i)'
  <2>1. CASE r = At(c, e) /\ i = known[c][e]
    <3>1. ids'[r][i] = <<c, e>>
      BY <2>1 DEF Registers
    <3> QED
      BY <1>1, <2>1, <3>1 DEF IDOK
  <2>2. CASE ~(r = At(c, e) /\ i = known[c][e])
    <3>1. ids'[r][i] = ids[r][i]
      BY <2>2 DEF Registers
    <3>2. IDOK(r, i)
      BY DEF RegistriesOK
    <3> QED
      BY <1>1, <1>2, <3>1, <3>2, Registered DEF IDOK, Keeps
  <2> QED
    BY <2>1, <2>2
<1>5. ASSUME NEW r \in Nodes, NEW m \in Nodes
      PROVE  AddrOK(r, m)'
  BY <1>1, <1>2, Registered DEF RegistriesOK, AddrOK, Keeps
<1> QED
  BY <1>3, <1>4, <1>5 DEF RegistriesOK

LEMMA IDGiven ==
    ASSUME TypeOK, EndsOK, RegistriesOK, Still, StillAddrs,
           NEW c \in Conns, NEW e \in Ends, NEW s, NEW t, Moves(c, e, s, t),
           s \in HoldsID, t \notin HoldsID, s \in HoldsAddr <=> t \in HoldsAddr,
           known[c][e] \in Identities,
           Registers(At(c, e), known[c][e], None)
    PROVE  RegistriesOK'
<1>1. known' = known /\ addrs' = addrs /\ pc[c][e] = s /\ pc'[c][e] = t
  BY DEF Still, StillAddrs, Moves
<1>2. \A d \in Conns, f \in Ends : <<d, f>> # <<c, e>> =>
         Keeps(d, f) /\ pc'[d][f] = pc[d][f] /\ known'[d][f] = known[d][f]
  BY <1>1, OthersKeep
<1>3. ids[At(c, e)][known[c][e]] = <<c, e>>
  BY <1>1 DEF RegistriesOK, HoldersOK
<1>4. ASSUME NEW d \in Conns, NEW f \in Ends
      PROVE  HoldersOK(d, f)'
  <2>1. HoldersOK(d, f) /\ At(d, f) \in Nodes
    BY Constants DEF RegistriesOK
  <2>2. pc'[d][f] \in HoldsAddr => addrs'[At(d, f)][Far(d, f)] = <<d, f>>
    BY <1>1, <1>2, <2>1 DEF HoldersOK
  <2>3. CASE <<d, f>> = <<c, e>>
    BY <1>1, <2>2, <2>3 DEF HoldersOK
  <2>4. CASE <<d, f>> # <<c, e>> /\ pc[d][f] \in HoldsID
    <3>1. ids[At(d, f)][known[d][f]] = <<d, f>>
      BY <2>1, <2>4 DEF HoldersOK
    <3>2. known[d][f] \in Identities \cup {None}
      BY EndTypes
    <3>3. known[d][f] # None
      BY <2>4, HoldersKnow
    <3>4. <<At(d, f), known[d][f]>> # <<At(c, e), known[c][e]>>
      BY <1>3, <2>4, <3>1
    <3>5. ids'[At(d, f)][known[d][f]] = <<d, f>>
      BY <2>1, <3>1, <3>2, <3>3, <3>4 DEF Registers
    <3> QED
      BY <1>1, <2>2, <3>5 DEF HoldersOK
  <2>5. CASE <<d, f>> # <<c, e>> /\ pc[d][f] \notin HoldsID
    BY <1>2, <2>2, <2>5 DEF HoldersOK
  <2> QED
    BY <2>3, <2>4, <2>5
<1>5. ASSUME NEW r \in Nodes, NEW i \in Identities
      PROVE  IDOK(r, i)'
  <2>1. CASE r = At(c, e) /\ i = known[c][e]
    <3>1. ids'[r][i] = None
      BY <2>1 DEF Registers
    <3> QED
      BY <3>1 DEF IDOK
  <2>2. CASE ~(r = At(c, e) /\ i = known[c][e])
    <3>1. ids'[r][i] = ids[r][i] /\ IDOK(r, i)
      BY <2>2 DEF Registers, RegistriesOK
    <3>2. ASSUME ids[r][i] # None
          PROVE  <<ids[r][i][1], ids[r][i][2]>> # <<c, e>>
      BY <2>2, <3>1, <3>2 DEF IDOK
    <3> QED
      BY <1>1, <1>2, <3>1, <3>2, Registered DEF IDOK, Keeps
  <2> QED
    BY <2>1, <2>2
<1>6. ASSUME NEW r \in Nodes, NEW m \in Nodes
      PROVE  AddrOK(r, m)'
  BY <1>1, <1>2, Registered DEF RegistriesOK, AddrOK, Keeps
<1> QED
  BY <1>4, <1>5, <1>6 DEF RegistriesOK

LEMMA AddrTaken ==
    ASSUME TypeOK, RegistriesOK, Still, StillIds,
           NEW c \in Conns, NEW e \in Ends, NEW s, NEW t, Moves(c, e, s, t),
           s \in HoldsID <=> t \in HoldsID, t \in HoldsAddr,
           addrs[At(c, e)][Far(c, e)] = None,
           RegistersAddr(At(c, e), Far(c, e), <<c, e>>)
    PROVE  RegistriesOK'
<1>1. known' = known /\ ids' = ids /\ pc[c][e] = s /\ pc'[c][e] = t
  BY DEF Still, StillIds, Moves
<1>2. \A d \in Conns, f \in Ends : <<d, f>> # <<c, e>> =>
         Keeps(d, f) /\ pc'[d][f] = pc[d][f] /\ known'[d][f] = known[d][f]
  BY <1>1, OthersKeep
<1>3. ASSUME NEW d \in Conns, NEW f \in Ends
      PROVE  HoldersOK(d, f)'
  <2>1. HoldersOK(d, f) /\ At(d, f) \in Nodes /\ Far(d, f) \in Nodes /\ <<d, f>> # None
    <3>1. HoldersOK(d, f)
      BY DEF RegistriesOK
    <3>2. At(d, f) \in Nodes /\ Far(d, f) \in Nodes /\ <<d, f>> \in Entries
      BY Constants
    <3>3. <<d, f>> # None
      BY <3>2, Constants
    <3> QED
      BY <3>1, <3>2, <3>3
  <2>2. pc'[d][f] \in HoldsID => ids'[At(d, f)][known'[d][f]] = <<d, f>>
    BY <1>1, <1>2, <2>1 DEF HoldersOK
  <2>3. CASE <<d, f>> = <<c, e>>
    BY <1>1, <2>2, <2>3 DEF HoldersOK, RegistersAddr
  <2>4. CASE <<d, f>> # <<c, e>>
    <3>1. ASSUME pc'[d][f] \in HoldsAddr
          PROVE  addrs'[At(d, f)][Far(d, f)] = <<d, f>>
      <4>1. addrs[At(d, f)][Far(d, f)] = <<d, f>>
        BY <1>2, <2>1, <2>4, <3>1 DEF HoldersOK
      <4> QED
        BY <2>1, <4>1 DEF RegistersAddr
    <3> QED
      BY <2>2, <3>1 DEF HoldersOK
  <2> QED
    BY <2>3, <2>4
<1>4. ASSUME NEW r \in Nodes, NEW i \in Identities
      PROVE  IDOK(r, i)'
  BY <1>1, <1>2, Registered DEF RegistriesOK, IDOK, Keeps
<1>5. ASSUME NEW r \in Nodes, NEW m \in Nodes
      PROVE  AddrOK(r, m)'
  <2>1. CASE r = At(c, e) /\ m = Far(c, e)
    <3>1. addrs'[r][m] = <<c, e>>
      BY <2>1 DEF RegistersAddr
    <3> QED
      BY <1>1, <2>1, <3>1 DEF AddrOK
  <2>2. CASE ~(r = At(c, e) /\ m = Far(c, e))
    <3>1. addrs'[r][m] = addrs[r][m] /\ AddrOK(r, m)
      BY <2>2 DEF RegistersAddr, RegistriesOK
    <3> QED
      BY <1>1, <1>2, <3>1, Registered DEF AddrOK, Keeps
  <2> QED
    BY <2>1, <2>2
<1> QED
  BY <1>3, <1>4, <1>5 DEF RegistriesOK

LEMMA AddrGiven ==
    ASSUME TypeOK, RegistriesOK, Still, StillIds,
           NEW c \in Conns, NEW e \in Ends, NEW s, NEW t, Moves(c, e, s, t),
           s \in HoldsID <=> t \in HoldsID, s \in HoldsAddr, t \notin HoldsAddr,
           RegistersAddr(At(c, e), Far(c, e), None)
    PROVE  RegistriesOK'
<1>1. known' = known /\ ids' = ids /\ pc[c][e] = s /\ pc'[c][e] = t
  BY DEF Still, StillIds, Moves
<1>2. \A d \in Conns, f \in Ends : <<d, f>> # <<c, e>> =>
         Keeps(d, f) /\ pc'[d][f] = pc[d][f] /\ known'[d][f] = known[d][f]
  BY <1>1, OthersKeep
<1>3. addrs[At(c, e)][Far(c, e)] = <<c, e>>
  BY <1>1 DEF RegistriesOK, HoldersOK
<1>4. ASSUME NEW d \in Conns, NEW f \in Ends
      PROVE  HoldersOK(d, f)'
  <2>1. HoldersOK(d, f) /\ At(d, f) \in Nodes /\ Far(d, f) \in Nodes
    BY Constants DEF RegistriesOK
  <2>2. pc'[d][f] \in HoldsID => ids'[At(d, f)][known'[d][f]] = <<d, f>>
    BY <1>1, <1>2, <2>1 DEF HoldersOK
  <2>3. CASE <<d, f>> = <<c, e>>
    BY <1>1, <2>2, <2>3 DEF HoldersOK
  <2>4. CASE <<d, f>> # <<c, e>>
    <3>1. ASSUME pc'[d][f] \in HoldsAddr
          PROVE  addrs'[At(d, f)][Far(d, f)] = <<d, f>>
      <4>1. addrs[At(d, f)][Far(d, f)] = <<d, f>>
        BY <1>2, <2>1, <2>4, <3>1 DEF HoldersOK
      <4>2. <<At(d, f), Far(d, f)>> # <<At(c, e), Far(c, e)>>
        BY <1>3, <2>4, <4>1
      <4> QED
        BY <2>1, <4>1, <4>2 DEF RegistersAddr
    <3> QED
      BY <2>2, <3>1 DEF HoldersOK
  <2> QED
    BY <2>3, <2>4
<1>5. ASSUME NEW r \in Nodes, NEW i \in Identities
      PROVE  IDOK(r, i)'
  BY <1>1, <1>2, Registered DEF RegistriesOK, IDOK, Keeps
<1>6. ASSUME NEW r \in Nodes, NEW m \in Nodes
      PROVE  AddrOK(r, m)'
  <2>1. CASE r = At(c, e) /\ m = Far(c, e)
    <3>1. addrs'[r][m] = None
      BY <2>1 DEF RegistersAddr
    <3> QED
      BY <3>1 DEF AddrOK
  <2>2. CASE ~(r = At(c, e) /\ m = Far(c, e))
    <3>1. addrs'[r][m] = addrs[r][m] /\ AddrOK(r, m)
      BY <2>2 DEF RegistersAddr, RegistriesOK
    <3>2. ASSUME addrs[r][m] # None
          PROVE  <<addrs[r][m][1], addrs[r][m][2]>> # <<c, e>>
      BY <2>2, <3>1, <3>2 DEF AddrOK
    <3> QED
      BY <1>1, <1>2, <3>1, <3>2, Registered DEF AddrOK, Keeps
  <2> QED
    BY <2>1, <2>2
<1> QED
  BY <1>4, <1>5, <1>6 DEF RegistriesOK

LEMMA RestartRegistries ==
    ASSUME TypeOK, RegistriesOK, NEW r \in Nodes, Restart(r)
    PROVE  RegistriesOK'
<1>1. \A m \in Nodes \ {r} : ids'[m] = ids[m] /\ addrs'[m] = addrs[m]
  BY RestartDoes
<1>2. ASSUME NEW c \in Conns, NEW e \in Ends
      PROVE  HoldersOK(c, e)'
  <2>1. CASE At(c, e) = r
    <3>1. pc'[c][e] = "none"
      BY <2>1, RestartDoes
    <3> QED
      BY <3>1 DEF HoldersOK, HoldsID, HoldsAddr
  <2>2. CASE At(c, e) # r
    <3>0. At(c, e) \in Nodes \ {r}
      BY <2>2, Constants
    <3>1. pc'[c][e] = pc[c][e] /\ known'[c][e] = known[c][e]
      BY <2>2, RestartDoes
    <3>2. HoldersOK(c, e)
      BY DEF RegistriesOK
    <3>3. ids'[At(c, e)] = ids[At(c, e)] /\ addrs'[At(c, e)] = addrs[At(c, e)]
      BY <1>1, <3>0
    <3> QED
      BY <3>1, <3>2, <3>3 DEF HoldersOK
  <2> QED
    BY <2>1, <2>2
<1>3. ASSUME NEW m \in Nodes, NEW i \in Identities
      PROVE  IDOK(m, i)'
  <2>1. CASE m = r
    <3>1. ids'[m][i] = None
      BY <2>1, RestartDoes
    <3> QED
      BY <3>1 DEF IDOK
  <2>2. CASE m # r
    <3>1. ids'[m][i] = ids[m][i] /\ IDOK(m, i)
      BY <1>1, <2>2 DEF RegistriesOK
    <3>2. ASSUME ids[m][i] # None
          PROVE  LET c == ids[m][i][1]  e == ids[m][i][2]
                 IN At(c, e) = m /\ pc'[c][e] = pc[c][e] /\ known'[c][e] = known[c][e]
      BY <2>2, <3>1, <3>2, Registered, RestartDoes DEF IDOK
    <3> QED
      BY <3>1, <3>2 DEF IDOK
  <2> QED
    BY <2>1, <2>2
<1>4. ASSUME NEW m \in Nodes, NEW q \in Nodes
      PROVE  AddrOK(m, q)'
  <2>1. CASE m = r
    <3>1. addrs'[m][q] = None
      BY <2>1, RestartDoes
    <3> QED
      BY <3>1 DEF AddrOK
  <2>2. CASE m # r
    <3>1. addrs'[m][q] = addrs[m][q] /\ AddrOK(m, q)
      BY <1>1, <2>2 DEF RegistriesOK
    <3>2. ASSUME addrs[m][q] # None
          PROVE  LET c == addrs[m][q][1]  e == addrs[m][q][2]
                 IN At(c, e) = m /\ pc'[c][e] = pc[c][e]
      BY <2>2, <3>1, <3>2, Registered, RestartDoes DEF AddrOK
    <3> QED
      BY <3>1, <3>2 DEF AddrOK
  <2> QED
    BY <2>1, <2>2
<1> QED
  BY <1>2, <1>3, <1>4 DEF RegistriesOK

LEMMA RegistriesStep ==
    ASSUME TypeOK, EndsOK, AcksOK, RegistriesOK, [Next]_vars
    PROVE  RegistriesOK'
<1>0. \A c \in Conns, e \in Ends : pc[c][e] \in KnowsPeer => known[c][e] \in Identities
  BY EndTypes DEF EndsOK, EndOK
<1> USE DEF HoldsID, HoldsAddr
<1>1. ASSUME NEW c \in Conns,
             \/ Dial(c) \/ Connect(c) \/ ConnectFail(c) \/ ReceiveHandshakeAck(c)
             \/ Accept(c) \/ ReceiveHandshake(c) \/ SendHandshakeAck(c)
      PROVE  RegistriesOK'
  <2>1. CASE Dial(c)
    BY <2>1, DialDoes, MoveKeeps, Constants DEF Still
  <2>2. CASE ConnectFail(c)
    BY <2>2, ConnectFailDoes, MoveKeeps, Constants DEF Still
  <2>3. CASE Accept(c)
    BY <2>3, AcceptDoes, MoveKeeps, Constants DEF Still
  <2>4. CASE Connect(c)
    <3>1. /\ pc[c]["out"] = "dial" /\ pc'[c]["out"] = "ack"
          /\ pc[c]["in"] = "none" /\ pc'[c]["in"] = "backlog"
      BY <2>4, ConnectDoes DEF AcksOK, AckOK
    <3>2. /\ \A d \in Conns \ {c}, f \in Ends : pc'[d][f] = pc[d][f]
          /\ known' = known /\ StillIds /\ StillAddrs
      BY <2>4, ConnectDoes
    <3>3. ASSUME NEW d \in Conns, NEW f \in Ends
          PROVE  Keeps(d, f)
      BY <3>1, <3>2 DEF Keeps, Ends
    <3> QED
      BY <3>2, <3>3, AllKeep
  <2>5. CASE ReceiveHandshakeAck(c)
    <3>1. Hears(c, "out", "ack", "storeID", wire[c]["out"] # Identity(From[c]))
      BY <2>5, ReceivesAck
    <3>2. \/ Moves(c, "out", "ack", "storeID")
          \/ Moves(c, "out", "ack", "close")
      BY <3>1 DEF Hears
    <3> QED
      BY <3>1, <3>2, MoveKeeps, Constants DEF Hears
  <2>6. CASE ReceiveHandshake(c)
    <3>1. Hears(c, "in", "hs", "sendAck", Greets(To[c], wire[c]["in"]))
      BY <2>6, ReceivesHandshake
    <3>2. \/ Moves(c, "in", "hs", "sendAck")
          \/ Moves(c, "in", "hs", "close")
      BY <3>1 DEF Hears
    <3> QED
      BY <3>1, <3>2, MoveKeeps, Constants DEF Hears
  <2>7. CASE SendHandshakeAck(c)
    BY <2>7, SendDoes, MoveKeeps, Constants
  <2> QED
    BY <1>1, <2>1, <2>2, <2>3, <2>4, <2>5, <2>6, <2>7
<1>2. ASSUME NEW c \in Conns, NEW e \in Ends,
             \/ StoreID(c, e) \/ StoreAddr(c, e) \/ Rollback(c, e)
             \/ Fail(c, e) \/ ReadEOF(c, e)
             \/ DeleteID(c, e) \/ DeleteAddr(c, e) \/ Close(c, e)
      PROVE  RegistriesOK'
  <2>0. StoreID(c, e) \/ Rollback(c, e) \/ DeleteID(c, e) =>
           known[c][e] \in Identities /\ known[c][e] # None
    BY <1>0, Constants DEF StoreID, Rollback, DeleteID, Goto, KnowsPeer
  <2>1. CASE StoreID(c, e)
    <3>1. CASE Moves(c, e, "storeID", "close") /\ StillIds
      BY <2>0, <2>1, <3>1, StoreIDDoes, MoveKeeps DEF Still
    <3>2. CASE /\ Moves(c, e, "storeID", "storeAddr")
               /\ ids[At(c, e)][known[c][e]] = None
               /\ Registers(At(c, e), known[c][e], <<c, e>>)
      BY <2>0, <2>1, <3>2, StoreIDDoes, IDTaken
    <3> QED
      BY <2>0, <2>1, <3>1, <3>2, StoreIDDoes
  <2>2. CASE StoreAddr(c, e)
    <3>1. CASE Moves(c, e, "storeAddr", "rollback") /\ StillAddrs
      BY <2>2, <3>1, StoreAddrDoes, MoveKeeps DEF Still
    <3>2. CASE /\ Moves(c, e, "storeAddr", "reading")
               /\ addrs[At(c, e)][Far(c, e)] = None
               /\ RegistersAddr(At(c, e), Far(c, e), <<c, e>>)
      BY <2>2, <3>2, StoreAddrDoes, AddrTaken
    <3> QED
      BY <2>2, <3>1, <3>2, StoreAddrDoes
  <2>3. CASE Rollback(c, e)
    BY <2>0, <2>3, RollbackDoes, IDGiven
  <2>4. CASE DeleteID(c, e)
    BY <2>0, <2>4, DeleteIDDoes, IDGiven
  <2>5. CASE DeleteAddr(c, e)
    BY <2>5, DeleteAddrDoes, AddrGiven
  <2>6. CASE Fail(c, e) \/ ReadEOF(c, e)
    <3>1. PICK s \in Waiting \cup {"sendAck"} : Moves(c, e, s, GivenUp(s))
      BY <2>6, GiveUpDoes
    <3>2. Still /\ StillIds /\ StillAddrs
      BY <2>6, GiveUpDoes
    <3>3. /\ s \in HoldsID <=> GivenUp(s) \in HoldsID
          /\ s \in HoldsAddr <=> GivenUp(s) \in HoldsAddr
      BY DEF Waiting, GivenUp
    <3> HIDE DEF HoldsID, HoldsAddr
    <3> QED
      BY <3>1, <3>2, <3>3, MoveKeeps DEF Still
  <2>7. CASE Close(c, e)
    BY <2>7, CloseDoes, MoveKeeps DEF Empties
  <2> QED
    BY <1>2, <2>1, <2>2, <2>3, <2>4, <2>5, <2>6, <2>7
<1>3. ASSUME NEW r \in Nodes, Restart(r)
      PROVE  RegistriesOK'
  BY <1>3, RestartRegistries
<1>4. CASE UNCHANGED vars
  BY <1>4, AllKeep DEF vars, Keeps, StillIds, StillAddrs
<1> QED
  BY <1>1, <1>2, <1>3, <1>4, StepCases
-----------------------------------------------------------------------------
(* The theorems.                                                           *)

LEMMA InitInvariant ==
    Init => ShakeIInv
<1> SUFFICES ASSUME Init PROVE ShakeIInv
  OBVIOUS
<1>1. TypeOK
  BY ShakeConstants DEF Init, TypeOK, Steps
<1>2. \A c \in Conns, e \in Ends : /\ pc[c][e] = "none" /\ ~open[c][e]
                                   /\ known[c][e] = None /\ wire[c][e] = None
  BY DEF Init
<1>3. EndsOK
  BY <1>2 DEF EndsOK, EndOK, HeardOK, StepsOf, Steps, KnowsPeer, HoldsID, HoldsAddr
<1>4. AcksOK
  BY <1>2, Constants DEF AcksOK, AckOK, KnowsPeer, HoldsID, HoldsAddr
<1>5. RegistriesOK
  BY <1>2 DEF Init, RegistriesOK, HoldersOK, IDOK, AddrOK, HoldsID, HoldsAddr
<1> QED
  BY <1>1, <1>3, <1>4, <1>5 DEF ShakeIInv

LEMMA ShakeInvariance == Spec => []ShakeIInv
<1>1. ShakeIInv /\ [Next]_vars => ShakeIInv'
  BY ShakeTypeStep, EndsStep, RegistriesStep DEF ShakeIInv
<1> QED
  BY <1>1, InitInvariant, PTL DEF Spec

\* Type correctness, for any nodes, connections and versions and any number of
\* restarts.
THEOREM TypeCorrect == Spec => []TypeOK
<1>1. ShakeIInv => TypeOK
  BY DEF ShakeIInv
<1> QED
  BY <1>1, ShakeInvariance, PTL

\* receiveHandshake compares versions at the accepting end only, and asks for
\* its peers before startPeer adds one: even so, whoever is registered at either
\* end is another node, of the same version, under its own address.
THEOREM PeersStayCompatible == Spec => []PeersCompatible
<1>1. ShakeIInv => PeersCompatible
  <2> SUFFICES ASSUME ShakeIInv PROVE PeersCompatible
    OBVIOUS
  <2>1. ASSUME NEW r \in Nodes, NEW i \in Identities, ids[r][i] # None
        PROVE  /\ i[1] # r /\ SameVersion(i, r)
               /\ LET c == ids[r][i][1]  e == ids[r][i][2]
                  IN At(c, e) = r /\ Far(c, e) = i[1] /\ known[c][e] = i
    <3> DEFINE c == ids[r][i][1]
               e == ids[r][i][2]
    <3>1. c \in Conns /\ e \in Ends
      BY <2>1, Registered DEF ShakeIInv
    <3>2. At(c, e) = r /\ known[c][e] = i
      BY <2>1 DEF ShakeIInv, RegistriesOK, IDOK
    <3>3. EndOK(c, e)
      BY <3>1 DEF ShakeIInv, EndsOK
    <3> HIDE DEF c, e
    <3>4. i # None
      BY Constants
    <3>5. Compatible(i, r) /\ i[1] = Far(c, e)
      BY <3>2, <3>3, <3>4 DEF EndOK, HeardOK
    <3> QED
      BY <3>2, <3>5 DEF Compatible, SameVersion, c, e
  <2> QED
    BY <2>1 DEF PeersCompatible, ShakeIInv
<1> QED
  BY <1>1, ShakeInvariance, PTL

\* An end that reads, when nothing is under way: so does the other end, and both
\* are in the maps.
LEMMA ReadersAtRest ==
    ASSUME ShakeIInv, \A c \in Conns, e \in Ends : AtRest(c, e),
           NEW c \in Conns, NEW e \in Ends, pc[c][e] = "reading"
    PROVE  /\ pc[c][Other(e)] = "reading"
           /\ known[c][e] = Identity(Far(c, e))
           /\ ids[At(c, e)][Identity(Far(c, e))] = <<c, e>>
           /\ addrs[At(c, e)][Far(c, e)] = <<c, e>>
<1>1. EndOK(c, e) /\ EndOK(c, Other(e)) /\ AckOK(c) /\ Other(e) \in Ends
  BY Constants DEF ShakeIInv, EndsOK, AcksOK
<1>2. open[c][Other(e)] /\ open[c][e]
  BY <1>1 DEF AtRest, EndOK
<1>3. pc[c][Other(e)] \in Waiting /\ wire[c][Other(e)] = None
  BY <1>1, <1>2 DEF AtRest, EndOK
<1>4. pc[c][Other(e)] = "reading"
  <2>1. CASE e = "out"
    <3>1. Other(e) = "in"
      BY <2>1, Constants
    <3> QED
      BY <1>1, <1>2, <1>3, <2>1, <3>1 DEF Waiting, EndOK, StepsOf, AckOK
  <2>2. CASE e = "in"
    <3>1. Other(e) = "out"
      BY <2>2, Constants
    <3> QED
      BY <1>1, <1>2, <1>3, <2>2, <3>1 DEF Waiting, EndOK, StepsOf, AckOK, KnowsPeer, HoldsID
  <2> QED
    BY <2>1, <2>2 DEF Ends
<1>5. known[c][e] = Identity(Far(c, e))
  BY <1>1, <1>2 DEF EndOK, HeardOK, KnowsPeer, HoldsID
<1>6. HoldersOK(c, e)
  BY DEF ShakeIInv, RegistriesOK
<1> QED
  BY <1>4, <1>5, <1>6 DEF HoldersOK, HoldsID, HoldsAddr

\* Of two nodes that dial each other at once, of a refusal after the Ack, of a
\* connection that fails during the handshake: as soon as nothing is under way,
\* both ends have registered each other over one connection, or neither has.
THEOREM EndsAgreeAtRest == Spec => []AgreeAtRest
<1>1. ShakeIInv => AgreeAtRest
  <2> SUFFICES ASSUME ShakeIInv, \A c \in Conns, e \in Ends : AtRest(c, e),
                      NEW r \in Nodes, NEW m \in Nodes
               PROVE  /\ addrs[r][m] = ids[r][Identity(m)]
                      /\ LET x == addrs[r][m]
                         IN x # None => addrs[m][r] = <<x[1], Other(x[2])>>
    BY DEF AgreeAtRest
  <2>0. Identity(m) \in Identities /\ Identity(m)[1] = m /\ TypeOK
    BY IdentityType DEF ShakeIInv
  <2>1. CASE addrs[r][m] # None
    <3> DEFINE c == addrs[r][m][1]
               e == addrs[r][m][2]
    <3>1. c \in Conns /\ e \in Ends /\ addrs[r][m] = <<c, e>>
      BY <2>0, <2>1, Registered
    <3>2. At(c, e) = r /\ Far(c, e) = m /\ pc[c][e] \in HoldsAddr
      BY <2>1 DEF ShakeIInv, RegistriesOK, AddrOK
    <3> HIDE DEF c, e
    <3>3. pc[c][e] = "reading"
      BY <3>1, <3>2 DEF AtRest, HoldsAddr, Waiting
    <3>4. ids[r][Identity(m)] = <<c, e>> /\ pc[c][Other(e)] = "reading"
      BY <3>1, <3>2, <3>3, ReadersAtRest
    <3>5. At(c, Other(e)) = m /\ Far(c, Other(e)) = r /\ Other(e) \in Ends
      BY <3>1, <3>2, Constants
    <3>6. addrs[m][r] = <<c, Other(e)>>
      BY <3>1, <3>4, <3>5, ReadersAtRest
    <3> QED
      BY <3>1, <3>4, <3>6
  <2>2. CASE addrs[r][m] = None
    <3>1. ASSUME ids[r][Identity(m)] # None
          PROVE  FALSE
      <4> DEFINE c == ids[r][Identity(m)][1]
                 e == ids[r][Identity(m)][2]
      <4>1. c \in Conns /\ e \in Ends /\ <<c, e>> # None
        BY <2>0, <3>1, Registered, Constants
      <4>2. At(c, e) = r /\ known[c][e] = Identity(m) /\ pc[c][e] \in HoldsID
        BY <2>0, <3>1 DEF ShakeIInv, RegistriesOK, IDOK
      <4> HIDE DEF c, e
      <4>3. pc[c][e] = "reading"
        BY <4>1, <4>2 DEF AtRest, HoldsID, Waiting
      <4>4. Far(c, e) = m
        <5>1. known[c][e] = Identity(Far(c, e))
          BY <4>1, <4>3, ReadersAtRest
        <5>2. Identity(Far(c, e))[1] = Far(c, e)
          BY <2>0, <4>1, IdentityType, Constants
        <5> QED
          BY <2>0, <4>2, <5>1, <5>2
      <4> QED
        BY <2>2, <4>1, <4>2, <4>3, <4>4, ReadersAtRest
    <3> QED
      BY <2>2, <3>1
  <2> QED
    BY <2>1, <2>2
<1> QED
  BY <1>1, ShakeInvariance, PTL
=============================================================================
