----------------------------- MODULE Connection -----------------------------
(***************************************************************************)
(* The framing of messages on a connection, pkg/transport/connection.go:   *)
(* goroutines that call WriteMessage, one that calls Close, and the reader *)
(* at the other end, which calls ReadMessage in a loop, as readLoop does.  *)
(*                                                                         *)
(* writeMu orders the writers, but Close flushes the bufio.Writer without  *)
(* it.  So the steps of bufio.Writer are modelled: it copies into buf at   *)
(* position n, adds to n, writes buf[0:n] to the socket and resets n.      *)
(*                                                                         *)
(* A message is a length and a payload of one or more parts, and so many   *)
(* parts fit in the buffer.  The reader tells a payload that is not what   *)
(* the message was made of by its checksum, and drops it.                  *)
(***************************************************************************)
EXTENDS Integers, Sequences, FiniteSets

CONSTANTS
    Messages,       \* each is written once, by a goroutine of its own
    SizeOf,         \* the number of parts of its payload
    BufferSize,     \* of the bufio.Writer, in parts
    Nothing

ASSUME ConnectionAssumption ==
    /\ SizeOf \in [Messages -> Nat \ {0}]
    /\ BufferSize \in Nat \ {0, 1}
    /\ Nothing \notin Messages
    /\ \A m \in Messages : Nothing # <<m, 0>>    \* its length

VARIABLES
    closed,         \* c.closed
    writeMu,        \* who holds it: a message, for its writer, or
                    \* Nothing
    buf, n, err,    \* the bufio.Writer: contents, how many, its sticky error
    socket,         \* "open" or "closed"
    stream,         \* what the socket has taken and the reader not yet read
    stepOf,         \* of each writer, and of the goroutine that calls Close
    left,           \* what is left of the slice that a writer is in Write with
    k,              \* of each goroutine: copied, or to be written
    order,          \* history: messages in the order their writers had writeMu
    sent,           \* history: messages whose WriteMessage returned nil before
                    \* Close was called
    got,            \* messages that ReadMessage has returned
    frame,          \* the message whose length the reader has read, or
                    \* Nothing
    lost            \* the reader has read something else where a length should be

reader == <<got, frame, lost>>
connVars ==
    <<closed, writeMu, buf, n, err, socket, stream, stepOf, left, k, order, sent, reader>>

Closer == Nothing
Goroutines == Messages \cup {Closer}

Length(m) == <<m, 0>>
Payload(m) == [i \in 1 .. SizeOf[m] |-> <<m, i>>]
Parts == UNION {{m} \X (0 .. SizeOf[m]) : m \in Messages}

GoesOn(g, step, target) == stepOf[g] = step /\ stepOf' = [stepOf EXCEPT ![g] = target]

Least(x, y) == IF x < y THEN x ELSE y
-----------------------------------------------------------------------------
(* bufio.Writer.Flush, of writers and of Close: "flush" is its beginning.   *)

\* Where g is after a Flush: a writer whose slice has not been used up goes on
\* with Write.
AfterFlush(g) == IF g = Closer THEN "closeSocket"
                 ELSE IF left[g] # <<>> THEN "put" ELSE "unlock"

FlushBegin(g) ==
    /\ \/ /\ err \/ n <= 0
          /\ GoesOn(g, "flush", AfterFlush(g))
          /\ UNCHANGED k
       \/ /\ ~err /\ n > 0
          /\ GoesOn(g, "flush", "send")
          /\ k' = [k EXCEPT ![g] = n]
    /\ UNCHANGED <<closed, writeMu, buf, n, err, socket, stream, left, order, sent, reader>>

\* The socket takes the parts, or, at the deadline, some of them.
FlushSend(g) ==
    /\ stepOf[g] = "send"
    /\ \/ /\ socket = "open"
          /\ GoesOn(g, "send", "reset")
          /\ stream' = stream \o SubSeq(buf, 1, k[g])
          /\ UNCHANGED <<n, err>>
       \/ /\ GoesOn(g, "send", AfterFlush(g))
          /\ \E i \in 0 .. k[g] - 1 :
                /\ socket = "closed" => i = 0
                /\ stream' = stream \o SubSeq(buf, 1, i)
                /\ n' = n - i
          /\ err' = TRUE
    /\ UNCHANGED <<closed, writeMu, buf, socket, left, k, order, sent, reader>>

FlushReset(g) ==
    /\ GoesOn(g, "reset", AfterFlush(g))
    /\ n' = 0
    /\ UNCHANGED <<closed, writeMu, buf, err, socket, stream, left, k, order, sent, reader>>
-----------------------------------------------------------------------------
(* WriteMessage.                                                            *)

WriteBegin(m) ==
    /\ GoesOn(m, "idle", IF closed THEN "done" ELSE "lock")
    /\ UNCHANGED <<closed, writeMu, buf, n, err, socket, stream, left, k, order, sent, reader>>

\* Wrong: the mutex is left out.
WriteLockNot(m) ==
    /\ GoesOn(m, "lock", "put")
    /\ order' = Append(order, m)
    /\ left' = [left EXCEPT ![m] = <<Length(m)>>]
    /\ UNCHANGED <<closed, writeMu, buf, n, err, socket, stream, k, sent, reader>>

WriteLock(m) ==
    /\ GoesOn(m, "lock", "put")
    /\ writeMu = Nothing
    /\ writeMu' = m
    /\ order' = Append(order, m)
    /\ left' = [left EXCEPT ![m] = <<Length(m)>>]
    /\ UNCHANGED <<closed, buf, n, err, socket, stream, k, sent, reader>>

\* bufio.Writer.Write copies what fits, of the length and then of the payload.
WriteCopy(m) ==
    LET c == Least(Len(left[m]), BufferSize - n)
    IN /\ stepOf[m] = "put" /\ ~err
       /\ Len(left[m]) <= BufferSize - n \/ n > 0
       /\ stepOf' = [stepOf EXCEPT ![m] = "add"]
       /\ buf' = [i \in 1 .. BufferSize |->
                     IF i \in n + 1 .. n + c THEN left[m][i - n] ELSE buf[i]]
       /\ k' = [k EXCEPT ![m] = c]
       /\ UNCHANGED <<closed, writeMu, n, err, socket, stream, left, order, sent, reader>>

\* A slice that does not fit in the empty buffer goes to the socket directly.
WriteDirect(m) ==
    /\ stepOf[m] = "put" /\ ~err
    /\ Len(left[m]) > BufferSize /\ n = 0
    /\ \/ /\ socket = "open"
          /\ GoesOn(m, "put", "flush")
          /\ stream' = stream \o left[m]
          /\ left' = [left EXCEPT ![m] = <<>>]
          /\ UNCHANGED err
       \/ /\ GoesOn(m, "put", "unlock")
          /\ \E i \in 0 .. Len(left[m]) - 1 :
                /\ socket = "closed" => i = 0
                /\ stream' = stream \o SubSeq(left[m], 1, i)
          /\ err' = TRUE
          /\ UNCHANGED left
    /\ UNCHANGED <<closed, writeMu, buf, n, socket, k, order, sent, reader>>

WriteError(m) ==
    /\ GoesOn(m, "put", "unlock")
    /\ err
    /\ UNCHANGED <<closed, writeMu, buf, n, err, socket, stream, left, k, order, sent, reader>>

\* n += k; then the payload after the length, or a Flush because the buffer is
\* full or because the message is complete.
WriteAdd(m) ==
    LET rest == SubSeq(left[m], k[m] + 1, Len(left[m]))
        wasLength == left[m] = <<Length(m)>>
    IN /\ GoesOn(m, "add", IF wasLength THEN "put" ELSE "flush")
       /\ n' = n + k[m]
       /\ left' = [left EXCEPT ![m] = IF wasLength THEN Payload(m) ELSE rest]
       /\ UNCHANGED <<closed, writeMu, buf, err, socket, stream, k, order, sent, reader>>

WriteUnlock(m) ==
    /\ GoesOn(m, "unlock", "done")
    /\ writeMu' = Nothing
    /\ left' = [left EXCEPT ![m] = <<>>]
    /\ k' = [k EXCEPT ![m] = 0]
    /\ sent' = IF err \/ closed THEN sent ELSE sent \cup {m}
    /\ UNCHANGED <<closed, buf, n, err, socket, stream, order, reader>>

WriteMessage(m) ==
    \/ WriteBegin(m)
    \/ WriteLock(m)
    \/ WriteCopy(m)
    \/ WriteDirect(m)
    \/ WriteError(m)
    \/ WriteAdd(m)
    \/ WriteUnlock(m)
-----------------------------------------------------------------------------
(* Close.  Its mutex keeps other calls out, which find the flag set.        *)

CloseBegin ==
    /\ GoesOn(Closer, "idle", "flush")
    /\ closed' = TRUE
    /\ UNCHANGED <<writeMu, buf, n, err, socket, stream, left, k, order, sent, reader>>

CloseSocket ==
    /\ GoesOn(Closer, "closeSocket", "done")
    /\ socket' = "closed"
    /\ UNCHANGED <<closed, writeMu, buf, n, err, stream, left, k, order, sent, reader>>
-----------------------------------------------------------------------------
(* ReadMessage: four bytes, then as many as they say.                       *)

ReadLength ==
    /\ frame = Nothing /\ stream # <<>> /\ ~lost
    /\ \/ \E m \in Messages :
             Head(stream) = Length(m) /\ frame' = m /\ UNCHANGED lost
       \/ /\ \A m \in Messages : Head(stream) # Length(m)
          /\ lost' = TRUE
          /\ UNCHANGED frame
    /\ stream' = Tail(stream)
    /\ UNCHANGED <<closed, writeMu, buf, n, err, socket, stepOf, left, k, order, sent, got>>

\* Wrong: the reader waits for one more than it needs.
CanReadMore(s) == Len(stream) > s

\* io.ReadFull returns when it has s parts.
CanRead(s) == Len(stream) >= s

ReadPayload ==
    LET s == SizeOf[frame]
    IN /\ frame # Nothing
       /\ CanRead(s)
       /\ got' = IF SubSeq(stream, 1, s) = Payload(frame) THEN Append(got, frame) ELSE got
       /\ stream' = SubSeq(stream, s + 1, Len(stream))
       /\ frame' = Nothing
       /\ UNCHANGED <<closed, writeMu, buf, n, err, socket, stepOf, left, k, order, sent, lost>>

ReadMessage == ReadLength \/ ReadPayload
-----------------------------------------------------------------------------
ConnInit ==
    /\ closed = FALSE
    /\ writeMu = Nothing
    /\ buf = [i \in 1 .. BufferSize |-> Nothing]
    /\ n = 0
    /\ err = FALSE
    /\ socket = "open"
    /\ stream = <<>>
    /\ stepOf = [g \in Goroutines |-> "idle"]
    /\ left = [m \in Messages |-> <<>>]
    /\ k = [g \in Goroutines |-> 0]
    /\ order = <<>>
    /\ sent = {}
    /\ got = <<>>
    /\ frame = Nothing
    /\ lost = FALSE

Flush(g) == FlushBegin(g) \/ FlushSend(g) \/ FlushReset(g)

ConnNext ==
    \/ \E m \in Messages : WriteMessage(m)
    \/ \E g \in Goroutines : Flush(g)
    \/ CloseBegin \/ CloseSocket
    \/ ReadMessage

\* The reader reads what there is.
ConnSpec == ConnInit /\ [][ConnNext]_connVars /\ WF_connVars(ReadMessage)
-----------------------------------------------------------------------------
ConnTypeOK ==
    /\ closed \in BOOLEAN /\ err \in BOOLEAN /\ lost \in BOOLEAN
    /\ writeMu \in Messages \cup {Nothing}
    /\ buf \in [1 .. BufferSize -> Parts \cup {Nothing}]
    /\ n \in Int /\ n <= BufferSize
    /\ socket \in {"open", "closed"}
    /\ stream \in Seq(Parts)
    /\ left \in [Messages -> Seq(Parts)]
    /\ k \in [Goroutines -> 0 .. BufferSize]
    /\ order \in Seq(Messages) /\ got \in Seq(Messages)
    /\ sent \subseteq Messages
    /\ frame \in Messages \cup {Nothing}

PrefixOf(s, t) == Len(s) <= Len(t) /\ SubSeq(t, 1, Len(s)) = s

\* Until Close is called the reader gets whole messages, each once and in the
\* order in which their writers had the mutex, and reads nothing else.  The Flush
\* of Close may spoil what comes then, but it does not change the order, repeats
\* no more than one message, and none that had been sent before.
FramesWhole ==
    LET Repeated == {got[i] : i \in {x \in DOMAIN got : \E y \in DOMAIN got : x < y /\ got[x] = got[y]}}
        Place(m) == CHOOSE i \in DOMAIN order : order[i] = m
    IN /\ ConnTypeOK
       /\ ~closed => ~lost /\ PrefixOf(got, order)
       /\ \A i, j \in DOMAIN got : i < j => Place(got[i]) <= Place(got[j])
       /\ Cardinality(Repeated) <= 1 /\ Repeated \cap sent = {}

\* A message whose WriteMessage has returned nil before Close was called arrives.
SentArrives == \A m \in Messages : m \in sent ~> \E i \in DOMAIN got : got[i] = m
=============================================================================
