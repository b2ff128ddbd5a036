------------------------- MODULE EventSourceProofs -------------------------
(***************************************************************************)
(* For every log of events, wherever comments stand in it and whatever     *)
(* becomes of the connections: what the consumer of the reconnecting       *)
(* client gets, and when the client gives up.                              *)
(***************************************************************************)
EXTENDS EventSource, TLAPS, SequenceTheorems

(* How many lines of event n come before its data. *)
Fields(n) == (IF Log[n].id THEN 1 ELSE 0) + (IF Log[n].retry THEN 1 ELSE 0)

(* How many lines of it come before the empty one. *)
Full(n) == Fields(n) + Log[n].parts

(* The lines of event n, by number. *)
LineOf(n, i) ==
    IF i = 1 /\ Log[n].id THEN "id"
    ELSE IF i <= Fields(n) THEN "retry"
    ELSE IF i <= Fields(n) + Log[n].parts THEN "data"
    ELSE "blank"

(* The id, the retry and the lines of data among the first r lines of event n. *)
IdAfter(n, r) == IF Log[n].id /\ r >= 1 THEN n ELSE 0
RetryAfter(n, r) == IF Log[n].retry /\ r >= Fields(n) THEN n ELSE 0
DataAfter(n, r) == IF r >= Fields(n) THEN r - Fields(n) ELSE 0
Copies(n, m) == [k \in 1..m |-> n]

(* The builder after these lines, without a comment among them. *)
Collected(n, r) == [id |-> IdAfter(n, r), retry |-> RetryAfter(n, r),
                    data |-> Copies(n, DataAfter(n, r)), cut |-> FALSE]

(* A builder that has some of these lines: those after the last comment. *)
Fragment(b, n, r) == /\ b.id \in {0, IdAfter(n, r)}
                     /\ b.retry \in {0, RetryAfter(n, r)}
                     /\ \E m \in 0..DataAfter(n, r) : b.data = Copies(n, m)

(* What has been read of the event that the server is sending. *)
BuilderFollows ==
    Reading /\ link # "eof" =>
        \/ /\ sending \in Events
           /\ read \in 0..Full(sending)
           /\ Fragment(builder, sending, read) /\ builder.cut = FALSE
           /\ sending \notin interrupted => builder = Collected(sending, read)
        \/ sending \notin Events /\ read = 0 /\ builder = Empty

(* A builder with data is of the event being sent, and of nothing else. *)
BuilderOfOne ==
    Reading /\ Builds(builder) =>
        sending \in Events /\ Fragment(builder, sending, Full(sending))

(* A message is still to come of the connection, or the last one has been. *)
MoreToCome == link # "eof" \/ Builds(builder)

(* Event n has been delivered, or a comment has come within it. *)
Delivered(n) == n \in interrupted \/ \E i \in DOMAIN delivered : EventOf(delivered[i]) = n

(* Where the client is in the log. *)
Position ==
    /\ inner = "none" <=> state # "Connected"
    /\ link = "eof" => Reading \/ state = "Exhausted"
    /\ Reading => link # "none"
    /\ Reading /\ link = "cut" => sending \in Events
    /\ Reading => parserId \in {0, lastId}
    /\ Reading /\ MoreToCome => lastId < sending

(* What has been delivered, up to the last id and up to the event being sent. *)
DeliveredSoFar ==
    /\ \A n \in 1..lastId : n \in Events /\ Log[n].parts > 0 => Delivered(n)
    /\ Reading => \A n \in 1..(sending - 1) : n \in Events /\ Log[n].parts > 0 => Delivered(n)
    /\ \A i \in DOMAIN delivered : delivered[i].id # 0 => EventOf(delivered[i]) <= lastId
    /\ \A i \in DOMAIN delivered : Part(delivered[i])
    /\ MoreToCome => \A i \in DOMAIN delivered :
                        Whole(delivered[i]) \/ EventOf(delivered[i]) \in interrupted

(* The attempts count the connections lost in a row. *)
AttemptsCounted == state # "Exhausted" => attempt = failed

(* r is the last retry that was delivered, or 0. *)
LastRetry(r) ==
    \/ \E i \in DOMAIN delivered :
        /\ delivered[i].retry = r /\ r # 0
        /\ \A j \in (i + 1)..Len(delivered) : delivered[j].retry = 0
    \/ r = 0 /\ \A i \in DOMAIN delivered : delivered[i].retry = 0

(* The client waits for the retry in force. *)
WaitsForLast == state = "Waiting" => wait = serverRetry

IInv == /\ SseTypeOK
        /\ BuilderFollows /\ BuilderOfOne
        /\ Position /\ DeliveredSoFar
        /\ NothingSkipped /\ NothingRepeated /\ NothingMixed
        /\ AttemptsCounted /\ GivesUpInTime
        /\ LastRetry(serverRetry) /\ WaitsForLast

-----------------------------------------------------------------------------
(* What the lines of an event are, and what is collected from them. *)

Field == {"id", "retry", "data", "blank"}

(* ConcatProperties, with the two ranges apart. *)
LEMMA Joined ==
    ASSUME NEW s \in Seq(Field), NEW t \in Seq(Field)
    PROVE  /\ s \o t \in Seq(Field) /\ Len(s \o t) = Len(s) + Len(t)
           /\ \A i \in 1..Len(s) : (s \o t)[i] = s[i]
           /\ \A i \in (Len(s) + 1)..(Len(s) + Len(t)) : (s \o t)[i] = t[i - Len(s)]
<1>1. \A i \in 1..(Len(s) + Len(t)) : (s \o t)[i] = IF i <= Len(s) THEN s[i] ELSE t[i - Len(s)]
  BY ConcatProperties
<1>2. Len(s) \in Nat /\ Len(t) \in Nat
  OBVIOUS
<1>3. \A i \in 1..Len(s) : i \in 1..(Len(s) + Len(t)) /\ i <= Len(s)
  BY <1>2
<1>4. \A i \in (Len(s) + 1)..(Len(s) + Len(t)) : i \in 1..(Len(s) + Len(t)) /\ ~(i <= Len(s))
  BY <1>2
<1>. QED BY <1>1, <1>3, <1>4, ConcatProperties

(* Event n has its fields, its data and an empty line, in this order. *)
LEMMA LinesNumbered ==
    ASSUME NEW n \in Events
    PROVE  /\ Fields(n) \in 0..2 /\ Log[n].parts \in Nat
           /\ Log[n].id \in BOOLEAN /\ Log[n].retry \in BOOLEAN
           /\ Len(Lines(Log[n])) = Fields(n) + Log[n].parts + 1
           /\ \A i \in 1..(Fields(n) + Log[n].parts + 1) : Lines(Log[n])[i] = LineOf(n, i)
<1>. DEFINE I == IF Log[n].id THEN <<"id">> ELSE <<>>
            R == IF Log[n].retry THEN <<"retry">> ELSE <<>>
            D == [i \in 1..Log[n].parts |-> "data"]
            B == <<"blank">>
            a == IF Log[n].id THEN 1 ELSE 0
            b == IF Log[n].retry THEN 1 ELSE 0
            d == Log[n].parts
<1>1. Log[n].id \in BOOLEAN /\ Log[n].retry \in BOOLEAN /\ d \in Nat
  <2>1. Log[n] \in SseEvent
    BY EventSourceAssumption DEF Events
  <2>. QED BY <2>1 DEF SseEvent
<1>2. I \in Seq(Field) /\ R \in Seq(Field) /\ D \in Seq(Field) /\ B \in Seq(Field)
  <2>1. <<"id">> \in Seq(Field) /\ <<"retry">> \in Seq(Field) /\ <<>> \in Seq(Field)
    BY DEF Field
  <2>2. D \in Seq(Field) /\ B \in Seq(Field)
    BY <1>1 DEF Field
  <2>. QED BY <2>1, <2>2
<1>3. a \in Nat /\ b \in Nat /\ Fields(n) = a + b /\ Fields(n) \in 0..2
  BY <1>1 DEF Fields
<1>4. Len(I) = a /\ Len(R) = b /\ Len(D) = d /\ Len(B) = 1
  BY <1>1
<1>5. /\ \A i \in 1..a : Log[n].id /\ i = 1 /\ I[i] = "id"
      /\ \A i \in 1..b : R[i] = "retry"
      /\ \A i \in 1..d : D[i] = "data"
      /\ B[1] = "blank"
  BY <1>1
<1>6. Log[n].id => a = 1
  OBVIOUS
<1>7. Lines(Log[n]) = ((I \o R) \o D) \o B
  BY DEF Lines
<1>. HIDE DEF I, R, D, B, a, b, d
<1>8. /\ I \o R \in Seq(Field) /\ Len(I \o R) = a + b
      /\ \A i \in 1..a : (I \o R)[i] = I[i]
      /\ \A i \in (a + 1)..(a + b) : (I \o R)[i] = R[i - a]
  <2>1. /\ I \o R \in Seq(Field) /\ Len(I \o R) = Len(I) + Len(R)
        /\ \A i \in 1..Len(I) : (I \o R)[i] = I[i]
        /\ \A i \in (Len(I) + 1)..(Len(I) + Len(R)) : (I \o R)[i] = R[i - Len(I)]
    BY <1>2, Joined
  <2>. QED BY <2>1, <1>4
<1>. DEFINE F == I \o R
            G == F \o D
<1>9. /\ G \in Seq(Field) /\ Len(G) = a + b + d
      /\ \A i \in 1..(a + b) : G[i] = F[i]
      /\ \A i \in (a + b + 1)..(a + b + d) : G[i] = D[i - (a + b)]
  <2>0. F \in Seq(Field) /\ Len(F) = a + b
    BY <1>8
  <2>. HIDE DEF F
  <2>1. /\ F \o D \in Seq(Field) /\ Len(F \o D) = Len(F) + Len(D)
        /\ \A i \in 1..Len(F) : (F \o D)[i] = F[i]
        /\ \A i \in (Len(F) + 1)..(Len(F) + Len(D)) : (F \o D)[i] = D[i - Len(F)]
    BY <2>0, <1>2, Joined
  <2>. QED BY <2>0, <2>1, <1>4
<1>. HIDE DEF F
<1>10. /\ Len(G \o B) = a + b + d + 1
       /\ \A i \in 1..(a + b + d) : (G \o B)[i] = G[i]
       /\ \A i \in (a + b + d + 1)..(a + b + d + 1) : (G \o B)[i] = B[i - (a + b + d)]
  <2>0. G \in Seq(Field) /\ Len(G) = a + b + d
    BY <1>9
  <2>. HIDE DEF G
  <2>1. /\ G \o B \in Seq(Field) /\ Len(G \o B) = Len(G) + Len(B)
        /\ \A i \in 1..Len(G) : (G \o B)[i] = G[i]
        /\ \A i \in (Len(G) + 1)..(Len(G) + Len(B)) : (G \o B)[i] = B[i - Len(G)]
    BY <1>2, <2>0, Joined
  <2>. QED BY <2>0, <2>1, <1>4
<1>11. Lines(Log[n]) = G \o B
  BY <1>7 DEF F
<1>. HIDE DEF G
<1>12. ASSUME NEW i \in 1..(Fields(n) + d + 1)
       PROVE  (G \o B)[i] = LineOf(n, i)
  <2>0. i \in Nat /\ 1 <= i
    BY <1>1, <1>3
  <2>1. CASE i <= a
    <3>1. i \in 1..a /\ i \in 1..(a + b) /\ i \in 1..(a + b + d)
      BY <2>0, <2>1, <1>1, <1>3
    <3>2. (G \o B)[i] = F[i]
      BY <3>1, <1>9, <1>10
    <3>3. F[i] = "id" /\ i = 1 /\ Log[n].id
      BY <3>1, <1>5, <1>8 DEF F
    <3>. QED BY <3>2, <3>3 DEF LineOf
  <2>2. CASE a < i /\ i <= a + b
    <3>1. i \in (a + 1)..(a + b) /\ i \in 1..(a + b) /\ i \in 1..(a + b + d) /\ i - a \in 1..b
      BY <2>0, <2>2, <1>1, <1>3
    <3>2. ~(i = 1 /\ Log[n].id)
      BY <2>0, <2>2, <1>3, <1>6
    <3>3. (G \o B)[i] = "retry"
      <4>1. (G \o B)[i] = F[i]
        BY <3>1, <1>9, <1>10
      <4>2. F[i] = "retry"
        BY <3>1, <1>5, <1>8 DEF F
      <4>. QED BY <4>1, <4>2
    <3>. QED BY <2>2, <3>2, <3>3, <1>3 DEF LineOf
  <2>3. CASE a + b < i /\ i <= a + b + d
    <3>1. i \in (a + b + 1)..(a + b + d) /\ i \in 1..(a + b + d) /\ i - (a + b) \in 1..d
      BY <2>0, <2>3, <1>1, <1>3
    <3>2. ~(i = 1 /\ Log[n].id) /\ ~(i <= Fields(n)) /\ i <= Fields(n) + d
      BY <2>0, <2>3, <1>1, <1>3, <1>6
    <3>3. (G \o B)[i] = "data"
      BY <3>1, <1>5, <1>9, <1>10
    <3>. QED BY <3>2, <3>3 DEF LineOf, d
  <2>4. CASE i = a + b + d + 1
    <3>1. i \in (a + b + d + 1)..(a + b + d + 1) /\ i - (a + b + d) = 1
      BY <2>0, <2>4, <1>1, <1>3
    <3>2. ~(i = 1 /\ Log[n].id) /\ ~(i <= Fields(n)) /\ ~(i <= Fields(n) + d)
      BY <2>0, <2>4, <1>1, <1>3, <1>6
    <3>3. (G \o B)[i] = "blank"
      BY <3>1, <1>5, <1>10
    <3>. QED BY <3>2, <3>3 DEF LineOf, d
  <2>5. \/ i <= a
        \/ a < i /\ i <= a + b
        \/ a + b < i /\ i <= a + b + d
        \/ i = a + b + d + 1
    BY <2>0, <1>1, <1>3
  <2>. QED BY <2>1, <2>2, <2>3, <2>4, <2>5
<1>. QED BY <1>1, <1>3, <1>10, <1>11, <1>12 DEF d

(* A sequence of the same element, with one more of it. *)
LEMMA OneMore ==
    ASSUME NEW n, NEW m \in Nat
    PROVE  Append(Copies(n, m), n) = Copies(n, m + 1)
<1>1. Copies(n, m) \in Seq({n}) /\ Len(Copies(n, m)) = m
  BY DEF Copies
<1>2. Copies(n, m + 1) \in Seq({n}) /\ Len(Copies(n, m + 1)) = m + 1
  BY DEF Copies
<1>3. \A k \in 1..(m + 1) : Append(Copies(n, m), n)[k] = Copies(n, m + 1)[k]
  BY <1>1 DEF Copies
<1>4. Append(Copies(n, m), n) \in Seq({n}) /\ Len(Append(Copies(n, m), n)) = m + 1
  BY <1>1
<1>. QED BY <1>2, <1>3, <1>4, SeqEqual

LEMMA EventNumbers == Len(Log) \in Nat /\ Events = 1..Len(Log)
  BY EventSourceAssumption DEF Events

Builders == [id : {0} \union Events, retry : {0} \union Events, data : Seq(Events), cut : BOOLEAN]
Messages == [id : {0} \union Events, retry : {0} \union Events, data : Seq(Events) \ {<<>>}, cut : BOOLEAN]

(* Before the first line there is nothing. *)
LEMMA CollectedNone ==
    ASSUME NEW n \in Events
    PROVE  Collected(n, 0) = Empty
<1>1. Fields(n) \in 0..2 /\ Log[n].retry \in BOOLEAN /\ Log[n].id \in BOOLEAN
  BY LinesNumbered
<1>2. Log[n].retry => Fields(n) >= 1
  BY <1>1 DEF Fields
<1>3. IdAfter(n, 0) = 0 /\ RetryAfter(n, 0) = 0 /\ DataAfter(n, 0) = 0
  BY <1>1, <1>2 DEF IdAfter, RetryAfter, DataAfter
<1>4. Copies(n, 0) = <<>>
  BY DEF Copies
<1>. QED BY <1>3, <1>4 DEF Collected, Empty

(* What the next line adds, to one of the three that an event has. *)
LEMMA LineByLine ==
    ASSUME NEW n \in Events, NEW r \in Nat, r < Full(n)
    PROVE  /\ DataAfter(n, r) \in Nat
           /\ \/ /\ LineOf(n, r + 1) = "id"
                 /\ IdAfter(n, r + 1) = n
                 /\ RetryAfter(n, r + 1) = RetryAfter(n, r)
                 /\ DataAfter(n, r + 1) = DataAfter(n, r)
              \/ /\ LineOf(n, r + 1) = "retry"
                 /\ IdAfter(n, r + 1) = IdAfter(n, r)
                 /\ RetryAfter(n, r + 1) = n
                 /\ DataAfter(n, r + 1) = DataAfter(n, r)
              \/ /\ LineOf(n, r + 1) = "data"
                 /\ IdAfter(n, r + 1) = IdAfter(n, r)
                 /\ RetryAfter(n, r + 1) = RetryAfter(n, r)
                 /\ DataAfter(n, r + 1) = DataAfter(n, r) + 1
<1>1. /\ Fields(n) \in 0..2 /\ Log[n].parts \in Nat
      /\ Log[n].retry \in BOOLEAN /\ Log[n].id \in BOOLEAN
      /\ Full(n) = Fields(n) + Log[n].parts
  BY LinesNumbered DEF Full
<1>2. DataAfter(n, r) \in Nat
  BY <1>1 DEF DataAfter
<1>3. CASE r + 1 = 1 /\ Log[n].id
  <2>1. LineOf(n, r + 1) = "id"
    BY <1>3 DEF LineOf
  <2>2. Fields(n) = (IF Log[n].retry THEN 2 ELSE 1)
    BY <1>1, <1>3 DEF Fields
  <2>3. /\ IdAfter(n, r + 1) = n
        /\ RetryAfter(n, r + 1) = RetryAfter(n, r)
        /\ DataAfter(n, r + 1) = DataAfter(n, r)
    BY <1>1, <1>3, <2>2 DEF IdAfter, RetryAfter, DataAfter
  <2>. QED BY <1>2, <2>1, <2>3
<1>4. CASE ~(r + 1 = 1 /\ Log[n].id) /\ r + 1 <= Fields(n)
  <2>1. LineOf(n, r + 1) = "retry"
    BY <1>4 DEF LineOf
  <2>2. Log[n].retry /\ r + 1 = Fields(n) /\ (Log[n].id => r = 1)
    BY <1>1, <1>4 DEF Fields
  <2>3. /\ IdAfter(n, r + 1) = IdAfter(n, r)
        /\ RetryAfter(n, r + 1) = n
        /\ DataAfter(n, r + 1) = DataAfter(n, r)
    BY <1>1, <2>2 DEF IdAfter, RetryAfter, DataAfter
  <2>. QED BY <1>2, <2>1, <2>3
<1>5. CASE r + 1 > Fields(n)
  <2>1. LineOf(n, r + 1) = "data"
    <3>1. ~(r + 1 = 1 /\ Log[n].id)
      BY <1>1, <1>5 DEF Fields
    <3>2. r + 1 <= Fields(n) + Log[n].parts
      BY <1>1
    <3>. QED BY <1>1, <1>5, <3>1, <3>2 DEF LineOf
  <2>2. r >= Fields(n) /\ (Log[n].id => r >= 1)
    BY <1>1, <1>5 DEF Fields
  <2>3. /\ IdAfter(n, r + 1) = IdAfter(n, r)
        /\ RetryAfter(n, r + 1) = RetryAfter(n, r)
        /\ DataAfter(n, r + 1) = DataAfter(n, r) + 1
    BY <1>1, <2>2 DEF IdAfter, RetryAfter, DataAfter
  <2>. QED BY <1>2, <2>1, <2>3
<1>. QED BY <1>1, <1>3, <1>4, <1>5

(* process_field adds what the next line says. *)
LEMMA CollectedNext ==
    ASSUME NEW n \in Events, NEW r \in Nat, r < Full(n)
    PROVE  Processed(Collected(n, r), LineOf(n, r + 1), n) = Collected(n, r + 1)
<1>1. LineOf(n, r + 1) = "data" => Append(Copies(n, DataAfter(n, r)), n) = Copies(n, DataAfter(n, r + 1))
  <2>1. DataAfter(n, r) \in Nat
    BY LineByLine
  <2>2. Append(Copies(n, DataAfter(n, r)), n) = Copies(n, DataAfter(n, r) + 1)
    BY <2>1, OneMore
  <2>3. LineOf(n, r + 1) = "data" => DataAfter(n, r + 1) = DataAfter(n, r) + 1
    BY LineByLine
  <2>. QED BY <2>2, <2>3
<1>. QED BY <1>1, LineByLine DEF Processed, Collected

(* Also to a builder that has lost what came before a comment. *)
LEMMA FragmentNext ==
    ASSUME NEW n \in Events, NEW r \in Nat, r < Full(n), NEW b \in Builders, Fragment(b, n, r)
    PROVE  LET p == Processed(b, LineOf(n, r + 1), n)
           IN  p \in Builders /\ Fragment(p, n, r + 1) /\ p.cut = b.cut
<1>. DEFINE p == Processed(b, LineOf(n, r + 1), n)
<1>1. PICK m \in 0..DataAfter(n, r) : b.data = Copies(n, m)
  BY DEF Fragment
<1>2. m \in Nat /\ DataAfter(n, r) \in Nat
  BY <1>1, LineByLine
<1>3. CASE LineOf(n, r + 1) = "id"
  <2>1. /\ IdAfter(n, r + 1) = n /\ RetryAfter(n, r + 1) = RetryAfter(n, r)
        /\ DataAfter(n, r + 1) = DataAfter(n, r)
    BY <1>3, LineByLine
  <2>2. p = [b EXCEPT !.id = n]
    BY <1>3 DEF Processed
  <2>3. p.id = n /\ p.retry = b.retry /\ p.data = b.data /\ p.cut = b.cut /\ p \in Builders
    BY <2>2 DEF Builders
  <2>. QED BY <2>1, <2>3 DEF Fragment
<1>4. CASE LineOf(n, r + 1) = "retry"
  <2>1. /\ IdAfter(n, r + 1) = IdAfter(n, r) /\ RetryAfter(n, r + 1) = n
        /\ DataAfter(n, r + 1) = DataAfter(n, r)
    BY <1>4, LineByLine
  <2>2. p = [b EXCEPT !.retry = n]
    BY <1>4 DEF Processed
  <2>3. p.id = b.id /\ p.retry = n /\ p.data = b.data /\ p.cut = b.cut /\ p \in Builders
    BY <2>2 DEF Builders
  <2>. QED BY <2>1, <2>3 DEF Fragment
<1>5. CASE LineOf(n, r + 1) = "data"
  <2>1. /\ IdAfter(n, r + 1) = IdAfter(n, r) /\ RetryAfter(n, r + 1) = RetryAfter(n, r)
        /\ DataAfter(n, r + 1) = DataAfter(n, r) + 1
    BY <1>5, LineByLine
  <2>2. p = [b EXCEPT !.data = Append(b.data, n)]
    BY <1>5 DEF Processed, Builders
  <2>3. p.id = b.id /\ p.retry = b.retry /\ p.data = Append(b.data, n) /\ p.cut = b.cut /\ p \in Builders
    <3>1. b.data \in Seq(Events) /\ Append(b.data, n) \in Seq(Events)
      BY DEF Builders
    <3> QED BY <2>2, <3>1 DEF Builders
  <2>4. p.data = Copies(n, m + 1)
    BY <1>1, <1>2, <2>3, OneMore
  <2>5. m + 1 \in 0..DataAfter(n, r + 1)
    BY <1>1, <1>2, <2>1
  <2>. QED BY <2>1, <2>3, <2>4, <2>5 DEF Fragment
<1>. QED BY <1>3, <1>4, <1>5, LineByLine

(* Some of fewer lines is some of more. *)
LEMMA FragmentGrows ==
    ASSUME NEW n \in Events, NEW r \in Nat, NEW s \in Nat, r <= s, NEW b, Fragment(b, n, r)
    PROVE  Fragment(b, n, s)
<1>1. Fields(n) \in 0..2
  BY LinesNumbered
<1>2. IdAfter(n, r) \in {0, IdAfter(n, s)} /\ RetryAfter(n, r) \in {0, RetryAfter(n, s)}
  BY <1>1 DEF IdAfter, RetryAfter
<1>3. DataAfter(n, r) \in Nat /\ DataAfter(n, s) \in Nat /\ DataAfter(n, r) <= DataAfter(n, s)
  BY <1>1 DEF DataAfter
<1>4. \A m \in 0..DataAfter(n, r) : m \in 0..DataAfter(n, s)
  BY <1>3
<1>. QED BY <1>2, <1>4 DEF Fragment

(* Nothing is some of any event. *)
LEMMA EmptyIsFragment ==
    ASSUME NEW n \in Events, NEW r \in Nat
    PROVE  Fragment(Empty, n, r) /\ Empty.cut = FALSE /\ Empty \in Builders /\ ~Builds(Empty)
<1>1. DataAfter(n, r) \in Nat
  BY LinesNumbered DEF DataAfter
<1>2. Empty.id = 0 /\ Empty.retry = 0 /\ Empty.data = Copies(n, 0) /\ Empty.cut = FALSE
  BY DEF Empty, Copies
<1>3. Fragment(Empty, n, r)
  BY <1>1, <1>2 DEF Fragment
<1>. QED BY <1>2, <1>3 DEF Empty, Builders, Builds

(* A builder at the start of an event. *)
LEMMA AtTheStart ==
    ASSUME NEW n \in Events
    PROVE  /\ Collected(n, 0) = Empty /\ 0 \in 0..Full(n)
           /\ Fragment(Empty, n, 0) /\ Empty.cut = FALSE
<1>1. Full(n) \in Nat
  BY LinesNumbered DEF Full
<1>2. 0 \in Nat /\ 0 \in 0..Full(n)
  BY <1>1
<1>. QED BY <1>2, CollectedNone, EmptyIsFragment

(* A fragment with data makes a message that is part of its event. *)
LEMMA FragmentIsPart ==
    ASSUME NEW n \in Events, NEW b \in Builders, Builds(b), Fragment(b, n, Full(n))
    PROVE  /\ EventOf(b) = n /\ Part(b) /\ b \in Messages
           /\ b.id \in {0, n} /\ (b.id # 0 => Log[n].id)
           /\ b.retry \in {0, n} /\ (b.retry # 0 => Log[n].retry)
<1>1. PICK m \in 0..DataAfter(n, Full(n)) : b.data = Copies(n, m)
  BY DEF Fragment
<1>2. DataAfter(n, Full(n)) = Log[n].parts /\ Log[n].parts \in Nat
  <2>1. Fields(n) \in Nat /\ Log[n].parts \in Nat
    BY LinesNumbered
  <2>. QED BY <2>1 DEF DataAfter, Full
<1>3. m \in Nat /\ m <= Log[n].parts
  BY <1>1, <1>2
<1>4. b.data \in Seq(Events) /\ b.data # <<>> /\ Len(b.data) = m /\ DOMAIN b.data = 1..m
  BY <1>1, <1>3 DEF Copies, Builds, Builders
<1>5. \A k \in DOMAIN b.data : b.data[k] = n
  BY <1>1, <1>4 DEF Copies
<1>6. EventOf(b) = n
  <2>1. 1 \in DOMAIN b.data /\ Head(b.data) = b.data[1]
    BY <1>4
  <2>. QED BY <2>1, <1>5 DEF EventOf
<1>7. /\ b.id \in {0, n} /\ (b.id # 0 => Log[n].id)
      /\ b.retry \in {0, n} /\ (b.retry # 0 => Log[n].retry)
  BY DEF Fragment, IdAfter, RetryAfter
<1>8. Part(b)
  BY <1>3, <1>4, <1>5, <1>6, <1>7 DEF Part
<1>9. b \in Messages
  BY <1>4 DEF Messages, Builders
<1>. QED BY <1>6, <1>7, <1>8, <1>9

(* All lines of an event make the whole message. *)
LEMMA CollectedAll ==
    ASSUME NEW n \in Events
    PROVE  /\ Collected(n, Full(n)) = Message(n)
           /\ Builds(Collected(n, Full(n))) <=> Log[n].parts > 0
<1>1. /\ Fields(n) \in 0..2 /\ Log[n].parts \in Nat
      /\ Log[n].retry \in BOOLEAN /\ Log[n].id \in BOOLEAN
  BY LinesNumbered
<1>2. DataAfter(n, Full(n)) = Log[n].parts
  BY <1>1 DEF DataAfter, Full
<1>3. Log[n].id => Full(n) >= 1
  BY <1>1 DEF Full, Fields
<1>4. Full(n) >= Fields(n)
  BY <1>1 DEF Full
<1>5. /\ IdAfter(n, Full(n)) = (IF Log[n].id THEN n ELSE 0)
      /\ RetryAfter(n, Full(n)) = (IF Log[n].retry THEN n ELSE 0)
  BY <1>1, <1>3, <1>4 DEF IdAfter, RetryAfter
<1>6. Collected(n, Full(n)) = Message(n)
  BY <1>2, <1>5 DEF Collected, Message, Copies
<1>7. /\ Copies(n, Log[n].parts) \in Seq({n}) /\ Len(Copies(n, Log[n].parts)) = Log[n].parts
  BY <1>1 DEF Copies
<1>8. Copies(n, Log[n].parts) # <<>> <=> Log[n].parts > 0
  BY <1>1, <1>7
<1>9. Collected(n, Full(n)).data = Copies(n, Log[n].parts)
  BY <1>2 DEF Collected
<1>. QED BY <1>6, <1>8, <1>9 DEF Builds

(* What can be told from the next line. *)
LEMMA NextLine ==
    ASSUME NEW n \in Events, NEW r \in 0..Full(n)
    PROVE  /\ Lines(Log[n])[r + 1] = LineOf(n, r + 1)
           /\ LineOf(n, r + 1) = "blank" <=> r = Full(n)
<1>1. Fields(n) \in 0..2 /\ Log[n].parts \in Nat /\ Full(n) = Fields(n) + Log[n].parts
  BY LinesNumbered DEF Full
<1>2. r + 1 \in 1..(Fields(n) + Log[n].parts + 1) /\ r \in Nat
  BY <1>1
<1>3. Log[n].id => Fields(n) >= 1
  BY LinesNumbered DEF Fields
<1>4. r + 1 <= Fields(n) + Log[n].parts <=> ~(r = Full(n))
  BY <1>1, <1>2
<1>5. r + 1 <= Fields(n) => r + 1 <= Fields(n) + Log[n].parts
  BY <1>1, <1>2
<1>6. r + 1 = 1 /\ Log[n].id => r + 1 <= Fields(n)
  BY <1>1, <1>2, <1>3
<1>7. Lines(Log[n])[r + 1] = LineOf(n, r + 1)
  BY <1>2, LinesNumbered
<1>. QED BY <1>4, <1>5, <1>6, <1>7 DEF LineOf

-----------------------------------------------------------------------------
(* What a dispatch adds, wherever it comes from. *)

LEMMA Dispatched ==
    ASSUME SseTypeOK, BuilderOfOne, Position, Reading, Builds(builder), Dispatch
    PROVE  /\ sending \in Events /\ lastId < sending
           /\ delivered' \in Seq(Messages) /\ Len(delivered') = Len(delivered) + 1
           /\ DOMAIN delivered = 1..Len(delivered) /\ Len(delivered) \in Nat
           /\ DOMAIN delivered' = 1..(Len(delivered) + 1)
           /\ \A i \in DOMAIN delivered : delivered'[i] = delivered[i]
           /\ delivered'[Len(delivered) + 1] = builder
           /\ EventOf(builder) = sending /\ Part(builder)
           /\ lastId' = (IF builder.id # 0 THEN sending ELSE lastId)
           /\ parserId' \in {0, lastId'}
           /\ builder.id \in {0, sending} /\ (builder.id # 0 => Log[sending].id)
           /\ serverRetry' = (IF builder.retry # 0 THEN builder.retry ELSE serverRetry)
           /\ builder.retry \in {0, sending} /\ (builder.retry # 0 => Log[sending].retry)
           /\ builder' = Empty
<1>1. lastId < sending /\ parserId \in {0, lastId}
  BY DEF Position, MoreToCome
<1>2. builder \in Builders /\ delivered \in Seq(Messages)
  BY DEF SseTypeOK, Builders, Messages
<1>3. sending \in Events /\ Fragment(builder, sending, Full(sending))
  BY DEF BuilderOfOne
<1>4. /\ EventOf(builder) = sending /\ Part(builder) /\ builder \in Messages
      /\ builder.id \in {0, sending} /\ (builder.id # 0 => Log[sending].id)
      /\ builder.retry \in {0, sending} /\ (builder.retry # 0 => Log[sending].retry)
  BY <1>2, <1>3, FragmentIsPart
<1>5. delivered' = Append(delivered, builder)
  BY DEF Dispatch
<1>6. /\ delivered' \in Seq(Messages) /\ Len(delivered') = Len(delivered) + 1
      /\ DOMAIN delivered = 1..Len(delivered) /\ Len(delivered) \in Nat
      /\ DOMAIN delivered' = 1..(Len(delivered) + 1)
      /\ \A i \in DOMAIN delivered : delivered'[i] = delivered[i]
      /\ delivered'[Len(delivered) + 1] = builder
  BY <1>2, <1>4, <1>5
<1>7. sending # 0
  BY <1>3, EventNumbers
<1>8. /\ parserId' = (IF builder.id # 0 THEN sending ELSE parserId)
      /\ lastId' = (IF builder.id # 0 THEN sending ELSE lastId)
      /\ serverRetry' = (IF builder.retry # 0 THEN builder.retry ELSE serverRetry)
      /\ builder' = Empty
  BY <1>1, <1>4, <1>7 DEF Dispatch, Known
<1>. QED BY <1>1, <1>3, <1>4, <1>6, <1>8

(* The history after a dispatch. *)
LEMMA HistoryKept ==
    ASSUME SseTypeOK, BuilderOfOne, Position, DeliveredSoFar,
           NothingSkipped, NothingRepeated, LastRetry(serverRetry),
           Reading, Builds(builder), Dispatch, UNCHANGED interrupted
    PROVE  /\ \A n \in 1..sending : n \in Events /\ Log[n].parts > 0 => Delivered(n)'
           /\ \A i \in DOMAIN delivered' : delivered'[i].id # 0 => EventOf(delivered'[i]) <= lastId'
           /\ \A i \in DOMAIN delivered' : Part(delivered'[i])
           /\ \A i \in DOMAIN delivered : Whole(delivered'[i]) \/ EventOf(delivered'[i]) \in interrupted
           /\ NothingSkipped' /\ NothingRepeated' /\ LastRetry(serverRetry)'
<1>. DEFINE N == Len(delivered) + 1
<1>. USE Dispatched
<1>1. /\ sending \in Nat /\ sending > 0 /\ lastId \in Nat /\ lastId < sending
      /\ N \in DOMAIN delivered' /\ N \notin DOMAIN delivered
      /\ DOMAIN delivered' = DOMAIN delivered \union {N}
      /\ EventOf(delivered'[N]) = sending
  <2>1. lastId \in {0} \union Events
    BY DEF SseTypeOK
  <2>2. sending \in 1..Len(Log) /\ Len(Log) \in Nat /\ lastId \in Nat
    BY <2>1, EventNumbers
  <2>. QED BY <2>2
<1>2. \A i \in DOMAIN delivered : EventOf(delivered[i]) \in Nat
  <2>0. delivered \in Seq(Messages)
    BY DEF SseTypeOK, Messages
  <2>1. \A i \in DOMAIN delivered : delivered[i] \in Messages
    BY <2>0
  <2>2. \A m \in Messages : Head(m.data) \in Events
    BY DEF Messages
  <2>. QED BY <2>1, <2>2, EventNumbers DEF EventOf
<1>3. ASSUME NEW n, Delivered(n)
      PROVE  Delivered(n)'
  <2>1. CASE n \in interrupted
    BY <2>1 DEF Delivered
  <2>2. CASE \E i \in DOMAIN delivered : EventOf(delivered[i]) = n
    <3>1. PICK i \in DOMAIN delivered : EventOf(delivered[i]) = n
      BY <2>2
    <3>2. i \in DOMAIN delivered' /\ EventOf(delivered'[i]) = n
      BY <3>1, <1>1
    <3>. QED BY <3>2 DEF Delivered
  <2>. QED BY <1>3, <2>1, <2>2 DEF Delivered
<1>4. \E i \in DOMAIN delivered' : EventOf(delivered'[i]) = sending
  BY <1>1
<1>5. \A n \in 1..(sending - 1) : n \in Events /\ Log[n].parts > 0 => Delivered(n)
  BY DEF DeliveredSoFar
<1>6. ASSUME NEW n \in 1..sending, n \in Events, Log[n].parts > 0
      PROVE  Delivered(n)'
  <2>1. n = sending \/ n \in 1..(sending - 1)
    BY <1>1
  <2>2. CASE n \in 1..(sending - 1)
    <3>1. Delivered(n)
      BY <2>2, <1>5, <1>6
    <3>. QED BY <3>1, <1>3
  <2>3. CASE n = sending
    BY <2>3, <1>4 DEF Delivered
  <2>. QED BY <2>1, <2>2, <2>3
<1>7. \A i \in DOMAIN delivered : delivered[i].id # 0 => EventOf(delivered[i]) <= lastId
  BY DEF DeliveredSoFar
<1>8. ASSUME NEW i \in DOMAIN delivered', delivered'[i].id # 0
      PROVE  EventOf(delivered'[i]) <= lastId'
  <2>1. CASE i \in DOMAIN delivered
    <3>1. EventOf(delivered[i]) <= lastId /\ EventOf(delivered[i]) \in Nat
      BY <2>1, <1>2, <1>7, <1>8
    <3>. QED BY <2>1, <3>1, <1>1
  <2>2. CASE i = N
    BY <2>2, <1>1, <1>8
  <2>. QED BY <2>1, <2>2, <1>1
<1>9. \A i \in DOMAIN delivered : Whole(delivered'[i]) \/ EventOf(delivered'[i]) \in interrupted
  BY DEF DeliveredSoFar, MoreToCome
<1>10. \A i \in DOMAIN delivered' : Part(delivered'[i])
  <2>1. \A i \in DOMAIN delivered : Part(delivered'[i])
    BY DEF DeliveredSoFar
  <2>2. Part(delivered'[N])
    OBVIOUS
  <2>. QED BY <2>1, <2>2, <1>1
<1>11. NothingSkipped'
  <2>. SUFFICES ASSUME NEW i \in DOMAIN delivered',
                       NEW n \in 1..(EventOf(delivered'[i]) - 1), Log[n].parts > 0, n \notin interrupted
                PROVE  \E j \in 1..(i - 1) : EventOf(delivered'[j]) = n
    BY DEF NothingSkipped
  <2>1. CASE i \in DOMAIN delivered
    <3>1. PICK j \in 1..(i - 1) : EventOf(delivered[j]) = n
      BY <2>1 DEF NothingSkipped
    <3>2. j \in DOMAIN delivered
      BY <2>1, <3>1
    <3>. QED BY <3>1, <3>2
  <2>2. CASE i = N
    <3>1. n \in 1..(sending - 1) /\ n \in Events
      BY <2>2, <1>1, EventNumbers
    <3>2. PICK j \in DOMAIN delivered : EventOf(delivered[j]) = n
      BY <3>1, <1>5 DEF Delivered
    <3>3. j \in 1..(i - 1)
      BY <2>2, <3>2
    <3>. QED BY <3>2, <3>3
  <2>. QED BY <2>1, <2>2, <1>1
<1>12. NothingRepeated'
  <2>. SUFFICES ASSUME NEW i \in DOMAIN delivered', NEW j \in DOMAIN delivered',
                       i < j, delivered'[i].id # 0
                PROVE  EventOf(delivered'[i]) < EventOf(delivered'[j])
    BY DEF NothingRepeated
  <2>1. i \in DOMAIN delivered
    BY <1>1
  <2>2. CASE j \in DOMAIN delivered
    BY <2>1, <2>2 DEF NothingRepeated
  <2>3. CASE j = N
    <3>1. EventOf(delivered[i]) <= lastId /\ EventOf(delivered[i]) \in Nat
      BY <2>1, <1>2, <1>7
    <3>. QED BY <2>1, <2>3, <3>1, <1>1
  <2>. QED BY <2>2, <2>3, <1>1
<1>13. LastRetry(serverRetry)'
  <2>1. CASE builder.retry # 0
    <3>1. delivered'[N].retry = serverRetry' /\ serverRetry' # 0
      BY <2>1
    <3>2. (N + 1)..Len(delivered') = {}
      BY <1>1
    <3>. QED BY <3>1, <3>2, <1>1 DEF LastRetry
  <2>2. CASE builder.retry = 0
    <3>1. delivered'[N].retry = 0 /\ serverRetry' = serverRetry
      BY <2>2
    <3>2. CASE \E i \in DOMAIN delivered :
                  /\ delivered[i].retry = serverRetry /\ serverRetry # 0
                  /\ \A j \in (i + 1)..Len(delivered) : delivered[j].retry = 0
      <4>1. PICK i \in DOMAIN delivered :
                  /\ delivered[i].retry = serverRetry /\ serverRetry # 0
                  /\ \A j \in (i + 1)..Len(delivered) : delivered[j].retry = 0
        BY <3>2
      <4>2. i \in DOMAIN delivered' /\ delivered'[i].retry = serverRetry'
        BY <1>1, <3>1, <4>1
      <4>3. ASSUME NEW j \in (i + 1)..Len(delivered')
            PROVE  delivered'[j].retry = 0
        <5>1. j = N \/ j \in (i + 1)..Len(delivered)
          BY <1>1
        <5>2. \A k \in (i + 1)..Len(delivered) : k \in DOMAIN delivered
          BY <1>1
        <5>. QED BY <5>1, <5>2, <3>1, <4>1
      <4>. QED BY <3>1, <4>1, <4>2, <4>3 DEF LastRetry
    <3>3. CASE serverRetry = 0 /\ \A i \in DOMAIN delivered : delivered[i].retry = 0
      BY <1>1, <3>1, <3>3 DEF LastRetry
    <3>. QED BY <3>2, <3>3 DEF LastRetry
  <2>. QED BY <2>1, <2>2
<1>. QED BY <1>6, <1>8, <1>9, <1>10, <1>11, <1>12, <1>13

(* What stays of the history when nothing is delivered, also when a comment comes. *)
LEMMA HistoryStays ==
    ASSUME DeliveredSoFar, NothingSkipped, NothingRepeated, NothingMixed, LastRetry(serverRetry),
           UNCHANGED <<delivered, lastId, serverRetry>>, interrupted \subseteq interrupted',
           Reading' => \/ Reading /\ sending' = sending
                       \/ sending' = lastId + 1,
           MoreToCome' => MoreToCome,
           lastId \in Nat
    PROVE  /\ DeliveredSoFar' /\ NothingSkipped' /\ NothingRepeated' /\ NothingMixed'
           /\ LastRetry(serverRetry)'
<1>1. \A n : Delivered(n) => Delivered(n)'
  BY DEF Delivered
<1>2. \A n \in 1..lastId : n \in Events /\ Log[n].parts > 0 => Delivered(n)
  BY DEF DeliveredSoFar
<1>3. Reading' => \A n \in 1..(sending' - 1) : n \in Events /\ Log[n].parts > 0 => Delivered(n)
  <2>1. ASSUME sending' = lastId + 1
        PROVE  sending' - 1 = lastId
    BY <2>1
  <2>. QED BY <1>2, <2>1 DEF DeliveredSoFar
<1>4. /\ \A i \in DOMAIN delivered' : delivered'[i].id # 0 => EventOf(delivered'[i]) <= lastId'
      /\ \A i \in DOMAIN delivered' : Part(delivered'[i])
      /\ MoreToCome' => \A i \in DOMAIN delivered' :
                           Whole(delivered'[i]) \/ EventOf(delivered'[i]) \in interrupted'
  BY DEF DeliveredSoFar
<1>5. DeliveredSoFar'
  BY <1>1, <1>2, <1>3, <1>4 DEF DeliveredSoFar
<1>6. NothingSkipped' /\ NothingRepeated'
  BY DEF NothingSkipped, NothingRepeated
<1>7. NothingMixed'
  <2>1. CASE link' = "eof" /\ link = "eof"
    BY <2>1 DEF NothingMixed
  <2>2. CASE link' # "eof" \/ link # "eof"
    <3>1. \A i \in DOMAIN delivered' : Whole(delivered'[i]) \/ EventOf(delivered'[i]) \in interrupted'
      BY <2>2, <1>4 DEF MoreToCome, DeliveredSoFar
    <3>. QED BY <3>1, <1>4 DEF NothingMixed
  <2>. QED BY <2>1, <2>2
<1>8. LastRetry(serverRetry)'
  BY DEF LastRetry
<1>. QED BY <1>5, <1>6, <1>7, <1>8

(* The bookkeeping of retries when the inner task has failed. *)
LEMMA FailureCounted ==
    ASSUME SseTypeOK, AttemptsCounted, state = "Connected",
           InnerFails, UNCHANGED <<serverRetry, late>>
    PROVE  /\ AttemptsCounted' /\ GivesUpInTime' /\ WaitsForLast'
           /\ attempt' \in 0..MaxRetries /\ failed' \in Nat
           /\ state' \in {"Waiting", "Exhausted"} /\ inner' = "none"
           /\ wait' \in {wait, serverRetry}
<1>1. attempt = failed /\ attempt \in 0..MaxRetries /\ failed \in Nat /\ MaxRetries \in Nat
  BY EventSourceAssumption DEF SseTypeOK, AttemptsCounted
<1>2. CASE GiveUp
  BY <1>1, <1>2 DEF GiveUp, InnerFails, AttemptsCounted, GivesUpInTime, WaitsForLast
<1>3. CASE BackOff
  BY <1>1, <1>3 DEF BackOff, InnerFails, AttemptsCounted, GivesUpInTime, WaitsForLast
<1>. QED BY <1>2, <1>3 DEF InnerFails

(* What came since the last wait, if it has a retry, is what the client waits for. *)
LEMMA LastIsTold ==
    ASSUME SseTypeOK, LastRetry(serverRetry), WaitsForLast
    PROVE  WaitsAsTold
<1>. SUFFICES ASSUME state = "Waiting", NEW i \in Since, delivered[i].retry # 0,
                     \A j \in Since : j > i => delivered[j].retry = 0
              PROVE  serverRetry = delivered[i].retry
  BY DEF WaitsAsTold, WaitsForLast
<1>1. /\ waited \in Nat /\ Len(delivered) \in Nat /\ DOMAIN delivered = 1..Len(delivered)
      /\ Since = (waited + 1)..Len(delivered)
  BY DEF SseTypeOK, Since
<1>2. i \in DOMAIN delivered /\ i \in Nat
  BY <1>1
<1>3. PICK k \in DOMAIN delivered :
         /\ delivered[k].retry = serverRetry /\ serverRetry # 0
         /\ \A j \in (k + 1)..Len(delivered) : delivered[j].retry = 0
  BY <1>2 DEF LastRetry
<1>4. ~(k < i)
  BY <1>1, <1>2, <1>3
<1>5. ~(k > i)
  BY <1>1, <1>2, <1>3
<1>. QED BY <1>1, <1>2, <1>3, <1>4, <1>5

-----------------------------------------------------------------------------
(* The inductive invariant. *)

LEMMA InitInductive == Init => IInv
<1>. SUFFICES ASSUME Init PROVE IInv
  OBVIOUS
<1>1. SseTypeOK
  <2>1. builder \in Builders
    BY DEF Init, Builders, Empty
  <2>2. delivered \in Seq(Messages) /\ waited \in 0..Len(delivered)
    BY DEF Init
  <2>3. Len(Log) \in Nat /\ MaxRetries \in Nat /\ MaxBreaks \in Nat /\ MaxComments \in Nat
    BY EventSourceAssumption, EventNumbers
  <2>4. /\ attempt \in 0..MaxRetries /\ failed \in Nat /\ breaks \in 0..MaxBreaks
        /\ sending \in 1..(Len(Log) + 1) /\ read \in Nat
        /\ interrupted \subseteq Events /\ comments \in 0..MaxComments
    BY <2>3 DEF Init
  <2>. QED BY <2>1, <2>2, <2>4 DEF Init, SseTypeOK, Builders, Messages
<1>2. BuilderFollows /\ BuilderOfOne /\ Position
  BY DEF Init, BuilderFollows, BuilderOfOne, Position, Reading
<1>3. DeliveredSoFar /\ NothingSkipped /\ NothingRepeated /\ NothingMixed
  BY DEF Init, DeliveredSoFar, NothingSkipped, NothingRepeated, NothingMixed, Reading
<1>4. AttemptsCounted /\ GivesUpInTime /\ LastRetry(serverRetry) /\ WaitsForLast
  BY EventSourceAssumption DEF Init, AttemptsCounted, GivesUpInTime, LastRetry, WaitsForLast
<1>. QED BY <1>1, <1>2, <1>3, <1>4 DEF IInv

(* Steps that touch neither the connection nor the history. *)
LEMMA TaskSteps ==
    ASSUME IInv, Create \/ Sleep \/ Prepare \/ Elapses \/ UNCHANGED vars
    PROVE  IInv'
<1>. USE DEF taskVars, serverVars, seenVars, pastVars, vars
<1>0. /\ UNCHANGED <<serverVars, seenVars, interrupted, comments, builder, failed, breaks, attempt, wait>>
      /\ Reading' <=> Reading
  BY DEF IInv, Position, Create, Sleep, Prepare, Elapses, Reading
<1>1. SseTypeOK'
  <2>1. waited' \in 0..Len(delivered)
    BY DEF IInv, SseTypeOK, Create, Sleep, Prepare, Elapses
  <2>2. CASE Create \/ Prepare
    BY <1>0, <2>1, <2>2 DEF IInv, SseTypeOK, Create, Prepare
  <2>3. CASE Sleep \/ Elapses
    BY <1>0, <2>1, <2>3 DEF IInv, SseTypeOK, Sleep, Elapses
  <2>4. CASE UNCHANGED vars
    BY <1>0, <2>1, <2>4 DEF IInv, SseTypeOK
  <2>. QED BY <2>2, <2>3, <2>4
<1>2. BuilderFollows' /\ BuilderOfOne'
  BY <1>0 DEF IInv, BuilderFollows, BuilderOfOne
<1>3. Position'
  BY <1>0 DEF IInv, Position, MoreToCome, Create, Sleep, Prepare, Elapses, Reading
<1>4. lastId \in Nat
  BY EventNumbers DEF IInv, SseTypeOK
<1>5. DeliveredSoFar' /\ NothingSkipped' /\ NothingRepeated' /\ NothingMixed' /\ LastRetry(serverRetry)'
  BY <1>0, <1>4, HistoryStays DEF IInv, MoreToCome
<1>6. AttemptsCounted' /\ GivesUpInTime' /\ WaitsForLast'
  BY <1>0 DEF IInv, AttemptsCounted, GivesUpInTime, WaitsForLast, Create, Sleep, Prepare, Elapses
<1>. QED BY <1>1, <1>2, <1>3, <1>5, <1>6 DEF IInv

LEMMA ConnectStep == ASSUME IInv, Connect PROVE IInv'
<1>. USE DEF taskVars, serverVars, seenVars, pastVars
<1>0. /\ lastId \in {0} \union Events /\ lastId \in Nat /\ Len(Log) \in Nat /\ Events = 1..Len(Log)
      /\ Reading' /\ state = "Connected" /\ state' = "Connected" /\ link' = "open"
      /\ builder' = Empty /\ ~Builds(builder')
  BY EventNumbers DEF IInv, SseTypeOK, Connect, Position, Reading, Builds, Empty
<1>1. SseTypeOK'
  <2>1. builder' \in Builders
    BY <1>0 DEF Empty, Builders
  <2>. QED BY <1>0, <2>1 DEF IInv, SseTypeOK, Connect, Builders
<1>2. BuilderFollows'
  <2>1. ASSUME sending' \in Events
        PROVE  /\ Collected(sending', 0) = Empty /\ 0 \in 0..Full(sending')
               /\ Fragment(Empty, sending', 0) /\ Empty.cut = FALSE
    BY <2>1, AtTheStart
  <2>. QED BY <2>1, <1>0 DEF Connect, BuilderFollows
<1>3. BuilderOfOne'
  BY <1>0 DEF BuilderOfOne
<1>4. Position'
  BY <1>0 DEF Connect, Position, Reading
<1>5. link # "eof"
  BY DEF IInv, Position, Connect, Reading
<1>6. DeliveredSoFar' /\ NothingSkipped' /\ NothingRepeated' /\ NothingMixed' /\ LastRetry(serverRetry)'
  BY <1>0, <1>5, HistoryStays DEF IInv, MoreToCome, Connect
<1>7. AttemptsCounted' /\ GivesUpInTime' /\ WaitsForLast'
  BY <1>0 DEF IInv, AttemptsCounted, GivesUpInTime, WaitsForLast, Connect
<1>. QED BY <1>1, <1>2, <1>3, <1>4, <1>6, <1>7 DEF IInv

(* The connection is refused, or a read fails. *)
LEMMA FailureSteps == ASSUME IInv, Refused \/ ReadFails PROVE IInv'
<1>. USE DEF taskVars, serverVars, seenVars, pastVars
<1>0. /\ state = "Connected" /\ InnerFails /\ link # "eof"
      /\ UNCHANGED <<serverVars, seenVars, pastVars, late, builder>>
      /\ breaks' \in 0..MaxBreaks
  BY EventSourceAssumption DEF IInv, SseTypeOK, Position, Refused, ReadFails, Reading
<1>1. /\ AttemptsCounted' /\ GivesUpInTime' /\ WaitsForLast'
      /\ attempt' \in 0..MaxRetries /\ failed' \in Nat
      /\ state' \in {"Waiting", "Exhausted"} /\ inner' = "none"
      /\ wait' \in {wait, serverRetry}
  BY <1>0, FailureCounted DEF IInv
<1>2. ~Reading'
  BY <1>1 DEF Reading
<1>3. SseTypeOK'
  BY <1>0, <1>1 DEF IInv, SseTypeOK
<1>4. BuilderFollows' /\ BuilderOfOne'
  BY <1>2 DEF BuilderFollows, BuilderOfOne
<1>5. Position'
  BY <1>0, <1>1, <1>2 DEF Position
<1>6. lastId \in Nat
  BY EventNumbers DEF IInv, SseTypeOK
<1>7. DeliveredSoFar' /\ NothingSkipped' /\ NothingRepeated' /\ NothingMixed' /\ LastRetry(serverRetry)'
  BY <1>0, <1>2, <1>6, HistoryStays DEF IInv, MoreToCome
<1>. QED BY <1>0, <1>1, <1>3, <1>4, <1>5, <1>7 DEF IInv

(* The server or the network ends the connection. *)
LEMMA LinkSteps == ASSUME IInv, Ends \/ Breaks PROVE IInv'
<1>. USE DEF taskVars, serverVars, seenVars, pastVars
<1>0. /\ Reading /\ Reading' /\ link = "open" /\ link' \in {"eof", "cut", "broken"}
      /\ UNCHANGED <<taskVars, seenVars, pastVars, resumed, sending, read, late, builder, failed>>
      /\ breaks' \in 0..MaxBreaks
  BY EventSourceAssumption DEF IInv, SseTypeOK, Ends, Breaks, Reading
<1>1. SseTypeOK'
  BY <1>0 DEF IInv, SseTypeOK
<1>2. BuilderFollows' /\ BuilderOfOne'
  BY <1>0 DEF IInv, BuilderFollows, BuilderOfOne
<1>3. Position'
  BY <1>0 DEF IInv, Position, MoreToCome, Ends, Breaks, Arriving, Events
<1>4. lastId \in Nat
  BY EventNumbers DEF IInv, SseTypeOK
<1>5. DeliveredSoFar' /\ NothingSkipped' /\ NothingRepeated' /\ NothingMixed' /\ LastRetry(serverRetry)'
  BY <1>0, <1>4, HistoryStays DEF IInv, MoreToCome
<1>6. AttemptsCounted' /\ GivesUpInTime' /\ WaitsForLast'
  BY <1>0 DEF IInv, AttemptsCounted, GivesUpInTime, WaitsForLast, Reading, Position
<1>. QED BY <1>1, <1>2, <1>3, <1>5, <1>6 DEF IInv

(* Where a reading client is while the server is within an event. *)
LEMMA WithinEvent ==
    ASSUME IInv, Reading, Arriving
    PROVE  /\ sending \in Events /\ read \in 0..Full(sending)
           /\ read \in Nat /\ Full(sending) \in Nat
           /\ builder \in Builders /\ Fragment(builder, sending, read) /\ builder.cut = FALSE
           /\ sending \notin interrupted => builder = Collected(sending, read)
           /\ Line = LineOf(sending, read + 1)
           /\ state = "Connected" /\ lastId < sending
<1>1. sending \in Events
  BY DEF Arriving, Events
<1>2. /\ read \in 0..Full(sending) /\ Fragment(builder, sending, read) /\ builder.cut = FALSE
      /\ sending \notin interrupted => builder = Collected(sending, read)
  BY <1>1 DEF IInv, BuilderFollows, Arriving
<1>3. Line = LineOf(sending, read + 1)
  BY <1>1, <1>2, NextLine DEF Line
<1>4. state = "Connected" /\ lastId < sending
  BY DEF IInv, Position, MoreToCome, Arriving, Reading
<1>5. builder \in Builders
  BY DEF IInv, SseTypeOK, Builders
<1>. QED BY <1>1, <1>2, <1>3, <1>4, <1>5, LinesNumbered DEF Full

LEMMA FieldStep == ASSUME IInv, ReadField PROVE IInv'
<1>. USE DEF taskVars, serverVars, seenVars, pastVars
<1>0. /\ Reading /\ Reading' /\ link = "open" /\ link' = "open" /\ Arriving
      /\ UNCHANGED <<sending, interrupted>>
  BY DEF ReadField, Reading
<1>1. /\ sending \in Events /\ read \in 0..Full(sending)
      /\ read \in Nat /\ Full(sending) \in Nat
      /\ builder \in Builders /\ Fragment(builder, sending, read) /\ builder.cut = FALSE
      /\ sending \notin interrupted => builder = Collected(sending, read)
      /\ Line = LineOf(sending, read + 1)
      /\ state = "Connected" /\ lastId < sending
  BY <1>0, WithinEvent
<1>2. read < Full(sending)
  BY <1>1, NextLine DEF ReadField
<1>3. /\ builder' = Processed(builder, LineOf(sending, read + 1), sending) /\ read' = read + 1
      /\ builder' \in Builders /\ Fragment(builder', sending, read + 1) /\ builder'.cut = FALSE
  BY <1>1, <1>2, FragmentNext DEF ReadField
<1>4. read' \in Nat /\ read' \in 0..Full(sending) /\ read' <= Full(sending)
  BY <1>1, <1>2, <1>3
<1>5. sending \notin interrupted => builder' = Collected(sending, read + 1)
  BY <1>1, <1>2, <1>3, CollectedNext
<1>6. SseTypeOK'
  BY <1>3, <1>4 DEF IInv, SseTypeOK, ReadField, Builders
<1>7. BuilderFollows'
  BY <1>0, <1>1, <1>3, <1>4, <1>5 DEF BuilderFollows
<1>8. BuilderOfOne'
  <2>1. Fragment(builder', sending, Full(sending))
    BY <1>1, <1>3, <1>4, FragmentGrows
  <2>. QED BY <1>0, <1>1, <2>1 DEF BuilderOfOne
<1>9. Position'
  BY <1>0 DEF IInv, Position, MoreToCome, ReadField
<1>10. lastId \in Nat
  BY EventNumbers DEF IInv, SseTypeOK
<1>11. DeliveredSoFar' /\ NothingSkipped' /\ NothingRepeated' /\ NothingMixed' /\ LastRetry(serverRetry)'
  BY <1>0, <1>10, HistoryStays DEF IInv, MoreToCome, ReadField
<1>12. AttemptsCounted' /\ GivesUpInTime' /\ WaitsForLast'
  BY <1>1 DEF IInv, AttemptsCounted, GivesUpInTime, WaitsForLast, ReadField
<1>. QED BY <1>6, <1>7, <1>8, <1>9, <1>11, <1>12 DEF IInv

(* A comment: what has been collected of the event is lost, and what has been
   delivered is not. *)
LEMMA CommentStep == ASSUME IInv, ReadComment PROVE IInv'
<1>. USE DEF taskVars, serverVars, seenVars, pastVars
<1>0. /\ Reading /\ Reading' /\ link = "open" /\ link' = "open" /\ state = "Connected"
      /\ UNCHANGED <<state, wait, inner, serverVars, serverRetry, parserId, delivered, waited, late, breaks>>
      /\ builder' = Empty
      /\ attempt' = 0 /\ failed' = 0
  BY DEF ReadComment, Reading, IInv, Position, Received
<1>1. lastId' = lastId
  BY <1>0 DEF ReadComment, Known, IInv, Position
<1>2. ~(sending \in Events) => read = 0 /\ builder = Empty
  BY <1>0 DEF IInv, BuilderFollows
<1>3. interrupted \subseteq interrupted' /\ interrupted' \subseteq Events /\ comments' \in 0..MaxComments
  <2>1. interrupted \subseteq Events /\ comments \in 0..MaxComments /\ MaxComments \in Nat /\ read \in Nat
    BY EventSourceAssumption DEF IInv, SseTypeOK
  <2>2. CASE read = 0 /\ UNCHANGED <<interrupted, comments>>
    BY <2>1, <2>2
  <2>3. CASE read > 0 /\ comments < MaxComments
             /\ interrupted' = interrupted \union {sending} /\ comments' = comments + 1
    BY <1>2, <2>1, <2>3
  <2>. QED BY <2>2, <2>3 DEF ReadComment
<1>4. builder' \in Builders /\ ~Builds(builder')
  BY <1>0 DEF Empty, Builders, Builds
<1>5. SseTypeOK'
  BY <1>0, <1>1, <1>3, <1>4, EventSourceAssumption DEF IInv, SseTypeOK, Builders
<1>6. BuilderFollows'
  <2>1. ASSUME sending \in Events
        PROVE  /\ read \in 0..Full(sending) /\ read \in Nat
               /\ Fragment(Empty, sending, read) /\ Empty.cut = FALSE
               /\ sending \notin interrupted' => Empty = Collected(sending, read)
    <3>1. read \in 0..Full(sending) /\ read \in Nat
      BY <1>0, <2>1 DEF IInv, BuilderFollows, SseTypeOK
    <3>2. sending \notin interrupted' => read = 0
      BY DEF ReadComment
    <3>. QED BY <2>1, <3>1, <3>2, EmptyIsFragment, CollectedNone
  <2>. QED BY <1>0, <1>2, <2>1 DEF BuilderFollows
<1>7. BuilderOfOne'
  BY <1>4 DEF BuilderOfOne
<1>8. Position'
  BY <1>0, <1>1 DEF IInv, Position, MoreToCome
<1>9. lastId \in Nat
  BY EventNumbers DEF IInv, SseTypeOK
<1>10. DeliveredSoFar' /\ NothingSkipped' /\ NothingRepeated' /\ NothingMixed' /\ LastRetry(serverRetry)'
  BY <1>0, <1>1, <1>3, <1>9, HistoryStays DEF IInv, MoreToCome
<1>11. AttemptsCounted' /\ GivesUpInTime' /\ WaitsForLast'
  BY <1>0, EventSourceAssumption DEF AttemptsCounted, GivesUpInTime, WaitsForLast
<1>. QED BY <1>5, <1>6, <1>7, <1>8, <1>10, <1>11 DEF IInv

LEMMA CutStep == ASSUME IInv, ReadCut PROVE IInv'
<1>. USE DEF taskVars, serverVars, seenVars, pastVars
<1>0. /\ Reading /\ Reading' /\ link = "cut" /\ link' = "eof" /\ Arriving
      /\ UNCHANGED <<taskVars, seenVars, pastVars, resumed, sending, read, late, failed, breaks>>
  BY DEF ReadCut, Reading, Arriving, IInv, Position, Events
<1>1. /\ sending \in Events /\ read \in 0..Full(sending)
      /\ read \in Nat /\ Full(sending) \in Nat
      /\ builder \in Builders /\ Fragment(builder, sending, read)
      /\ Line = LineOf(sending, read + 1)
      /\ state = "Connected" /\ lastId < sending
  BY <1>0, WithinEvent
<1>2. ASSUME UNCHANGED builder
      PROVE  builder' \in Builders /\ Fragment(builder', sending, Full(sending))
  <2>1. read <= Full(sending)
    BY <1>1
  <2>. QED BY <1>1, <1>2, <2>1, FragmentGrows
<1>3. ASSUME Line = "data", builder' = [Processed(builder, Line, sending) EXCEPT !.cut = TRUE]
      PROVE  builder' \in Builders /\ Fragment(builder', sending, Full(sending))
  <2>. DEFINE p == Processed(builder, LineOf(sending, read + 1), sending)
  <2>1. read < Full(sending)
    BY <1>1, <1>3, NextLine
  <2>2. p \in Builders /\ Fragment(p, sending, read + 1)
    BY <1>1, <2>1, FragmentNext
  <2>3. read + 1 \in Nat /\ read + 1 <= Full(sending)
    BY <1>1, <2>1
  <2>4. Fragment(p, sending, Full(sending))
    BY <1>1, <2>2, <2>3, FragmentGrows
  <2>5. builder' = [p EXCEPT !.cut = TRUE]
    BY <1>1, <1>3
  <2>. HIDE DEF p
  <2>6. /\ builder'.id = p.id /\ builder'.retry = p.retry /\ builder'.data = p.data
        /\ builder' \in Builders
    BY <2>2, <2>5 DEF Builders
  <2>. QED BY <2>4, <2>6 DEF Fragment
<1>4. builder' \in Builders /\ BuilderOfOne'
  BY <1>0, <1>1, <1>2, <1>3 DEF ReadCut, BuilderOfOne
<1>5. SseTypeOK'
  BY <1>0, <1>4 DEF IInv, SseTypeOK, Builders
<1>6. BuilderFollows'
  BY <1>0 DEF BuilderFollows
<1>7. Position'
  BY <1>0 DEF IInv, Position, MoreToCome
<1>8. lastId \in Nat
  BY EventNumbers DEF IInv, SseTypeOK
<1>9. DeliveredSoFar' /\ NothingSkipped' /\ NothingRepeated' /\ NothingMixed' /\ LastRetry(serverRetry)'
  BY <1>0, <1>8, HistoryStays DEF IInv, MoreToCome
<1>10. AttemptsCounted' /\ GivesUpInTime' /\ WaitsForLast'
  BY <1>0, <1>1 DEF IInv, AttemptsCounted, GivesUpInTime, WaitsForLast
<1>. QED BY <1>4, <1>5, <1>6, <1>7, <1>9, <1>10 DEF IInv

LEMMA BlankStep == ASSUME IInv, ReadBlank PROVE IInv'
<1>. USE DEF taskVars, serverVars, seenVars, pastVars
<1>0. /\ Reading /\ Reading' /\ link = "open" /\ link' = "open" /\ Arriving
      /\ sending' = sending + 1 /\ read' = 0 /\ state' = state
      /\ UNCHANGED <<wait, inner, resumed, pastVars, late, breaks>>
  BY DEF ReadBlank, Reading
<1>1. /\ sending \in Events /\ read \in 0..Full(sending)
      /\ Fragment(builder, sending, read) /\ builder.cut = FALSE
      /\ sending \notin interrupted => builder = Collected(sending, read)
      /\ Line = LineOf(sending, read + 1)
      /\ state = "Connected" /\ lastId < sending
  BY <1>0, WithinEvent
<1>2. read = Full(sending)
  BY <1>1, NextLine DEF ReadBlank
<1>3. sending \in interrupted \/ (builder = Message(sending) /\ (Builds(builder) <=> Log[sending].parts > 0))
  BY <1>1, <1>2, CollectedAll
<1>4. /\ lastId \in Nat /\ sending \in Nat /\ sending + 1 \in 1..(Len(Log) + 1)
      /\ lastId \in {0} \union {n \in Events : Log[n].id}
      /\ serverRetry \in {0} \union {n \in Events : Log[n].retry}
  <2>1. /\ lastId \in {0} \union {n \in Events : Log[n].id}
        /\ serverRetry \in {0} \union {n \in Events : Log[n].retry}
    BY DEF IInv, SseTypeOK
  <2>2. lastId \in {0} \union Events
    BY <2>1
  <2>3. sending \in 1..Len(Log) /\ Len(Log) \in Nat /\ lastId \in {0} \union 1..Len(Log)
    BY <1>1, <2>2, EventNumbers
  <2>4. lastId \in Nat /\ sending \in Nat /\ sending + 1 \in 1..(Len(Log) + 1)
    BY <2>3
  <2>. QED BY <2>1, <2>4
<1>5. builder' = Empty
  BY DEF ReadBlank, Dispatch
<1>6. builder' \in Builders /\ ~Builds(builder')
  BY <1>5 DEF Empty, Builders, Builds
<1>7. BuilderFollows' /\ BuilderOfOne'
  <2>1. ASSUME sending + 1 \in Events
        PROVE  /\ Collected(sending + 1, 0) = Empty /\ 0 \in 0..Full(sending + 1)
               /\ Fragment(Empty, sending + 1, 0) /\ Empty.cut = FALSE
    BY <2>1, AtTheStart
  <2>2. BuilderFollows'
    BY <1>0, <1>5, <2>1 DEF BuilderFollows
  <2>. QED BY <2>2, <1>6 DEF BuilderOfOne
<1>8. ASSUME Builds(builder), Dispatch
      PROVE  IInv'
  <2>1. /\ delivered' \in Seq(Messages) /\ Len(delivered') = Len(delivered) + 1
        /\ DOMAIN delivered = 1..Len(delivered) /\ Len(delivered) \in Nat
        /\ DOMAIN delivered' = 1..(Len(delivered) + 1)
        /\ delivered'[Len(delivered) + 1] = builder
        /\ EventOf(builder) = sending
        /\ lastId' = (IF builder.id # 0 THEN sending ELSE lastId)
        /\ parserId' \in {0, lastId'}
        /\ builder.id # 0 => Log[sending].id
        /\ serverRetry' = (IF builder.retry # 0 THEN builder.retry ELSE serverRetry)
        /\ builder.retry \in {0, sending} /\ (builder.retry # 0 => Log[sending].retry)
    BY <1>0, <1>8, Dispatched DEF IInv
  <2>2. /\ \A n \in 1..sending : n \in Events /\ Log[n].parts > 0 => Delivered(n)'
        /\ \A i \in DOMAIN delivered' : delivered'[i].id # 0 => EventOf(delivered'[i]) <= lastId'
        /\ \A i \in DOMAIN delivered' : Part(delivered'[i])
        /\ \A i \in DOMAIN delivered : Whole(delivered'[i]) \/ EventOf(delivered'[i]) \in interrupted
        /\ NothingSkipped' /\ NothingRepeated' /\ LastRetry(serverRetry)'
    BY <1>0, <1>8, HistoryKept DEF IInv
  <2>3. /\ lastId' \in Nat /\ lastId' <= sending /\ lastId' < sending'
        /\ lastId' \in {0} \union {n \in Events : Log[n].id}
        /\ parserId' \in {0} \union {n \in Events : Log[n].id}
        /\ serverRetry' \in {0} \union {n \in Events : Log[n].retry}
    BY <1>0, <1>1, <1>4, <2>1
  <2>4. attempt' = 0 /\ failed' = 0 /\ 0 \in 0..MaxRetries /\ 0 <= MaxRetries + 1
    BY <1>8, EventSourceAssumption DEF Dispatch, Received
  <2>5. SseTypeOK'
    <3>1. /\ sending' \in 1..(Len(Log) + 1) /\ read' \in Nat
          /\ attempt' \in 0..MaxRetries /\ failed' \in Nat
      BY <1>0, <1>4, <2>4
    <3>2. waited' \in 0..Len(delivered')
      BY <1>0, <2>1 DEF IInv, SseTypeOK
    <3>. QED BY <1>0, <1>6, <2>1, <2>3, <3>1, <3>2 DEF IInv, SseTypeOK, Messages, Builders
  <2>6. Position'
    BY <1>0, <1>1, <2>1, <2>3 DEF IInv, Position, MoreToCome, Reading
  <2>7. Whole(builder) \/ EventOf(builder) \in interrupted
    BY <1>3, <2>1 DEF Whole
  <2>8. \A i \in DOMAIN delivered' : Whole(delivered'[i]) \/ EventOf(delivered'[i]) \in interrupted'
    <3>1. \A i \in DOMAIN delivered' : i \in DOMAIN delivered \/ i = Len(delivered) + 1
      BY <2>1
    <3>. QED BY <1>0, <2>1, <2>2, <2>7, <3>1
  <2>9. DeliveredSoFar'
    <3>1. \A n \in 1..lastId' : n \in 1..sending
      BY <1>4, <2>3
    <3>2. \A n \in 1..(sending' - 1) : n \in 1..sending
      BY <1>0, <1>4
    <3>. QED BY <2>2, <2>8, <3>1, <3>2 DEF DeliveredSoFar
  <2>10. NothingMixed'
    BY <2>2, <2>8 DEF NothingMixed
  <2>11. AttemptsCounted' /\ GivesUpInTime' /\ WaitsForLast'
    BY <1>0, <1>1, <2>4 DEF AttemptsCounted, GivesUpInTime, WaitsForLast
  <2>. QED BY <1>7, <2>2, <2>5, <2>6, <2>9, <2>10, <2>11 DEF IInv
<1>9. ASSUME ~Builds(builder), UNCHANGED <<attempt, failed, seenVars>>
      PROVE  IInv'
  <2>1. sending \in interrupted \/ ~(Log[sending].parts > 0)
    BY <1>3, <1>9
  <2>2. SseTypeOK'
    BY <1>0, <1>4, <1>6, <1>9 DEF IInv, SseTypeOK, Builders
  <2>3. Position'
    BY <1>0, <1>1, <1>4, <1>9 DEF IInv, Position, MoreToCome
  <2>4. DeliveredSoFar'
    <3>1. \A n : Delivered(n)' <=> Delivered(n)
      BY <1>0, <1>9 DEF Delivered
    <3>2. \A n \in 1..(sending' - 1) : n = sending \/ n \in 1..(sending - 1)
      BY <1>0, <1>4
    <3>3. \A n \in 1..(sending' - 1) : n \in Events /\ Log[n].parts > 0 => Delivered(n)
      BY <1>0, <2>1, <3>2 DEF IInv, DeliveredSoFar, Delivered
    <3>4. \A i \in DOMAIN delivered : Whole(delivered[i]) \/ EventOf(delivered[i]) \in interrupted
      BY <1>0 DEF IInv, DeliveredSoFar, MoreToCome
    <3>5. /\ \A n \in 1..lastId : n \in Events /\ Log[n].parts > 0 => Delivered(n)
          /\ \A i \in DOMAIN delivered : delivered[i].id # 0 => EventOf(delivered[i]) <= lastId
          /\ \A i \in DOMAIN delivered : Part(delivered[i])
      BY DEF IInv, DeliveredSoFar
    <3>. QED BY <1>0, <1>9, <3>1, <3>3, <3>4, <3>5 DEF DeliveredSoFar
  <2>5. NothingSkipped' /\ NothingRepeated' /\ NothingMixed' /\ LastRetry(serverRetry)'
    BY <1>0, <1>9 DEF IInv, NothingSkipped, NothingRepeated, NothingMixed, LastRetry
  <2>6. AttemptsCounted' /\ GivesUpInTime' /\ WaitsForLast'
    BY <1>0, <1>1, <1>9 DEF IInv, AttemptsCounted, GivesUpInTime, WaitsForLast
  <2>. QED BY <1>7, <2>2, <2>3, <2>4, <2>5, <2>6 DEF IInv
<1>. QED BY <1>8, <1>9 DEF ReadBlank

LEMMA EndStep == ASSUME IInv, ReadEnd PROVE IInv'
<1>. USE DEF taskVars, serverVars, seenVars, pastVars
<1>0. /\ Reading /\ link = "eof" /\ link' = "eof" /\ state = "Connected"
      /\ UNCHANGED <<wait, serverVars, pastVars, late, breaks>>
  BY DEF ReadEnd, Reading, IInv, Position
<1>1. lastId \in Nat
  BY EventNumbers DEF IInv, SseTypeOK
<1>2. BuilderFollows'
  BY <1>0 DEF BuilderFollows
<1>3. ASSUME Builds(builder), Dispatch, UNCHANGED <<state, inner>>
      PROVE  IInv'
  <2>1. /\ sending \in Events /\ lastId < sending
        /\ delivered' \in Seq(Messages) /\ Len(delivered') = Len(delivered) + 1
        /\ DOMAIN delivered = 1..Len(delivered) /\ Len(delivered) \in Nat
        /\ DOMAIN delivered' = 1..(Len(delivered) + 1)
        /\ lastId' = (IF builder.id # 0 THEN sending ELSE lastId)
        /\ parserId' \in {0, lastId'}
        /\ builder.id # 0 => Log[sending].id
        /\ serverRetry' = (IF builder.retry # 0 THEN builder.retry ELSE serverRetry)
        /\ builder.retry \in {0, sending} /\ (builder.retry # 0 => Log[sending].retry)
        /\ builder' = Empty
    BY <1>0, <1>3, Dispatched DEF IInv
  <2>2. /\ \A n \in 1..sending : n \in Events /\ Log[n].parts > 0 => Delivered(n)'
        /\ \A i \in DOMAIN delivered' : delivered'[i].id # 0 => EventOf(delivered'[i]) <= lastId'
        /\ \A i \in DOMAIN delivered' : Part(delivered'[i])
        /\ \A i \in DOMAIN delivered : Whole(delivered'[i]) \/ EventOf(delivered'[i]) \in interrupted
        /\ NothingSkipped' /\ NothingRepeated' /\ LastRetry(serverRetry)'
    BY <1>0, <1>3, HistoryKept DEF IInv
  <2>3. Reading' /\ ~Builds(builder') /\ builder' \in Builders
    BY <1>0, <1>3, <2>1 DEF Reading, Builds, Empty, Builders
  <2>4. attempt' = 0 /\ failed' = 0 /\ 0 \in 0..MaxRetries /\ 0 <= MaxRetries + 1
    BY <1>3, EventSourceAssumption DEF Dispatch, Received
  <2>5. /\ lastId' \in {0} \union {n \in Events : Log[n].id}
        /\ parserId' \in {0} \union {n \in Events : Log[n].id}
        /\ serverRetry' \in {0} \union {n \in Events : Log[n].retry}
    BY <2>1 DEF IInv, SseTypeOK
  <2>6. SseTypeOK'
    <3>1. waited' \in 0..Len(delivered')
      BY <1>0, <2>1 DEF IInv, SseTypeOK
    <3>. QED BY <1>0, <1>3, <2>1, <2>3, <2>4, <2>5, <3>1 DEF IInv, SseTypeOK, Messages, Builders
  <2>7. BuilderOfOne'
    BY <2>3 DEF BuilderOfOne
  <2>8. Position'
    BY <1>0, <1>3, <2>1, <2>3 DEF IInv, Position, MoreToCome
  <2>9. DeliveredSoFar'
    <3>1. sending \in Nat
      BY <2>1, EventNumbers
    <3>2. \A n \in 1..lastId' : n \in 1..sending
      BY <1>1, <2>1, <3>1
    <3>3. \A n \in 1..(sending' - 1) : n \in 1..sending
      BY <1>0, <3>1
    <3>4. ~MoreToCome'
      BY <1>0, <2>3 DEF MoreToCome, Builds
    <3>. QED BY <2>2, <3>2, <3>3, <3>4 DEF DeliveredSoFar
  <2>10. NothingMixed'
    <3>1. \A i \in DOMAIN delivered' : i \in DOMAIN delivered \/ i = Len(delivered')
      BY <2>1
    <3>. QED BY <1>0, <2>2, <3>1 DEF NothingMixed
  <2>11. AttemptsCounted' /\ GivesUpInTime' /\ WaitsForLast'
    BY <1>0, <1>3, <2>4 DEF AttemptsCounted, GivesUpInTime, WaitsForLast
  <2>. QED BY <1>2, <2>2, <2>6, <2>7, <2>8, <2>9, <2>10, <2>11 DEF IInv
<1>4. ASSUME ~Builds(builder), state' = "Exhausted", inner' = "none",
             UNCHANGED <<attempt, failed, builder, seenVars>>
      PROVE  IInv'
  <2>1. ~Reading'
    BY <1>4 DEF Reading
  <2>2. SseTypeOK'
    BY <1>0, <1>4 DEF IInv, SseTypeOK
  <2>3. BuilderOfOne' /\ Position'
    BY <1>0, <1>4, <2>1 DEF BuilderOfOne, Position
  <2>4. DeliveredSoFar' /\ NothingSkipped' /\ NothingRepeated' /\ NothingMixed' /\ LastRetry(serverRetry)'
    <3>1. MoreToCome' => MoreToCome
      BY <1>0, <1>4 DEF MoreToCome, Builds
    <3>. QED BY <1>0, <1>1, <1>4, <2>1, <3>1, HistoryStays DEF IInv
  <2>5. AttemptsCounted' /\ GivesUpInTime' /\ WaitsForLast'
    BY <1>0, <1>4 DEF IInv, AttemptsCounted, GivesUpInTime, WaitsForLast
  <2>. QED BY <1>2, <2>2, <2>3, <2>4, <2>5 DEF IInv
<1>. QED BY <1>3, <1>4 DEF ReadEnd

-----------------------------------------------------------------------------
(* The theorems. *)

LEMMA Inductive == Spec => []IInv
<1>1. IInv /\ [Next]_vars => IInv'
  BY TaskSteps, ConnectStep, FailureSteps, LinkSteps, FieldStep, CommentStep, CutStep,
     BlankStep, EndStep DEF Next, ClientStep
<1>. QED BY InitInductive, <1>1, PTL DEF Spec

(* What the client keeps is well-formed: the id it resumes from and the retry it
   heeds are of events that have one, and its attempts stay within max_retries
   (ReconnectingEventSourceTask::next_status, track_event_id). *)
THEOREM SseTypeCorrect == Spec => []SseTypeOK
<1>1. IInv => SseTypeOK
  BY DEF IInv
<1>. QED BY <1>1, Inductive, PTL

(* Over any number of lost connections, and with any number of comments in any
   place, the consumer gets every event that has no comment within it, in order
   and, if the server does not end the stream, whole; one received with its id is
   not received again; and no message has anything of another event than its own
   (parse_next, create_inner_task). *)
THEOREM SseExactlyOnce == Spec => []ExactlyOnce
<1>1. IInv => ExactlyOnce
  BY DEF IInv, ExactlyOnce
<1>. QED BY <1>1, Inductive, PTL

(* The client gives up after max_retries connections lost in a row and no earlier
   unless it is late or the stream has ended, and the last retry it was given
   since it waited is what it waits for next, wherever comments stood
   (next_status, decide). *)
THEOREM SseRetriesKept == Spec => []RetriesKept
<1>1. IInv => GivesUpInTime /\ WaitsAsTold
  BY LastIsTold DEF IInv
<1>2. IInv => RetriesKept
  BY <1>1 DEF RetriesKept
<1>. QED BY <1>2, Inductive, PTL
=============================================================================
