------------------------ MODULE ServerThreadsProofs ------------------------
(***************************************************************************)
(* Theorems about ServerThreads for every editor, every viewer and every   *)
(* way recv cuts the viewer's stream.                                      *)
(***************************************************************************)
EXTENDS ServerThreads, Integers, SequenceTheorems, TLAPS

-----------------------------------------------------------------------------
(* The stream of the viewer's messages.                                     *)

\* What is left of a sequence of pieces after its first n.
LEMMA RestOfSeq ==
  ASSUME NEW q \in Seq(Piece), NEW n \in 1..Len(q)
  PROVE  LET rest == SubSeq(q, n + 1, Len(q))
         IN  /\ rest \in Seq(Piece) /\ Len(rest) = Len(q) - n
             /\ \A k \in 1..Len(rest) : rest[k] = q[n + k] /\ n + k \in 1..Len(q)
<1> DEFINE rest == SubSeq(q, n + 1, Len(q))
<1>1. Len(q) \in Nat /\ n \in Nat /\ n <= Len(q) /\ n + 1 \in 1..(Len(q) + 1)
  OBVIOUS
<1>2. rest = [k \in 1..(Len(q) - n) |-> q[n + k]]
  BY <1>1
<1>3. Len(rest) = Len(q) - n
  BY <1>1, <1>2
<1>4. \A k \in 1..(Len(q) - n) : q[n + k] \in Piece /\ n + k \in 1..Len(q)
  BY <1>1
<1>5. rest \in Seq(Piece)
  BY <1>1, <1>2, <1>4
<1> HIDE DEF rest
<1>6. \A k \in 1..Len(rest) : rest[k] = q[n + k] /\ n + k \in 1..Len(q)
  BY <1>2, <1>3, <1>4
<1> QED BY <1>3, <1>5, <1>6 DEF rest

\* What recv of n pieces makes of the buffer.
LEMMA RecvBuffer ==
  ASSUME StreamTypes, StreamInv, NEW n \in DOMAIN wire,
         NEW b, b = recvBuffer \o SubSeq(wire, 1, n)
  PROVE  /\ b \in Seq(Piece) /\ Len(b) = Len(recvBuffer) + n /\ Len(b) > 0
         /\ \A k \in 1..Len(b) : b[k] = Pending(k)
<1>1. n \in 1..Len(wire)
  BY DEF StreamTypes
<1>2. /\ SubSeq(wire, 1, n) \in Seq(Piece) /\ Len(SubSeq(wire, 1, n)) = n
      /\ \A k \in 1..n : SubSeq(wire, 1, n)[k] = wire[k]
  BY <1>1 DEF StreamTypes
<1>3. b \in Seq(Piece) /\ Len(b) = Len(recvBuffer) + n
  BY <1>2 DEF StreamTypes
<1>4. ASSUME NEW k \in 1..Len(b) PROVE b[k] = Pending(k)
  <2>1. CASE k <= Len(recvBuffer)
    <3>1. b[k] = recvBuffer[k] /\ k \in 1..Len(recvBuffer)
      BY <1>2, <1>3, <1>4, <2>1 DEF StreamTypes
    <3> QED BY <3>1 DEF StreamInv
  <2>2. CASE k > Len(recvBuffer)
    <3> DEFINE j == k - Len(recvBuffer)
    <3>1. j \in 1..n /\ j \in 1..Len(wire) /\ k = Len(recvBuffer) + j
      BY <1>1, <1>3, <1>4, <2>2 DEF StreamTypes
    <3>2. b[k] = SubSeq(wire, 1, n)[j]
      BY <1>2, <1>3, <1>4, <2>2 DEF StreamTypes
    <3>3. wire[j] = Pending(Len(recvBuffer) + j)
      BY <3>1 DEF StreamInv
    <3> QED BY <1>2, <3>1, <3>2, <3>3
  <2> QED BY <1>3, <2>1, <2>2 DEF StreamTypes
<1> QED BY <1>1, <1>3, <1>4 DEF StreamTypes

\* The second piece ends the first message.
LEMMA FirstEndIsTwo ==
  ASSUME NEW b \in Seq(Piece), Len(b) > 0, \A k \in 1..Len(b) : b[k] = Pending(k)
  PROVE  (Len(b) = 1 => FirstEnd(b) = 0) /\ (Len(b) > 1 => FirstEnd(b) = 2)
<1> DEFINE ends == {i \in DOMAIN b : b[i].last}
<1>1. \A i \in DOMAIN b : b[i].last <=> i % 2 = 0
  <2>1. \A i : Pending(i).last <=> i % 2 = 0
    BY Zenon DEF Pending
  <2>2. \A i \in DOMAIN b : b[i] = Pending(i)
    <3>1. DOMAIN b = 1..Len(b)
      OBVIOUS
    <3> QED BY <3>1
  <2> QED BY <2>1, <2>2, Zenon
<1>2. ASSUME Len(b) = 1 PROVE FirstEnd(b) = 0
  <2>1. DOMAIN b = {1}
    BY <1>2
  <2>2. ends = {}
    BY <1>1, <2>1
  <2> QED BY <1>2, <2>2 DEF FirstEnd
<1>3. ASSUME Len(b) > 1 PROVE FirstEnd(b) = 2
  <2>1. 2 \in DOMAIN b /\ DOMAIN b \subseteq Nat
    BY <1>3
  <2>2. 2 \in ends
    BY <1>1, <2>1
  <2>3. \A j \in ends : j \in Nat /\ 2 <= j
    <3>1. \A j \in DOMAIN b : j \in Nat /\ j >= 1
      OBVIOUS
    <3> QED BY <1>1, <3>1
  <2>4. \A i \in ends : (\A j \in ends : i <= j) => i = 2
    BY <2>2, <2>3
  <2>5. (CHOOSE i \in ends : \A j \in ends : i <= j) = 2
    BY <2>2, <2>3, <2>4
  <2> QED BY <1>3, <2>2, <2>5 DEF FirstEnd
<1> QED BY <1>2, <1>3

\* recv keeps the stream: what it takes is the next message of the viewer.
LEMMA RecvKeeps ==
  ASSUME StreamTypes, StreamInv, NEW n \in DOMAIN wire, Recv(n)
  PROVE  StreamTypes' /\ StreamInv'
<1> DEFINE b == recvBuffer \o SubSeq(wire, 1, n)
<1>1. /\ b \in Seq(Piece) /\ Len(b) = Len(recvBuffer) + n /\ Len(b) > 0
      /\ \A k \in 1..Len(b) : b[k] = Pending(k)
  BY RecvBuffer
<1>2. (Len(b) = 1 => FirstEnd(b) = 0) /\ (Len(b) > 1 => FirstEnd(b) = 2)
  BY <1>1, FirstEndIsTwo
<1>3. /\ wire' = SubSeq(wire, n + 1, Len(wire))
      /\ recvBuffer' = SubSeq(b, FirstEnd(b) + 1, Len(b))
      /\ taken' = IF FirstEnd(b) = 0 THEN taken ELSE Append(taken, b[FirstEnd(b)].msg)
      /\ sent' = sent
  BY DEF Recv
<1> HIDE DEF b
<1>n. n \in 1..Len(wire)
  BY DEF StreamTypes
<1>o. n \in Nat
  BY <1>n DEF StreamTypes
<1>m. /\ Len(recvBuffer) \in Nat /\ Len(wire) \in Nat /\ Len(sent) \in Nat /\ Len(taken) \in Nat
      /\ Len(b) \in Nat
      /\ Len(recvBuffer) + Len(wire) = 2 * (Len(sent) - Len(taken))
      /\ Len(taken) <= Len(sent)
  BY <1>1 DEF StreamTypes, StreamInv
<1>4. /\ wire' \in Seq(Piece) /\ Len(wire') = Len(wire) - n
      /\ \A k \in 1..Len(wire') : wire'[k] = wire[n + k] /\ n + k \in 1..Len(wire)
  BY <1>3, <1>n, RestOfSeq DEF StreamTypes
<1> DEFINE rest(k) == [msg |-> sent'[Len(taken') + ((k + 1) \div 2)], last |-> k % 2 = 0]
<1>5. CASE Len(b) = 1
  <2>1. /\ recvBuffer' \in Seq(Piece) /\ Len(recvBuffer') = Len(b) /\ taken' = taken
        /\ \A k \in 1..Len(b) : recvBuffer'[k] = b[k]
    <3>1. recvBuffer' = SubSeq(b, 1, Len(b)) /\ taken' = taken
      BY <1>2, <1>3, <1>5
    <3> QED BY <1>1, <3>1
  <2>2. \A k : rest(k) = Pending(k)
    BY <1>3, <2>1 DEF Pending
  <2>3. \A k \in 1..Len(wire') : wire'[k] = Pending(Len(recvBuffer') + k)
    <3>1. ASSUME NEW k \in 1..Len(wire') PROVE wire'[k] = Pending(Len(recvBuffer') + k)
      <4>1. wire'[k] = wire[n + k] /\ n + k \in 1..Len(wire)
        BY <1>4
      <4>2. wire[n + k] = Pending(Len(recvBuffer) + (n + k))
        BY <4>1 DEF StreamInv
      <4>3. Len(recvBuffer) + (n + k) = Len(recvBuffer') + k
        BY <1>1, <1>4, <1>n, <1>m, <2>1
      <4> QED BY <4>1, <4>2, <4>3
    <3> QED BY <3>1
  <2>4. Len(recvBuffer') + Len(wire') = 2 * (Len(sent') - Len(taken'))
    <3>1. Len(recvBuffer') = Len(recvBuffer) + n /\ Len(sent') = Len(sent) /\ taken' = taken
      BY <1>1, <1>3, <2>1, Zenon
    <3> DEFINE r == Len(recvBuffer)   w == Len(wire)   s == Len(sent)   t == Len(taken)
               r1 == Len(recvBuffer') w1 == Len(wire') s1 == Len(sent') t1 == Len(taken')
    <3>2. /\ r \in Nat /\ w \in Nat /\ s \in Nat /\ t \in Nat /\ n \in Nat
          /\ r + w = 2 * (s - t) /\ w1 = w - n
      BY <1>4, <1>m, <1>o, Zenon
    <3>3. r1 = r + n /\ s1 = s /\ t1 = t
      BY <3>1, Zenon
    <3> HIDE DEF r, w, s, t, r1, w1, s1, t1
    <3>4. r1 + w1 = 2 * (s1 - t1)
      BY <3>2, <3>3
    <3> QED BY <3>4, Zenon DEF r, w, s, t, r1, w1, s1, t1
  <2>5. InOrder' /\ Len(taken') <= Len(sent')
    BY <1>3, <2>1 DEF StreamInv, InOrder
  <2>6. \A k \in 1..Len(recvBuffer') : recvBuffer'[k] = Pending(k)
    BY <1>1, <2>1
  <2>7. StreamTypes'
    BY <1>3, <1>4, <2>1 DEF StreamTypes
  <2>8. /\ \A k \in 1..Len(recvBuffer') : recvBuffer'[k] = rest(k)
        /\ \A k \in 1..Len(wire') : wire'[k] = rest(Len(recvBuffer') + k)
    BY <2>2, <2>3, <2>6
  <2> QED BY <2>4, <2>5, <2>7, <2>8 DEF StreamInv, Pending
<1>6. CASE Len(b) > 1
  <2>1. /\ recvBuffer' \in Seq(Piece) /\ Len(recvBuffer') = Len(b) - 2
        /\ \A k \in 1..Len(recvBuffer') : recvBuffer'[k] = b[k + 2] /\ k + 2 \in 1..Len(b)
    <3>1. recvBuffer' = SubSeq(b, 2 + 1, Len(b)) /\ 2 \in 1..Len(b)
      BY <1>2, <1>3, <1>6, <1>m
    <3>2. \A k \in 1..(Len(b) - 2) : 2 + k = k + 2
      BY <1>m
    <3> QED BY <1>1, <3>1, <3>2, RestOfSeq
  <2>2. Len(taken) + 1 <= Len(sent)
    BY <1>1, <1>6, <1>n DEF StreamInv, StreamTypes
  <2>3. b[2].msg = sent[Len(taken) + 1]
    <3>1. b[2] = Pending(2)
      BY <1>1, <1>6
    <3>2. (2 + 1) \div 2 = 1
      OBVIOUS
    <3> QED BY <3>1, <3>2 DEF Pending
  <2>4. taken' = Append(taken, sent[Len(taken) + 1])
    BY <1>2, <1>3, <1>6, <2>3
  <2>5. taken' \in Seq(Event) /\ Len(taken') = Len(taken) + 1
    BY <2>2, <2>4 DEF StreamTypes
  <2>6. taken' = SubSeq(sent, 1, Len(taken) + 1)
    <3>1. \A i \in 1..Len(taken) : taken[i] = sent[i]
      BY <2>2 DEF StreamInv, InOrder, StreamTypes
    <3>2. \A i \in 1..(Len(taken) + 1) : taken'[i] = sent[i]
      BY <2>4, <2>5, <3>1 DEF StreamTypes
    <3>3. SubSeq(sent, 1, Len(taken) + 1) = [i \in 1..(Len(taken) + 1) |-> sent[i]]
      BY <2>2 DEF StreamTypes
    <3>4. taken' = [i \in 1..(Len(taken) + 1) |-> taken'[i]]
      BY <2>5 DEF StreamTypes
    <3> QED BY <3>2, <3>3, <3>4
  <2>7. \A k \in Nat : rest(k) = Pending(k + 2)
    <3>1. ASSUME NEW k \in Nat PROVE rest(k) = Pending(k + 2)
      <4>1. (k + 2) % 2 = k % 2 /\ ((k + 2) + 1) \div 2 = ((k + 1) \div 2) + 1
        OBVIOUS
      <4>2. Len(taken') + ((k + 1) \div 2) = Len(taken) + (((k + 2) + 1) \div 2)
        BY <2>5, <4>1 DEF StreamTypes
      <4> QED BY <1>3, <4>1, <4>2 DEF Pending
    <3> QED BY <3>1
  <2>8. \A k \in 1..Len(recvBuffer') : recvBuffer'[k] = rest(k)
    <3>1. ASSUME NEW k \in 1..Len(recvBuffer') PROVE recvBuffer'[k] = rest(k)
      <4>1. k \in Nat /\ recvBuffer'[k] = b[k + 2] /\ k + 2 \in 1..Len(b)
        BY <2>1
      <4> QED BY <1>1, <2>7, <4>1
    <3> QED BY <3>1
  <2>9. \A k \in 1..Len(wire') : wire'[k] = rest(Len(recvBuffer') + k)
    <3>1. ASSUME NEW k \in 1..Len(wire') PROVE wire'[k] = rest(Len(recvBuffer') + k)
      <4>1. wire'[k] = wire[n + k] /\ n + k \in 1..Len(wire)
        BY <1>4
      <4>2. wire[n + k] = Pending(Len(recvBuffer) + (n + k))
        BY <4>1 DEF StreamInv
      <4>3. /\ Len(recvBuffer') + k \in Nat
            /\ Len(recvBuffer) + (n + k) = (Len(recvBuffer') + k) + 2
        <5>1. Len(recvBuffer') = (Len(recvBuffer) + n) - 2 /\ Len(recvBuffer) + n > 1
          BY <1>1, <1>6, <2>1, Zenon
        <5> DEFINE r == Len(recvBuffer) r1 == Len(recvBuffer')
        <5>2. r \in Nat /\ n \in Nat /\ r1 = (r + n) - 2 /\ r + n > 1
          BY <1>m, <1>o, <5>1, Zenon
        <5>3. k \in Nat
          <6> DEFINE w1 == Len(wire')
          <6>1. k \in 1..w1
            OBVIOUS
          <6> HIDE DEF w1
          <6> QED BY <6>1
        <5> HIDE DEF r, r1
        <5>4. r1 + k \in Nat /\ r + (n + k) = (r1 + k) + 2
          BY <5>2, <5>3
        <5> QED BY <5>4, Zenon DEF r, r1
      <4> QED BY <2>7, <4>1, <4>2, <4>3
    <3> QED BY <3>1
  <2>10. Len(recvBuffer') + Len(wire') = 2 * (Len(sent') - Len(taken'))
    <3>1. /\ Len(recvBuffer') = (Len(recvBuffer) + n) - 2
          /\ Len(sent') = Len(sent) /\ Len(taken') = Len(taken) + 1
      BY <1>1, <1>3, <2>1, <2>5, Zenon
    <3> DEFINE r == Len(recvBuffer)   w == Len(wire)   s == Len(sent)   t == Len(taken)
               r1 == Len(recvBuffer') w1 == Len(wire') s1 == Len(sent') t1 == Len(taken')
    <3>2. /\ r \in Nat /\ w \in Nat /\ s \in Nat /\ t \in Nat /\ n \in Nat
          /\ r + w = 2 * (s - t) /\ w1 = w - n
      BY <1>4, <1>m, <1>o, Zenon
    <3>3. r1 = (r + n) - 2 /\ s1 = s /\ t1 = t + 1
      BY <3>1, Zenon
    <3> HIDE DEF r, w, s, t, r1, w1, s1, t1
    <3>5. \A x \in Int : 2 * (x - 1) = 2 * x - 2
      OBVIOUS
    <3>6. s1 - t1 = (s - t) - 1 /\ r1 + w1 = (r + w) - 2 /\ s - t \in Int
      BY <3>2, <3>3
    <3>4. r1 + w1 = 2 * (s1 - t1)
      BY <3>2, <3>5, <3>6
    <3> QED BY <3>4, Zenon DEF r, w, s, t, r1, w1, s1, t1
  <2>11. StreamTypes'
    BY <1>3, <1>4, <2>1, <2>5 DEF StreamTypes
  <2>12. InOrder' /\ Len(taken') <= Len(sent')
    BY <1>3, <2>2, <2>5, <2>6 DEF InOrder, StreamTypes
  <2> QED BY <2>8, <2>9, <2>10, <2>11, <2>12 DEF StreamInv, Pending
<1> QED BY <1>1, <1>5, <1>6

\* A message the viewer sends is the last of what is still to be returned.
LEMMA SendKeeps ==
  ASSUME StreamTypes, StreamInv, NEW m \in Event, ViewerSends(m)
  PROVE  StreamTypes' /\ StreamInv'
<1> DEFINE two == <<[msg |-> m, last |-> FALSE], [msg |-> m, last |-> TRUE]>>
<1>1. /\ sent' = Append(sent, m) /\ wire' = wire \o two
      /\ recvBuffer' = recvBuffer /\ taken' = taken
  BY DEF ViewerSends
<1>2. two \in Seq(Piece) /\ Len(two) = 2
  BY DEF Piece
<1>3. /\ sent' \in Seq(Event) /\ Len(sent') = Len(sent) + 1 /\ sent'[Len(sent) + 1] = m
      /\ \A i \in 1..Len(sent) : sent'[i] = sent[i]
  BY <1>1 DEF StreamTypes
<1>4. /\ wire' \in Seq(Piece) /\ Len(wire') = Len(wire) + 2
      /\ \A k \in 1..Len(wire) : wire'[k] = wire[k]
      /\ wire'[Len(wire) + 1] = [msg |-> m, last |-> FALSE]
      /\ wire'[Len(wire) + 2] = [msg |-> m, last |-> TRUE]
  BY <1>1, <1>2 DEF StreamTypes
<1>5. StreamTypes'
  BY <1>1, <1>3, <1>4 DEF StreamTypes
<1> DEFINE r == Len(recvBuffer)   w == Len(wire)   s == Len(sent)   t == Len(taken)
<1>6. /\ r \in Nat /\ w \in Nat /\ s \in Nat /\ t \in Nat
      /\ r + w = 2 * (s - t) /\ t <= s
  BY DEF StreamTypes, StreamInv
<1> DEFINE rest(k) == [msg |-> sent'[t + ((k + 1) \div 2)], last |-> k % 2 = 0]
<1>7. ASSUME NEW k \in 1..(r + w) PROVE rest(k) = Pending(k)
  <2>1. t + ((k + 1) \div 2) \in 1..s
    <3> HIDE DEF r, w, s, t
    <3> QED BY <1>6
  <2>2. sent'[t + ((k + 1) \div 2)] = sent[t + ((k + 1) \div 2)]
    BY <1>3, <2>1
  <2> QED BY <2>2 DEF Pending
<1>8. /\ rest(r + (w + 1)) = [msg |-> m, last |-> FALSE]
      /\ rest(r + (w + 2)) = [msg |-> m, last |-> TRUE]
  <2>1. /\ t + (((r + (w + 1)) + 1) \div 2) = s + 1 /\ (r + (w + 1)) % 2 # 0
        /\ t + (((r + (w + 2)) + 1) \div 2) = s + 1 /\ (r + (w + 2)) % 2 = 0
    <3> HIDE DEF r, w, s, t
    <3>1. PICK d \in Nat : r + w = 2 * d /\ s = t + d
      <4>1. s - t \in Nat /\ s = t + (s - t)
        BY <1>6
      <4> QED BY <1>6, <4>1
    <3>2. /\ r + (w + 1) = 2 * d + 1 /\ r + (w + 2) = 2 * d + 2
          /\ (r + (w + 1)) + 1 = 2 * d + 2 /\ (r + (w + 2)) + 1 = 2 * d + 3
      BY <1>6, <3>1
    <3>3. /\ (2 * d + 2) \div 2 = d + 1 /\ (2 * d + 3) \div 2 = d + 1
          /\ (2 * d + 1) % 2 = 1 /\ (2 * d + 2) % 2 = 0
      OBVIOUS
    <3> QED BY <1>6, <3>1, <3>2, <3>3
  <2> QED BY <1>3, <2>1
<1>9. \A k \in 1..Len(recvBuffer') : recvBuffer'[k] = rest(k)
  <2>1. ASSUME NEW k \in 1..r PROVE recvBuffer[k] = rest(k)
    <3>1. recvBuffer[k] = Pending(k)
      BY DEF StreamInv
    <3>2. k \in 1..(r + w)
      <4> HIDE DEF r, w
      <4> QED BY <1>6
    <3> QED BY <1>7, <3>1, <3>2
  <2> QED BY <1>1, <2>1
<1>10. ASSUME NEW k \in 1..Len(wire') PROVE wire'[k] = rest(r + k)
  <2>1. k \in 1..w \/ k = w + 1 \/ k = w + 2
    BY <1>4, <1>6
  <2>2. ASSUME k \in 1..w PROVE wire'[k] = rest(r + k)
    <3>1. wire'[k] = wire[k] /\ wire[k] = Pending(r + k)
      BY <1>4, <2>2 DEF StreamInv
    <3>2. r + k \in 1..(r + w)
      <4>1. k \in 1..w
        BY <2>2
      <4> HIDE DEF r, w
      <4> QED BY <1>6, <4>1
    <3> QED BY <1>7, <3>1, <3>2
  <2>3. CASE k = w + 1
    BY <1>4, <1>8, <2>3
  <2>4. CASE k = w + 2
    BY <1>4, <1>8, <2>4
  <2> QED BY <2>1, <2>2, <2>3, <2>4
<1>11. Len(recvBuffer') + Len(wire') = 2 * (Len(sent') - Len(taken')) /\ Len(taken') <= Len(sent')
  <2>1. r + (w + 2) = 2 * ((s + 1) - t) /\ t <= s + 1
    <3> HIDE DEF r, w, s, t
    <3>1. \A x \in Int : 2 * (x + 1) = 2 * x + 2
      OBVIOUS
    <3>2. (s + 1) - t = (s - t) + 1 /\ s - t \in Int /\ r + (w + 2) = (r + w) + 2 /\ t <= s + 1
      BY <1>6
    <3> QED BY <1>6, <3>1, <3>2
  <2> QED BY <1>1, <1>3, <1>4, <2>1
<1>12. InOrder'
  <2>1. /\ SubSeq(sent, 1, t) = [i \in 1..t |-> sent[i]]
        /\ SubSeq(sent', 1, t) = [i \in 1..t |-> sent'[i]]
    BY <1>3, <1>6 DEF StreamTypes
  <2>2. \A i \in 1..t : sent'[i] = sent[i]
    <3>1. \A i \in 1..t : i \in 1..s
      BY <1>6
    <3> QED BY <1>3, <3>1
  <2> QED BY <1>1, <2>1, <2>2 DEF InOrder, StreamInv
<1> QED BY <1>1, <1>5, <1>9, <1>10, <1>11, <1>12 DEF StreamInv, Pending

\* Everything but recv and a message of the viewer leaves the stream alone.
LEMMA StreamStep ==
  ASSUME [Next]_vars
  PROVE  \/ \E n \in DOMAIN wire : Recv(n)
         \/ \E m \in Event : ViewerSends(m)
         \/ UNCHANGED stream
<1>1. CASE Environment
  BY <1>1, Zenon DEF Environment, EditorSend, LaunchFails, ViewerConnects, ViewerQuits, SetupFails
<1>2. CASE Session
  BY <1>2, Zenon DEF Session, CreateSession, Accept, GreetDisconnected, GreetTimeout, GreetRecv,
    StartThread, loadWaveform
<1>3. CASE ServerThread /\ ~Session
  BY <1>3, Zenon DEF ServerThread, Read, Process, Reply, Lock, Unlock, WriteStdout, sendBuffer
<1>4. CASE ViewerThread
  BY <1>4, Zenon DEF ViewerThread, PollRecv, PollDisconnected, ResetRunning, HandleEvent, ThreadEnds,
    Lock, Unlock, WriteStdout, sendBuffer
<1>5. CASE UNCHANGED vars
  BY <1>5, Zenon DEF vars, stream
<1> QED BY <1>1, <1>2, <1>3, <1>4, <1>5 DEF Next, ServerThread

\* The stream is in order at the start ...
LEMMA StreamInit == Init => StreamTypes /\ StreamInv
<1>1. Init => StreamTypes
  BY DEF Init, StreamTypes
<1>2. Init => StreamInv
  BY DEF Init, StreamInv, InOrder
<1> QED BY <1>1, <1>2

\* ... and every step keeps it so.
LEMMA StreamKept == StreamTypes /\ StreamInv /\ [Next]_vars => (StreamTypes /\ StreamInv)'
<1> SUFFICES ASSUME StreamTypes, StreamInv, [Next]_vars PROVE StreamTypes' /\ StreamInv'
  OBVIOUS
<1>1. CASE \E n \in DOMAIN wire : Recv(n)
  BY <1>1, RecvKeeps
<1>2. CASE \E m \in Event : ViewerSends(m)
  BY <1>2, SendKeeps
<1>3. CASE UNCHANGED stream
  BY <1>3, Zenon DEF stream, StreamTypes, StreamInv, InOrder, Pending
<1> QED BY <1>1, <1>2, <1>3, StreamStep

\* getMessage returns the viewer's messages whole and in order, none twice and none
\* left out, for every number of messages, every way recv cuts the stream and
\* every interleaving of the two threads.
THEOREM StreamIsInOrder == Spec => []StreamInOrder
<1>1. StreamInv => StreamInOrder
  BY DEF StreamInv, StreamInOrder
<1> QED BY <1>1, StreamInit, StreamKept, PTL DEF Spec

\* What is in transit is one message longer when the viewer sends one.
LEMMA TransitPut ==
  ASSUME NEW s \in Seq(Event), NEW t \in 0..Len(s), NEW m \in Event
  PROVE  SubSeq(Append(s, m), t + 1, Len(s) + 1) = Append(SubSeq(s, t + 1, Len(s)), m)
<1> DEFINE q == SubSeq(s, t + 1, Len(s))   r == SubSeq(Append(s, m), t + 1, Len(s) + 1)
<1>1. Len(s) \in Nat /\ t \in Nat /\ t <= Len(s) /\ Len(s) - t \in Nat
  OBVIOUS
<1>2. /\ Append(s, m) \in Seq(Event) /\ Len(Append(s, m)) = Len(s) + 1
      /\ Append(s, m)[Len(s) + 1] = m /\ \A i \in 1..Len(s) : Append(s, m)[i] = s[i]
  OBVIOUS
<1>3. q = [k \in 1..(Len(s) - t) |-> s[t + k]] /\ Len(q) = Len(s) - t /\ q \in Seq(Event)
  BY <1>1
<1>4. r = [k \in 1..(Len(s) - t + 1) |-> Append(s, m)[t + k]]
  BY <1>1, <1>2
<1>5. /\ DOMAIN Append(q, m) = 1..(Len(s) - t + 1) /\ Append(q, m)[Len(s) - t + 1] = m
      /\ \A k \in 1..(Len(s) - t) : Append(q, m)[k] = s[t + k]
      /\ Append(q, m) = [k \in DOMAIN Append(q, m) |-> Append(q, m)[k]]
  <2> HIDE DEF q
  <2>1. /\ Append(q, m) = [k \in DOMAIN Append(q, m) |-> Append(q, m)[k]]
        /\ DOMAIN Append(q, m) = 1..(Len(q) + 1) /\ Append(q, m)[Len(q) + 1] = m
        /\ \A k \in 1..Len(q) : Append(q, m)[k] = q[k]
    BY <1>3
  <2>2. \A k \in 1..(Len(s) - t) : q[k] = s[t + k]
    BY <1>3
  <2> QED BY <1>3, <2>1, <2>2
<1>6. ASSUME NEW k \in 1..(Len(s) - t + 1)
      PROVE  Append(s, m)[t + k] = Append(q, m)[k]
  <2>1. k \in 1..(Len(s) - t) \/ k = Len(s) - t + 1
    BY <1>1
  <2>2. CASE k \in 1..(Len(s) - t)
    <3>1. t + k \in 1..Len(s)
      BY <1>1, <2>2
    <3> QED BY <1>2, <1>5, <2>2, <3>1
  <2>3. CASE k = Len(s) - t + 1
    <3>1. t + k = Len(s) + 1
      BY <1>1, <2>3
    <3> QED BY <1>2, <1>5, <2>3, <3>1
  <2> QED BY <2>1, <2>2, <2>3
<1> HIDE DEF q, r
<1>7. r = Append(q, m)
  BY <1>4, <1>5, <1>6
<1> QED BY <1>7 DEF q, r

\* What is in transit loses its oldest message when one is taken.
LEMMA TransitTake ==
  ASSUME NEW s \in Seq(Event), NEW t \in 0..Len(s), t < Len(s)
  PROVE  LET q == SubSeq(s, t + 1, Len(s))
         IN  q # <<>> /\ Head(q) = s[t + 1] /\ Tail(q) = SubSeq(s, t + 2, Len(s))
<1> DEFINE m == t + 1
<1>1. m \in 1..Len(s) /\ Len(s) \in m..Len(s) /\ m + 1 = t + 2
  OBVIOUS
<1> HIDE DEF m
<1>2. Head(SubSeq(s, m, Len(s))) = s[m] /\ Tail(SubSeq(s, m, Len(s))) = SubSeq(s, m + 1, Len(s))
  BY <1>1, HeadTailOfSubSeq
<1>3. SubSeq(s, m, Len(s)) # <<>>
  <2>1. Len(SubSeq(s, m, Len(s))) # 0
    BY <1>1
  <2>2. Len(<<>>) = 0
    OBVIOUS
  <2> QED BY <2>1, <2>2
<1>4. SubSeq(s, m + 1, Len(s)) = SubSeq(s, t + 2, Len(s))
  BY <1>1
<1> QED BY <1>2, <1>3, <1>4, Zenon DEF m

\* A step of the two threads and the viewer is a step of the queue, or leaves it alone.
LEMMA QueueStep ==
  ASSUME StreamTypes, StreamInv, [Next]_vars
  PROVE  [Queue!Next]_<<InTransit, taken>>
<1>1. sent \in Seq(Event) /\ taken \in Seq(Event) /\ Len(taken) \in 0..Len(sent)
  BY DEF StreamTypes, StreamInv
<1>2. ASSUME NEW n \in DOMAIN wire, Recv(n) PROVE [Queue!Next]_<<InTransit, taken>>
  <2> DEFINE b == recvBuffer \o SubSeq(wire, 1, n)
  <2>1. /\ b \in Seq(Piece) /\ Len(b) = Len(recvBuffer) + n /\ Len(b) > 0
        /\ \A k \in 1..Len(b) : b[k] = Pending(k)
    BY RecvBuffer
  <2>2. (Len(b) = 1 => FirstEnd(b) = 0) /\ (Len(b) > 1 => FirstEnd(b) = 2)
    BY <2>1, FirstEndIsTwo
  <2>3. /\ taken' = IF FirstEnd(b) = 0 THEN taken ELSE Append(taken, b[FirstEnd(b)].msg)
        /\ sent' = sent
    BY <1>2 DEF Recv
  <2> HIDE DEF b
  <2>4. CASE Len(b) = 1
    <3>1. taken' = taken /\ sent' = sent
      BY <2>2, <2>3, <2>4
    <3> QED BY <3>1 DEF InTransit
  <2>5. CASE Len(b) > 1
    <3>1. b[2] = Pending(2)
      BY <2>1, <2>5
    <3>2. Pending(2).msg = sent[Len(taken) + 1]
      <4>1. (2 + 1) \div 2 = 1
        OBVIOUS
      <4> QED BY <4>1 DEF Pending
    <3>3. taken' = Append(taken, sent[Len(taken) + 1])
      BY <2>2, <2>3, <2>5, <3>1, <3>2
    <3>4. Len(taken) < Len(sent)
      <4>1. Len(recvBuffer) + Len(wire) = 2 * (Len(sent) - Len(taken)) /\ n <= Len(wire)
        BY DEF StreamInv, StreamTypes
      <4>2. Len(recvBuffer) \in Nat /\ Len(wire) \in Nat /\ n \in Nat
        BY DEF StreamTypes
      <4> QED BY <1>1, <2>1, <2>5, <4>1, <4>2
    <3>5. /\ InTransit # <<>> /\ Head(InTransit) = sent[Len(taken) + 1]
          /\ Tail(InTransit) = SubSeq(sent, Len(taken) + 2, Len(sent))
      BY <1>1, <3>4, TransitTake DEF InTransit
    <3>6. Len(taken') + 1 = Len(taken) + 2
      <4>1. sent[Len(taken) + 1] \in Event
        BY <1>1, <3>4
      <4> QED BY <1>1, <3>3, <4>1
    <3>7. InTransit' = Tail(InTransit)
      BY <2>3, <3>5, <3>6 DEF InTransit
    <3> QED BY <3>3, <3>5, <3>7 DEF Queue!Next, Queue!Take
  <2> QED BY <2>1, <2>4, <2>5
<1>3. ASSUME NEW m \in Event, ViewerSends(m) PROVE [Queue!Next]_<<InTransit, taken>>
  <2>1. sent' = Append(sent, m) /\ taken' = taken /\ Len(sent') = Len(sent) + 1
    BY <1>1, <1>3 DEF ViewerSends
  <2>2. InTransit' = Append(InTransit, m)
    BY <1>1, <2>1, TransitPut DEF InTransit
  <2> QED BY <2>1, <2>2 DEF Queue!Next, Queue!Put
<1>4. CASE UNCHANGED stream
  BY <1>4, Zenon DEF stream, InTransit
<1> QED BY <1>2, <1>3, <1>4, StreamStep

\* getMessage, called by greet and then by runClient, implements a queue of whole
\* messages: for every number of messages and every way recv cuts the stream.
THEOREM GetMessageIsQueue == Spec => IsQueue
<1>1. Init => Queue!Init
  BY DEF Init, Queue!Init, InTransit
<1>2. StreamTypes /\ StreamInv /\ [Next]_vars => [Queue!Next]_<<InTransit, taken>>
  BY QueueStep
<1> QED BY <1>1, <1>2, StreamInit, StreamKept, PTL DEF Spec, IsQueue, Queue!Spec

-----------------------------------------------------------------------------
(* The frames the two threads write.                                        *)

\* Every step keeps the invariant of Framed: the mutex separates what the threads
\* write, and run() writes without it only before there is a second thread.
LEMMA FrameStep ==
  ASSUME Polite, FrameInv, StreamTypes', [Next]_vars
  PROVE  FrameInv'
<1> USE DEF FrameInv, TypeOK, MutexHeld, HalfWritten, QueueOrder, InitFirst, Returns, Inside,
  InSession, Writing, ServerPc, ViewerPc, Thread, Channel, At, Goto, rpc, link, stream, ShuttingDown
<1>1. ASSUME NEW m \in Known, EditorSend(m) PROVE FrameInv'
  <2>1. TypeOK'
    BY <1>1, ThreadsAssumption DEF EditorSend, Message, Method, Request
  <2>2. MutexHeld'
    BY <1>1, ThreadsAssumption DEF EditorSend, Message, Method, Request
  <2>3. HalfWritten'
    BY <1>1, ThreadsAssumption DEF EditorSend, Message, Method, Request
  <2>4. QueueOrder'
    BY <1>1, ThreadsAssumption DEF EditorSend, Message, Method, Request
  <2>5. InitFirst'
    BY <1>1, ThreadsAssumption DEF EditorSend, Message, Method, Request
  <2>6. Returns'
    BY <1>1, ThreadsAssumption DEF EditorSend, Message, Method, Request
  <2> QED BY <2>1, <2>2, <2>3, <2>4, <2>5, <2>6
<1>2. ASSUME Read PROVE FrameInv'
  <2>1. TypeOK'
    <3>1. Head(toServer) \in Message /\ Tail(toServer) \in Seq(Message)
      BY <1>2 DEF Read
    <3>2. req' \in Message /\ toServer' \in Seq(Message) /\ answered' \subseteq Nat
      <4>1. req' \in Message /\ toServer' \in Seq(Message)
        BY <1>2, <3>1 DEF Read
      <4>2. Head(toServer).id \in Nat
        BY <3>1 DEF Message
      <4>3. answered' = answered \/ answered' = answered \cup ({Head(toServer).id} \ {0})
        BY <1>2 DEF Read
      <4> QED BY <4>1, <4>2, <4>3
    <3>3. /\ pc' \in [Thread -> ServerPc \cup ViewerPc]
          /\ pc'["server"] \in ServerPc /\ pc'["viewer"] \in ViewerPc
          /\ ret' \in [Thread -> ServerPc \cup ViewerPc]
      BY <1>2 DEF Read, Frame
    <3>4. ended' \in {"no", "exit", "relaunch", "teardown", "sigpipe", "deaf"}
      BY <1>2 DEF Read
    <3> QED BY <1>2, <3>2, <3>3, <3>4 DEF Read
  <2>2. MutexHeld'
    BY <1>2, ThreadsAssumption DEF Read, Frame, Rejected, Message
  <2>3. HalfWritten'
    BY <1>2, ThreadsAssumption DEF Read, Frame, Rejected, Message
  <2>4. QueueOrder'
    BY <1>2, ThreadsAssumption DEF Read, Frame, Rejected, Message
  <2>5. InitFirst'
    BY <1>2, ThreadsAssumption DEF Read, Frame, Rejected, Message
  <2>6. Returns'
    BY <1>2, ThreadsAssumption DEF Read, Frame, Rejected, Message
  <2> QED BY <2>1, <2>2, <2>3, <2>4, <2>5, <2>6
<1>3. ASSUME NEW th \in Thread, Lock(th) PROVE FrameInv'
  BY <1>3, ThreadsAssumption DEF Lock
<1>4. ASSUME Process PROVE FrameInv'
  <2>1. TypeOK'
    BY <1>4, ThreadsAssumption DEF Process, Frame, Active, Message
  <2>2. MutexHeld'
    BY <1>4, ThreadsAssumption DEF Process, Frame, Active, Message
  <2>3. HalfWritten'
    BY <1>4, ThreadsAssumption DEF Process, Frame, Active, Message
  <2>4. QueueOrder'
    BY <1>4, ThreadsAssumption DEF Process, Frame, Active, Message
  <2>5. InitFirst'
    BY <1>4, ThreadsAssumption DEF Process, Frame, Active, Message
  <2>6. Returns'
    BY <1>4, ThreadsAssumption DEF Process, Frame, Active, Message
  <2> QED BY <2>1, <2>2, <2>3, <2>4, <2>5, <2>6
<1>5. ASSUME Reply PROVE FrameInv'
  <2>1. TypeOK'
    BY <1>5, ThreadsAssumption DEF Reply, Frame, Message
  <2>2. MutexHeld'
    BY <1>5, ThreadsAssumption DEF Reply, Frame, Message
  <2>3. HalfWritten'
    BY <1>5, ThreadsAssumption DEF Reply, Frame, Message
  <2>4. QueueOrder'
    BY <1>5, ThreadsAssumption DEF Reply, Frame, Message
  <2>5. InitFirst'
    BY <1>5, ThreadsAssumption DEF Reply, Frame, Message
  <2>6. Returns'
    BY <1>5, ThreadsAssumption DEF Reply, Frame, Message
  <2> QED BY <2>1, <2>2, <2>3, <2>4, <2>5, <2>6
<1>6. ASSUME NEW th \in Thread, Unlock(th) PROVE FrameInv'
  <2>1. TypeOK'
    BY <1>6, ThreadsAssumption DEF Unlock, Message
  <2>2. MutexHeld'
    BY <1>6, ThreadsAssumption DEF Unlock, Message
  <2>3. HalfWritten'
    BY <1>6, ThreadsAssumption DEF Unlock, Message
  <2>4. QueueOrder'
    BY <1>6, ThreadsAssumption DEF Unlock, Message
  <2>5. InitFirst'
    BY <1>6, ThreadsAssumption DEF Unlock, Message
  <2>6. Returns'
    BY <1>6, ThreadsAssumption DEF Unlock, Message
  <2> QED BY <2>1, <2>2, <2>3, <2>4, <2>5, <2>6
<1>7. ASSUME NEW th \in Thread, WriteStdout(th) PROVE FrameInv'
  <2>1. TypeOK'
    BY <1>7, ThreadsAssumption DEF WriteStdout
  <2>2. MutexHeld'
    BY <1>7, ThreadsAssumption DEF WriteStdout
  <2>3. HalfWritten'
    BY <1>7, ThreadsAssumption DEF WriteStdout
  <2>4. QueueOrder'
    BY <1>7, ThreadsAssumption DEF WriteStdout
  <2>5. InitFirst'
    BY <1>7, ThreadsAssumption DEF WriteStdout
  <2>6. Returns'
    BY <1>7, ThreadsAssumption DEF WriteStdout
  <2> QED BY <2>1, <2>2, <2>3, <2>4, <2>5, <2>6
<1>8. ASSUME NEW th \in Thread, sendBuffer(th) PROVE FrameInv'
  <2>1. TypeOK'
    BY <1>8, ThreadsAssumption DEF sendBuffer
  <2>2. MutexHeld'
    BY <1>8, ThreadsAssumption DEF sendBuffer
  <2>3. HalfWritten'
    BY <1>8, ThreadsAssumption DEF sendBuffer
  <2>4. QueueOrder'
    BY <1>8, ThreadsAssumption DEF sendBuffer
  <2>5. InitFirst'
    BY <1>8, ThreadsAssumption DEF sendBuffer
  <2>6. Returns'
    BY <1>8, ThreadsAssumption DEF sendBuffer
  <2> QED BY <2>1, <2>2, <2>3, <2>4, <2>5, <2>6
<1>9. ASSUME CreateSession PROVE FrameInv'
  <2>1. TypeOK'
    <3>1. CASE session
      BY <1>9, <3>1, ThreadsAssumption DEF CreateSession
    <3>2. CASE ~ session
      BY <1>9, <3>2, ThreadsAssumption DEF CreateSession
    <3> QED BY <3>1, <3>2
  <2>2. MutexHeld'
    BY <1>9, ThreadsAssumption DEF CreateSession
  <2>3. HalfWritten'
    BY <1>9, ThreadsAssumption DEF CreateSession
  <2>4. QueueOrder'
    BY <1>9, ThreadsAssumption DEF CreateSession
  <2>5. InitFirst'
    BY <1>9, ThreadsAssumption DEF CreateSession
  <2>6. Returns'
    BY <1>9, ThreadsAssumption DEF CreateSession
  <2> QED BY <2>1, <2>2, <2>3, <2>4, <2>5, <2>6
<1>10. ASSUME SetupFails PROVE FrameInv'
  <2>1. CASE ended' = "deaf" /\ UNCHANGED <<pc, ret>>
    <3>1. TypeOK'
      BY <1>10, <2>1, ThreadsAssumption DEF SetupFails, stop
    <3>2. MutexHeld' /\ HalfWritten'
      BY <1>10, <2>1, ThreadsAssumption DEF SetupFails, stop
    <3>3. QueueOrder' /\ InitFirst' /\ Returns'
      BY <1>10, <2>1, ThreadsAssumption DEF SetupFails, stop
    <3> QED BY <3>1, <3>2, <3>3
  <2>2. CASE Goto("server", "start") /\ UNCHANGED ended
    <3>1. TypeOK'
      BY <1>10, <2>2, ThreadsAssumption DEF SetupFails, stop
    <3>2. MutexHeld'
      BY <1>10, <2>2, ThreadsAssumption DEF SetupFails, stop
    <3>3. HalfWritten'
      BY <1>10, <2>2, ThreadsAssumption DEF SetupFails, stop
    <3>4. QueueOrder'
      BY <1>10, <2>2, ThreadsAssumption DEF SetupFails, stop
    <3>5. InitFirst'
      BY <1>10, <2>2, ThreadsAssumption DEF SetupFails, stop
    <3>6. Returns'
      BY <1>10, <2>2, ThreadsAssumption DEF SetupFails, stop
    <3> QED BY <3>1, <3>2, <3>3, <3>4, <3>5, <3>6
  <2> QED BY <1>10, <2>1, <2>2 DEF SetupFails
<1>11. ASSUME Accept PROVE FrameInv'
  BY <1>11, ThreadsAssumption DEF Accept, Frame
<1>12. ASSUME NEW n \in DOMAIN wire, GreetRecv(n) PROVE FrameInv'
  <2>1. TypeOK'
    <3>1. CASE HasMessage(n)
      <4>1. /\ conn' \in {conn, "closed"} /\ running' \in {running, FALSE}
            /\ pc' = [pc EXCEPT !["server"] = "start"] /\ ret' = ret
        BY <1>12, <3>1 DEF GreetRecv, stop
      <4> QED BY <1>12, <4>1, ThreadsAssumption DEF GreetRecv
    <3>2. CASE ~ HasMessage(n)
      BY <1>12, <3>2, ThreadsAssumption DEF GreetRecv
    <3> QED BY <3>1, <3>2
  <2>2. MutexHeld'
    BY <1>12, ThreadsAssumption DEF GreetRecv, stop
  <2>3. HalfWritten'
    BY <1>12, ThreadsAssumption DEF GreetRecv, stop
  <2>4. QueueOrder'
    BY <1>12, ThreadsAssumption DEF GreetRecv, stop
  <2>5. InitFirst'
    BY <1>12, ThreadsAssumption DEF GreetRecv, stop
  <2>6. Returns'
    BY <1>12, ThreadsAssumption DEF GreetRecv, stop
  <2> QED BY <2>1, <2>2, <2>3, <2>4, <2>5, <2>6
<1>13. ASSUME GreetDisconnected PROVE FrameInv'
  <2>1. TypeOK'
    <3>1. /\ conn' = "closed" /\ running' = FALSE /\ pc' = pc /\ ret' = ret
      BY <1>13 DEF GreetDisconnected, stop
    <3>2. UNCHANGED <<mutex, half, ended, session, viewer>> /\ UNCHANGED rpc
      BY <1>13 DEF GreetDisconnected
    <3>3. TypeOK
      OBVIOUS
    <3> HIDE DEF ServerPc, ViewerPc, Thread, Channel, FrameInv, MutexHeld, HalfWritten,
      QueueOrder, InitFirst, Returns
    <3> QED BY <3>1, <3>2, <3>3
  <2>2. MutexHeld'
    BY <1>13, ThreadsAssumption DEF GreetDisconnected, stop
  <2>3. HalfWritten'
    BY <1>13, ThreadsAssumption DEF GreetDisconnected, stop
  <2>4. QueueOrder'
    BY <1>13, ThreadsAssumption DEF GreetDisconnected, stop
  <2>5. InitFirst'
    BY <1>13, ThreadsAssumption DEF GreetDisconnected, stop
  <2>6. Returns'
    BY <1>13, ThreadsAssumption DEF GreetDisconnected, stop
  <2> QED BY <2>1, <2>2, <2>3, <2>4, <2>5, <2>6
<1>14. ASSUME GreetTimeout PROVE FrameInv'
  <2>1. TypeOK'
    BY <1>14, ThreadsAssumption DEF GreetTimeout, stop
  <2>2. MutexHeld'
    BY <1>14, ThreadsAssumption DEF GreetTimeout, stop
  <2>3. HalfWritten'
    BY <1>14, ThreadsAssumption DEF GreetTimeout, stop
  <2>4. QueueOrder'
    BY <1>14, ThreadsAssumption DEF GreetTimeout, stop
  <2>5. InitFirst'
    BY <1>14, ThreadsAssumption DEF GreetTimeout, stop
  <2>6. Returns'
    BY <1>14, ThreadsAssumption DEF GreetTimeout, stop
  <2> QED BY <2>1, <2>2, <2>3, <2>4, <2>5, <2>6
<1>15. ASSUME StartThread PROVE FrameInv'
  BY <1>15, ThreadsAssumption DEF StartThread
<1>16. ASSUME loadWaveform PROVE FrameInv'
  BY <1>16, ThreadsAssumption DEF loadWaveform, Frame
<1>17. ASSUME NEW n \in DOMAIN wire, PollRecv(n) PROVE FrameInv'
  BY <1>17, ThreadsAssumption DEF PollRecv
<1>18. ASSUME PollDisconnected PROVE FrameInv'
  BY <1>18, ThreadsAssumption DEF PollDisconnected
<1>19. ASSUME ResetRunning PROVE FrameInv'
  <2>1. TypeOK'
    BY <1>19, ThreadsAssumption DEF ResetRunning
  <2>2. MutexHeld'
    BY <1>19, ThreadsAssumption DEF ResetRunning
  <2>3. HalfWritten'
    BY <1>19, ThreadsAssumption DEF ResetRunning
  <2>4. QueueOrder'
    BY <1>19, ThreadsAssumption DEF ResetRunning
  <2>5. InitFirst'
    BY <1>19, ThreadsAssumption DEF ResetRunning
  <2>6. Returns'
    BY <1>19, ThreadsAssumption DEF ResetRunning
  <2> QED BY <2>1, <2>2, <2>3, <2>4, <2>5, <2>6
<1>20. ASSUME HandleEvent PROVE FrameInv'
  BY <1>20, ThreadsAssumption DEF HandleEvent, Frame
<1>21. ASSUME ThreadEnds PROVE FrameInv'
  <2>1. TypeOK'
    BY <1>21, ThreadsAssumption DEF ThreadEnds, stop
  <2>2. MutexHeld'
    BY <1>21, ThreadsAssumption DEF ThreadEnds, stop
  <2>3. HalfWritten'
    BY <1>21, ThreadsAssumption DEF ThreadEnds, stop
  <2>4. QueueOrder'
    BY <1>21, ThreadsAssumption DEF ThreadEnds, stop
  <2>5. InitFirst'
    BY <1>21, ThreadsAssumption DEF ThreadEnds, stop
  <2>6. Returns'
    BY <1>21, ThreadsAssumption DEF ThreadEnds, stop
  <2> QED BY <2>1, <2>2, <2>3, <2>4, <2>5, <2>6
<1>22. ASSUME ViewerConnects PROVE FrameInv'
  BY <1>22, ThreadsAssumption DEF ViewerConnects
<1>23. ASSUME NEW m \in Event, ViewerSends(m) PROVE FrameInv'
  BY <1>23, ThreadsAssumption DEF ViewerSends
<1>24. ASSUME ViewerQuits PROVE FrameInv'
  BY <1>24, ThreadsAssumption DEF ViewerQuits
<1>25. ASSUME LaunchFails PROVE FrameInv'
  BY <1>25, ThreadsAssumption DEF LaunchFails
<1>26. ASSUME UNCHANGED vars PROVE FrameInv'
  BY <1>26 DEF vars
<1> QED BY <1>1, <1>2, <1>3, <1>4, <1>5, <1>6, <1>7, <1>8, <1>9, <1>10, <1>11, <1>12, <1>13,
    <1>14, <1>15, <1>16, <1>17, <1>18, <1>19, <1>20, <1>21, <1>22, <1>23, <1>24, <1>25, <1>26
  DEF Next, Environment, Session, ServerThread, ViewerThread

\* The inductive invariant, for every editor that keeps to the protocol, every viewer
\* and every interleaving.
THEOREM FrameInvariant == ASSUME Polite PROVE Spec => []FrameInv
<1>1. Init => FrameInv /\ StreamInv
  <2>1. Init => StreamTypes /\ StreamInv
    BY StreamInit
  <2>2. Init => MutexHeld /\ HalfWritten /\ QueueOrder /\ InitFirst /\ Returns
    BY DEF Init, MutexHeld, HalfWritten, QueueOrder, InitFirst, Returns, Inside, InSession, Writing,
      Thread, Channel, ShuttingDown
  <2>3. Init => TypeOK
    <3>1. [method |-> "didX", id |-> 0] \in Message
      BY DEF Message, Method
    <3>2. Init => pc["server"] = "read" /\ pc["viewer"] = "none"
      BY DEF Init, Thread
    <3>3. Init => /\ pc \in [Thread -> ServerPc \cup ViewerPc]
                  /\ ret \in [Thread -> ServerPc \cup ViewerPc]
      BY DEF Init, Thread, ServerPc, ViewerPc
    <3>4. Init => half \in [Channel -> SUBSET Thread] /\ answered \subseteq Nat /\ toServer \in Seq(Message)
      BY DEF Init
    <3>5. "read" \in ServerPc /\ "none" \in ViewerPc
      BY DEF ServerPc, ViewerPc
    <3>6. Init => session \in BOOLEAN /\ running \in BOOLEAN
      BY Zenon DEF Init
    <3>7. Init => /\ count \in Nat /\ phase \in {"init", "serving", "down"} /\ req \in Message
                  /\ mutex \in Thread \cup {None} /\ conn \in {"none", "open", "closed"}
                  /\ viewer \in {"none", "starting", "connecting", "connected", "gone"}
                  /\ ended \in {"no", "exit", "relaunch", "teardown", "sigpipe", "deaf"}
      BY <3>1 DEF Init
    <3> QED BY <2>1, <3>2, <3>3, <3>4, <3>5, <3>6, <3>7, Zenon DEF TypeOK
  <2> QED BY <2>1, <2>2, <2>3 DEF FrameInv
<1>2. FrameInv /\ StreamInv /\ [Next]_vars => (FrameInv /\ StreamInv)'
  <2>1. FrameInv => StreamTypes
    BY DEF FrameInv, TypeOK
  <2> QED BY <2>1, StreamKept, FrameStep
<1> QED BY <1>1, <1>2, PTL DEF Spec

\* Every variable of the two threads keeps its type.
THEOREM ThreadsTypeCorrect == ASSUME Polite PROVE Spec => []TypeOK
<1>1. FrameInv => TypeOK
  BY DEF FrameInv
<1> QED BY <1>1, FrameInvariant, PTL

\* A frame is never cut in two by the other thread's: what the editor and the
\* viewer read can be parsed, although sendMessage itself takes no lock.
THEOREM FramesAreWhole == ASSUME Polite PROVE Spec => []Framed
<1>1. FrameInv => Framed
  <2> SUFFICES ASSUME FrameInv, NEW c \in Channel, NEW th \in half[c], NEW other \in half[c],
                      th # other
               PROVE  FALSE
    BY DEF Framed
  <2>1. th \in Thread /\ other \in Thread
    BY DEF FrameInv, TypeOK
  <2> QED BY <2>1 DEF FrameInv, TypeOK, MutexHeld, HalfWritten, InitFirst, Returns, Inside, Writing,
        Thread, Channel
<1> QED BY <1>1, FrameInvariant, PTL
=============================================================================
