--------------------------- MODULE HandshakeProofs ---------------------------
(****************************************************************************)
(* Proofs about Handshake for every configuration, greeting, password,       *)
(* request, address and datagram: the byte formats of Wire are what the      *)
(* protocol says, and a handshake lets in whom a configuration admits, acts  *)
(* on what was asked and tells the truth.                                    *)
(****************************************************************************)
EXTENDS Handshake, SequenceTheorems, TLAPS

(****************************************************************************)
(* Bytes                                                                     *)
(****************************************************************************)

(* What is left of a message from an offset on                               *)
LEMMA FromOf ==
  ASSUME NEW s \in Seq(Byte), NEW k \in 0..Len(s)
  PROVE  /\ From(s, k) \in Seq(Byte) /\ Len(From(s, k)) = Len(s) - k
         /\ \A i \in 1..(Len(s) - k) : From(s, k)[i] = s[k + i]
<1>1. PICK n \in Nat : n = Len(s)
  BY LenProperties
<1>2. \A i \in (k + 1)..n : s[i] \in Byte
  BY <1>1, ElementOfSeq
<1>3. /\ SubSeq(s, k + 1, n) \in Seq(Byte)
      /\ Len(SubSeq(s, k + 1, n)) = IF k + 1 <= n THEN n - (k + 1) + 1 ELSE 0
      /\ \A i \in 1..(n - (k + 1) + 1) : SubSeq(s, k + 1, n)[i] = s[(k + 1) + i - 1]
  BY <1>1, <1>2, SubSeqProperties
<1>4. n - (k + 1) + 1 = n - k /\ (IF k + 1 <= n THEN n - (k + 1) + 1 ELSE 0) = n - k
  BY <1>1
<1>5. \A i \in 1..(n - k) : (k + 1) + i - 1 = k + i
  BY <1>1
<1> QED BY <1>1, <1>3, <1>4, <1>5 DEF From

(* A number of bytes from an offset on                                       *)
LEMMA TakeOf ==
  ASSUME NEW s \in Seq(Byte), NEW k \in Nat, NEW n \in Nat, k + n <= Len(s)
  PROVE  /\ Take(s, k, n) \in Seq(Byte) /\ Len(Take(s, k, n)) = n
         /\ \A i \in 1..n : Take(s, k, n)[i] = s[k + i]
<1>1. Len(s) \in Nat
  BY LenProperties
<1>2. \A i \in (k + 1)..(k + n) : s[i] \in Byte
  BY <1>1, ElementOfSeq
<1>3. /\ SubSeq(s, k + 1, k + n) \in Seq(Byte)
      /\ Len(SubSeq(s, k + 1, k + n)) = IF k + 1 <= k + n THEN (k + n) - (k + 1) + 1 ELSE 0
      /\ \A i \in 1..((k + n) - (k + 1) + 1) : SubSeq(s, k + 1, k + n)[i] = s[(k + 1) + i - 1]
  BY <1>2, SubSeqProperties
<1>4. (k + n) - (k + 1) + 1 = n /\ (IF k + 1 <= k + n THEN (k + n) - (k + 1) + 1 ELSE 0) = n
  OBVIOUS
<1>5. \A i \in 1..n : (k + 1) + i - 1 = k + i
  OBVIOUS
<1> QED BY <1>3, <1>4, <1>5 DEF Take

(* Two messages one behind the other                                         *)
LEMMA Joined ==
  ASSUME NEW s \in Seq(Byte), NEW t \in Seq(Byte)
  PROVE  /\ s \o t \in Seq(Byte) /\ Len(s \o t) = Len(s) + Len(t)
         /\ Len(s) \in Nat /\ Len(t) \in Nat
         /\ \A i \in 1..Len(s) : (s \o t)[i] = s[i]
         /\ \A i \in 1..Len(t) : (s \o t)[Len(s) + i] = t[i]
<1>1. PICK m \in Nat, n \in Nat : m = Len(s) /\ n = Len(t)
  BY LenProperties
<1>2. /\ s \o t \in Seq(Byte) /\ Len(s \o t) = m + n
      /\ \A i \in 1..(m + n) : (s \o t)[i] = IF i <= m THEN s[i] ELSE t[i - m]
  BY <1>1, ConcatProperties
<1>3. \A i \in 1..n : m + i \in 1..(m + n) /\ ~(m + i <= m) /\ (m + i) - m = i
  BY <1>1
<1> QED BY <1>1, <1>2, <1>3

(* A part of a message is what it agrees with.                               *)
LEMMA TakeIs ==
  ASSUME NEW s \in Seq(Byte), NEW t \in Seq(Byte), NEW k \in Nat, k + Len(t) <= Len(s),
         \A i \in 1..Len(t) : s[k + i] = t[i]
  PROVE  Take(s, k, Len(t)) = t
<1>1. Len(t) \in Nat
  BY LenProperties
<1>2. /\ Take(s, k, Len(t)) \in Seq(Byte) /\ Len(Take(s, k, Len(t))) = Len(t)
      /\ \A i \in 1..Len(t) : Take(s, k, Len(t))[i] = s[k + i]
  BY <1>1, TakeOf
<1>3. \A i \in 1..Len(t) : Take(s, k, Len(t))[i] = t[i]
  BY <1>2
<1> QED BY <1>2, <1>3, SeqEqual

(* s is the beginning of bytes. *)
Begins(s, bytes) ==
  s \in Seq(Byte) /\ Len(s) <= Len(bytes) /\ \A i \in 1..Len(s) : s[i] = bytes[i]

(* Behind the first of two messages is the beginning of the second.          *)
LEMMA BeginsRest ==
  ASSUME NEW m \in Seq(Byte), NEW rest \in Seq(Byte), NEW s, Begins(s, m \o rest), Len(s) >= Len(m)
  PROVE  /\ \A i \in 1..Len(m) : s[i] = m[i]
         /\ Begins(From(s, Len(m)), rest)
         /\ Len(From(s, Len(m))) = Len(s) - Len(m)
<1>0. /\ Len(m) \in Nat /\ Len(rest) \in Nat /\ Len(m \o rest) = Len(m) + Len(rest)
      /\ \A i \in 1..Len(m) : (m \o rest)[i] = m[i]
      /\ \A i \in 1..Len(rest) : (m \o rest)[Len(m) + i] = rest[i]
  BY Joined
<1>a. /\ s \in Seq(Byte) /\ Len(s) \in Nat /\ Len(s) <= Len(m \o rest)
      /\ \A i \in 1..Len(s) : s[i] = (m \o rest)[i]
  BY LenProperties DEF Begins
<1>1. PICK k \in Nat, l \in Nat, n \in Nat :
        /\ k = Len(m) /\ l = Len(rest) /\ n = Len(s) /\ k <= n /\ n <= k + l
        /\ \A i \in 1..n : s[i] = (m \o rest)[i]
        /\ \A i \in 1..k : (m \o rest)[i] = m[i]
        /\ \A i \in 1..l : (m \o rest)[k + i] = rest[i]
  BY <1>0, <1>a
<1>2. s \in Seq(Byte) /\ k \in 0..Len(s)
  BY <1>1 DEF Begins
<1>3. /\ From(s, k) \in Seq(Byte) /\ Len(From(s, k)) = n - k
      /\ \A i \in 1..(n - k) : From(s, k)[i] = s[k + i]
  BY <1>1, <1>2, FromOf
<1>4. \A i \in 1..(n - k) : k + i \in 1..n /\ i \in 1..l
  BY <1>1
<1>5. n - k <= l /\ \A i \in 1..k : i \in 1..n
  BY <1>1
<1>6. \A i \in 1..k : s[i] = m[i]
  BY ONLY <1>1, <1>5
<1>7. \A i \in 1..(n - k) : From(s, k)[i] = rest[i]
  BY ONLY <1>1, <1>3, <1>4
<1>8. Begins(From(s, k), rest)
  BY ONLY <1>1, <1>3, <1>5, <1>7 DEF Begins
<1> QED BY ONLY <1>1, <1>3, <1>6, <1>8

(* The whole is its own beginning.                                           *)
LEMMA BeginsWhole ==
  ASSUME NEW b \in Seq(Byte), NEW s, Begins(s, b), Len(s) >= Len(b)
  PROVE  s = b
<1>1. s \in Seq(Byte) /\ Len(s) \in Nat /\ Len(b) \in Nat
  BY LenProperties DEF Begins
<1>2. Len(s) = Len(b) /\ \A i \in 1..Len(s) : s[i] = b[i]
  BY <1>1 DEF Begins
<1> QED BY <1>1, <1>2, SeqEqual

(* Tuples are messages.                                                      *)
LEMMA Tuples ==
  ASSUME NEW a \in Byte, NEW b \in Byte, NEW c \in Byte, NEW d \in Byte
  PROVE  /\ <<>> \in Seq(Byte) /\ Len(<<>>) = 0
         /\ <<a>> \in Seq(Byte) /\ Len(<<a>>) = 1 /\ <<a>>[1] = a
         /\ <<a, b>> \in Seq(Byte) /\ Len(<<a, b>>) = 2 /\ <<a, b>>[1] = a /\ <<a, b>>[2] = b
         /\ <<a, b, c>> \in Seq(Byte) /\ Len(<<a, b, c>>) = 3
         /\ <<a, b, c>>[1] = a /\ <<a, b, c>>[2] = b /\ <<a, b, c>>[3] = c
         /\ <<a, b, c, d>> \in Seq(Byte) /\ Len(<<a, b, c, d>>) = 4
         /\ <<a, b, c, d>>[1] = a /\ <<a, b, c, d>>[2] = b
         /\ <<a, b, c, d>>[3] = c /\ <<a, b, c, d>>[4] = d
OBVIOUS

(* Messages can be joined in any order.                                      *)
LEMMA Assoc ==
  \A a, b, c \in Seq(Byte) : (a \o b) \o c = a \o (b \o c)
<1> TAKE a, b, c \in Seq(Byte)
<1> QED BY ConcatAssociative

(****************************************************************************)
(* What the server makes of the messages of a client                         *)
(****************************************************************************)
GreetingBytes(g) == <<5, Len(g)>> \o g
CredBytes(c) == <<1, Len(c[1])>> \o c[1] \o <<Len(c[2])>> \o c[2]

(* The bytes of a greeting                                                   *)
LEMMA GreetingLayout ==
  ASSUME NEW g \in Seq(Byte), Len(g) <= 255
  PROVE  /\ GreetingBytes(g) \in Seq(Byte) /\ Len(g) \in Nat /\ Len(GreetingBytes(g)) = 2 + Len(g)
         /\ GreetingBytes(g)[1] = 5 /\ GreetingBytes(g)[2] = Len(g)
         /\ \A i \in 1..Len(g) : GreetingBytes(g)[2 + i] = g[i]
<1>0. Len(g) \in Nat /\ Len(g) <= 255
  BY LenProperties
<1>a. 5 \in Byte /\ \A n \in Nat : n <= 255 => n \in Byte
  BY DEF Byte
<1>1. Len(g) \in Nat /\ Len(g) \in Byte /\ 5 \in Byte
  BY <1>0, <1>a
<1>2. /\ <<5, Len(g)>> \in Seq(Byte) /\ Len(<<5, Len(g)>>) = 2
      /\ <<5, Len(g)>>[1] = 5 /\ <<5, Len(g)>>[2] = Len(g)
  BY <1>1, Tuples
<1> DEFINE h == <<5, Len(g)>>
<1> HIDE DEF h
<1>3. h \in Seq(Byte) /\ Len(h) = 2 /\ h[1] = 5 /\ h[2] = Len(g)
  BY <1>2 DEF h
<1>4. /\ h \o g \in Seq(Byte) /\ Len(h \o g) = Len(h) + Len(g)
      /\ \A i \in 1..Len(h) : (h \o g)[i] = h[i]
      /\ \A i \in 1..Len(g) : (h \o g)[Len(h) + i] = g[i]
  BY <1>3, Joined
<1>5. 1 \in 1..Len(h) /\ 2 \in 1..Len(h)
  BY <1>3
<1> QED BY <1>1, <1>3, <1>4, <1>5 DEF h, GreetingBytes

(* The beginning of a greeting is read as that greeting, or not yet: it is   *)
(* bad only if it offers nothing, and what follows is left.                  *)
LEMMA GreetingRead ==
  ASSUME NEW g \in Seq(Byte), Len(g) <= 255, NEW rest \in Seq(Byte),
         NEW s, Begins(s, GreetingBytes(g) \o rest)
  PROVE  LET r == GreetingIn(s)
         IN /\ r.is = "bad" => g = <<>>
            /\ r.is = "short" => Len(s) < 2 + Len(g)
            /\ r.is = "whole" => /\ r.value = g
                                 /\ Begins(From(s, r.used), rest)
                                 /\ Len(From(s, r.used)) = Len(s) - (2 + Len(g))
<1> DEFINE m == GreetingBytes(g)
<1>1. /\ m \in Seq(Byte) /\ Len(g) \in Nat /\ Len(m) = 2 + Len(g)
      /\ m[1] = 5 /\ m[2] = Len(g) /\ \A i \in 1..Len(g) : m[2 + i] = g[i]
  BY GreetingLayout
<1> HIDE DEF m
<1>2. Begins(s, m \o rest)
  BY DEF m
<1>3. /\ Len(m \o rest) = Len(m) + Len(rest) /\ Len(rest) \in Nat
      /\ \A i \in 1..Len(m) : (m \o rest)[i] = m[i]
  BY <1>1, Joined
<1>4. s \in Seq(Byte) /\ Len(s) \in Nat /\ \A i \in 1..Len(s) : s[i] = (m \o rest)[i]
  BY <1>2, LenProperties DEF Begins
<1>5. CASE Len(s) < 2
  <2>1. GreetingIn(s) = Short
    BY <1>5 DEF GreetingIn
  <2> QED BY <2>1, <1>1, <1>5 DEF Short
<1>6. CASE Len(s) >= 2
  <2>1. 1 \in 1..Len(s) /\ 2 \in 1..Len(s) /\ 1 \in 1..Len(m) /\ 2 \in 1..Len(m)
    BY <1>1, <1>4, <1>6
  <2>2. s[1] = 5 /\ s[2] = Len(g)
    BY <1>1, <1>3, <1>4, <2>1
  <2>3. CASE Len(g) < 1
    <3>1. g = <<>>
      BY <2>3, <1>1, EmptySeq
    <3>2. GreetingIn(s) = Bad
      BY <1>6, <2>2, <2>3, <1>4 DEF GreetingIn
    <3> QED BY <3>1, <3>2 DEF Bad
  <2>4. CASE Len(g) >= 1 /\ Len(s) < 2 + Len(g)
    <3>1. GreetingIn(s) = Short
      BY <1>1, <1>4, <1>6, <2>2, <2>4 DEF GreetingIn
    <3> QED BY <3>1, <2>4 DEF Short
  <2>5. CASE Len(g) >= 1 /\ Len(s) >= 2 + Len(g)
    <3>1. GreetingIn(s) = Whole(2 + Len(g), Take(s, 2, Len(g)))
      BY <1>1, <1>4, <1>6, <2>2, <2>5 DEF GreetingIn
    <3>2. Len(s) >= Len(m)
      BY <1>1, <2>5
    <3>3. /\ \A i \in 1..Len(m) : s[i] = m[i]
          /\ Begins(From(s, Len(m)), rest) /\ Len(From(s, Len(m))) = Len(s) - Len(m)
      BY <1>1, <1>2, <3>2, BeginsRest
    <3>4. 2 \in Nat /\ s \in Seq(Byte) /\ 2 + Len(g) <= Len(s)
      BY <2>5, <1>1, <1>4
    <3>5. \A i \in 1..Len(g) : 2 + i \in 1..Len(m)
      BY <1>1
    <3>6. \A i \in 1..Len(g) : s[2 + i] = g[i]
      BY <3>3, <3>5, <1>1
    <3>8. Take(s, 2, Len(g)) = g
      BY ONLY g \in Seq(Byte), <3>4, <3>6, TakeIs
    <3> QED BY <3>1, <3>3, <3>8, <1>1 DEF Whole
  <2> QED BY <2>3, <2>4, <2>5, <1>1, <1>4
<1> QED BY <1>4, <1>5, <1>6

(* Small numbers are bytes.                                                  *)
LEMMA SmallBytes ==
  /\ 0 \in Byte /\ 1 \in Byte /\ 2 \in Byte /\ 3 \in Byte /\ 4 \in Byte /\ 5 \in Byte /\ 255 \in Byte
  /\ \A n \in Nat : n <= 255 => n \in Byte
  /\ \A n \in Byte : n \in Nat /\ n <= 255
BY DEF Byte

(* The bytes of the credentials                                              *)
LEMMA CredLayout ==
  ASSUME NEW c \in Seq(Byte) \X Seq(Byte), Len(c[1]) <= 255, Len(c[2]) <= 255
  PROVE  /\ CredBytes(c) \in Seq(Byte)
         /\ Len(CredBytes(c)) = 3 + Len(c[1]) + Len(c[2])
         /\ CredBytes(c)[1] = 1 /\ CredBytes(c)[2] = Len(c[1])
         /\ CredBytes(c)[3 + Len(c[1])] = Len(c[2])
         /\ \A i \in 1..Len(c[1]) : CredBytes(c)[2 + i] = c[1][i]
         /\ \A i \in 1..Len(c[2]) : CredBytes(c)[3 + Len(c[1]) + i] = c[2][i]
<1> DEFINE u == c[1]
           p == c[2]
<1>u. u \in Seq(Byte) /\ p \in Seq(Byte) /\ Len(u) <= 255 /\ Len(p) <= 255
  OBVIOUS
<1>0. CredBytes(c) = ((<<1, Len(u)>> \o u) \o <<Len(p)>>) \o p
  BY DEF CredBytes
<1>c. c[1] = u /\ c[2] = p
  OBVIOUS
<1> HIDE DEF u, p
<1>1. Len(u) \in Nat /\ Len(p) \in Nat
  BY <1>u, LenProperties
<1>2. Len(u) \in Byte /\ Len(p) \in Byte /\ 1 \in Byte
  BY <1>1, <1>u, SmallBytes
<1> DEFINE h == <<1, Len(u)>>
           v == h \o u
           w == v \o <<Len(p)>>
<1>3. h \in Seq(Byte) /\ Len(h) = 2 /\ h[1] = 1 /\ h[2] = Len(u)
  BY <1>2, Tuples
<1>4. <<Len(p)>> \in Seq(Byte) /\ Len(<<Len(p)>>) = 1 /\ <<Len(p)>>[1] = Len(p)
  BY <1>2, Tuples
<1>z. CredBytes(c) = w \o p
  BY <1>0
<1> HIDE DEF h
<1>5. /\ v \in Seq(Byte) /\ Len(v) = 2 + Len(u) /\ \A i \in 1..2 : v[i] = h[i]
      /\ \A i \in 1..Len(u) : v[2 + i] = u[i]
  <2>1. /\ v \in Seq(Byte) /\ Len(v) = Len(h) + Len(u)
        /\ \A i \in 1..Len(h) : v[i] = h[i]
        /\ \A i \in 1..Len(u) : v[Len(h) + i] = u[i]
    BY <1>3, <1>u, Joined
  <2> HIDE DEF v
  <2> QED BY <1>3, <2>1
<1> HIDE DEF v
<1>6. /\ w \in Seq(Byte) /\ Len(w) = 3 + Len(u) /\ \A i \in 1..(2 + Len(u)) : w[i] = v[i]
      /\ w[(2 + Len(u)) + 1] = Len(p)
  <2>1. /\ w \in Seq(Byte) /\ Len(w) = (2 + Len(u)) + 1 /\ \A i \in 1..(2 + Len(u)) : w[i] = v[i]
        /\ \A i \in 1..1 : w[(2 + Len(u)) + i] = <<Len(p)>>[i]
    BY <1>4, <1>5, Joined
  <2>2. 1 \in 1..1 /\ (2 + Len(u)) + 1 = 3 + Len(u)
    BY <1>1
  <2> QED BY <1>4, <2>1, <2>2
<1> HIDE DEF w
<1>7. /\ w \o p \in Seq(Byte) /\ Len(w \o p) = (3 + Len(u)) + Len(p)
      /\ \A i \in 1..(3 + Len(u)) : (w \o p)[i] = w[i]
      /\ \A i \in 1..Len(p) : (w \o p)[(3 + Len(u)) + i] = p[i]
  <2>1. /\ w \o p \in Seq(Byte) /\ Len(w \o p) = Len(w) + Len(p)
        /\ \A i \in 1..Len(w) : (w \o p)[i] = w[i]
        /\ \A i \in 1..Len(p) : (w \o p)[Len(w) + i] = p[i]
    BY <1>6, <1>u, Joined
  <2> QED BY <1>6, <2>1
<1>8. /\ 1 \in 1..(3 + Len(u)) /\ 2 \in 1..(3 + Len(u)) /\ (2 + Len(u)) + 1 = 3 + Len(u)
      /\ 3 + Len(u) \in 1..(3 + Len(u)) /\ 1 \in 1..(2 + Len(u)) /\ 2 \in 1..(2 + Len(u))
      /\ 1 \in 1..2 /\ 2 \in 1..2
      /\ \A i \in 1..Len(u) : 2 + i \in 1..(3 + Len(u)) /\ 2 + i \in 1..(2 + Len(u))
  BY <1>1
<1>9. (w \o p)[1] = 1 /\ (w \o p)[2] = Len(u)
  BY <1>3, <1>5, <1>6, <1>7, <1>8
<1>10. (w \o p)[3 + Len(u)] = Len(p)
  BY <1>6, <1>7, <1>8
<1>11. \A i \in 1..Len(u) : (w \o p)[2 + i] = u[i]
  BY ONLY <1>5, <1>6, <1>7, <1>8
<1>12. /\ CredBytes(c) \in Seq(Byte) /\ Len(CredBytes(c)) = 3 + Len(u) + Len(p)
       /\ CredBytes(c)[1] = 1 /\ CredBytes(c)[2] = Len(u) /\ CredBytes(c)[3 + Len(u)] = Len(p)
       /\ \A i \in 1..Len(u) : CredBytes(c)[2 + i] = u[i]
       /\ \A i \in 1..Len(p) : CredBytes(c)[3 + Len(u) + i] = p[i]
  BY ONLY <1>z, <1>7, <1>9, <1>10, <1>11
<1> QED BY ONLY <1>c, <1>12

(* The beginning s of b, which holds user u and password p, is read as them. *)
ReadAs(s, b, u, p) ==
  LET r == CredentialsIn(s)
  IN /\ r.is # "bad"
     /\ r.is = "short" => Len(s) < Len(b)
     /\ r.is = "whole" => r.value = [user |-> u, pass |-> p] /\ From(s, r.used) = <<>>

(* What has the layout of credentials is read as such.                       *)
LEMMA LayoutRead ==
  ASSUME NEW u \in Seq(Byte), NEW p \in Seq(Byte), Len(u) >= 1,
         NEW b \in Seq(Byte), Len(b) = 3 + Len(u) + Len(p),
         b[1] = 1, b[2] = Len(u), b[3 + Len(u)] = Len(p),
         \A i \in 1..Len(u) : b[2 + i] = u[i],
         \A i \in 1..Len(p) : b[3 + Len(u) + i] = p[i],
         NEW s, Begins(s, b)
  PROVE  ReadAs(s, b, u, p)
<1>0. Len(u) \in Nat /\ Len(p) \in Nat /\ Len(u) >= 1
  BY LenProperties
<1>1. /\ b \in Seq(Byte) /\ Len(b) = 3 + Len(u) + Len(p)
      /\ b[1] = 1 /\ b[2] = Len(u) /\ b[3 + Len(u)] = Len(p)
      /\ \A i \in 1..Len(u) : b[2 + i] = u[i]
      /\ \A i \in 1..Len(p) : b[3 + Len(u) + i] = p[i]
  OBVIOUS
<1>2. Begins(s, b)
  OBVIOUS
<1>3. s \in Seq(Byte) /\ Len(s) \in Nat /\ Len(s) <= Len(b) /\ \A i \in 1..Len(s) : s[i] = b[i]
  BY <1>2, LenProperties DEF Begins
<1> SUFFICES LET r == CredentialsIn(s)
             IN /\ r.is # "bad"
                /\ r.is = "short" => Len(s) < Len(b)
                /\ r.is = "whole" => r.value = [user |-> u, pass |-> p] /\ From(s, r.used) = <<>>
  BY DEF ReadAs
<1>4. CASE Len(s) < 2
  <2>1. CredentialsIn(s) = Short
    BY <1>4 DEF CredentialsIn
  <2> QED BY <1>0, <1>1, <1>2, <1>3, <1>4, <2>1 DEF Short
<1>5. CASE Len(s) >= 2
  <2>1. 1 \in 1..Len(s) /\ 2 \in 1..Len(s)
    BY <1>3, <1>5
  <2>2. s[1] = 1 /\ s[2] = Len(u) /\ ~(Len(s) < 2) /\ Len(u) # 0
    BY <1>0, <1>1, <1>3, <1>5, <2>1
  <2>3. CASE Len(s) < 3 + Len(u)
    <3>1. CredentialsIn(s) = Short
      BY <2>2, <2>3 DEF CredentialsIn
    <3> QED BY <1>0, <1>1, <1>2, <1>3, <2>3, <3>1 DEF Short
  <2>4. CASE Len(s) >= 3 + Len(u)
    <3>1. 3 + Len(u) \in 1..Len(s)
      BY <1>0, <1>1, <1>3, <2>4
    <3>2. s[3 + Len(u)] = Len(p) /\ ~(Len(s) < 3 + Len(u))
      BY <1>0, <1>1, <1>3, <2>4, <3>1
    <3>3. CASE Len(s) < 3 + Len(u) + Len(p)
      <4>1. CredentialsIn(s) = Short
        BY <2>2, <3>2, <3>3 DEF CredentialsIn
      <4> QED BY <1>0, <1>1, <1>2, <1>3, <3>3, <4>1 DEF Short
    <3>4. CASE ~(Len(s) < 3 + Len(u) + Len(p))
      <4>1. CredentialsIn(s) = Whole(3 + Len(u) + Len(p), [user |-> Take(s, 2, Len(u)),
                                                          pass |-> Take(s, 3 + Len(u), Len(p))])
        BY <2>2, <3>2, <3>4 DEF CredentialsIn
      <4>2. Len(s) = Len(b)
        BY <1>0, <1>1, <1>3, <3>4
      <4>3. s = b
        BY <1>0, <1>1, <1>2, <4>2, BeginsWhole, <1>3
      <4>4. 2 \in Nat /\ 3 + Len(u) \in Nat /\ 2 + Len(u) <= Len(s) /\ (3 + Len(u)) + Len(p) <= Len(s)
        BY <1>0, <1>1, <1>3, <4>2
      <4>5. /\ s \in Seq(Byte)
            /\ \A i \in 1..Len(u) : s[2 + i] = u[i]
            /\ \A i \in 1..Len(p) : s[(3 + Len(u)) + i] = p[i]
        BY <1>0, <1>1, <1>3, <4>3
      <4>7. Take(s, 2, Len(u)) = u
        BY ONLY <1>0, <4>4, <4>5, TakeIs
      <4>8. Take(s, 3 + Len(u), Len(p)) = p
        BY ONLY <1>0, <4>4, <4>5, TakeIs
      <4>9. From(s, 3 + Len(u) + Len(p)) = <<>>
        <5>1. Len(s) = 3 + Len(u) + Len(p) /\ Len(s) \in 0..Len(s)
          BY <1>0, <1>1, <1>3, <4>2
        <5>2. From(s, Len(s)) \in Seq(Byte) /\ Len(From(s, Len(s))) = Len(s) - Len(s)
          BY <5>1, <1>3, FromOf
        <5> QED BY <5>1, <5>2, <1>3, EmptySeq
      <4> QED BY <4>1, <4>7, <4>8, <4>9 DEF Whole
    <3> QED BY <3>3, <3>4
  <2> QED BY <1>0, <1>1, <1>3, <2>3, <2>4
<1> QED BY <1>3, <1>4, <1>5

(* The beginning of the credentials is read as those credentials, or not     *)
(* yet, and nothing is left.                                                 *)
LEMMA CredRead ==
  ASSUME NEW c \in Seq(Byte) \X Seq(Byte), Len(c[1]) \in 1..255, Len(c[2]) \in 0..255,
         NEW s, Begins(s, CredBytes(c))
  PROVE  LET r == CredentialsIn(s)
         IN /\ r.is # "bad"
            /\ r.is = "short" => Len(s) < Len(CredBytes(c))
            /\ r.is = "whole" => /\ r.value = [user |-> c[1], pass |-> c[2]]
                                 /\ From(s, r.used) = <<>>
<1> DEFINE b == CredBytes(c)
           u == c[1]
           p == c[2]
<1>0. /\ u \in Seq(Byte) /\ p \in Seq(Byte) /\ Len(u) \in Nat /\ Len(p) \in Nat
      /\ Len(u) >= 1 /\ Len(u) <= 255 /\ Len(p) <= 255
  <2>1. /\ \A n \in 1..255 : n \in Nat /\ n >= 1 /\ n <= 255
        /\ \A n \in 0..255 : n \in Nat /\ n <= 255
    BY ONLY 255 \in Nat
  <2>2. Len(u) \in 1..255 /\ Len(p) \in 0..255
    BY Zenon
  <2>3. u \in Seq(Byte) /\ p \in Seq(Byte)
    BY ONLY c \in Seq(Byte) \X Seq(Byte)
  <2> HIDE DEF u, p
  <2> QED BY <2>1, <2>2, <2>3
<1>1. /\ b \in Seq(Byte) /\ Len(b) = 3 + Len(u) + Len(p)
      /\ b[1] = 1 /\ b[2] = Len(u) /\ b[3 + Len(u)] = Len(p)
      /\ \A i \in 1..Len(u) : b[2 + i] = u[i]
      /\ \A i \in 1..Len(p) : b[3 + Len(u) + i] = p[i]
  BY <1>0, CredLayout
<1> HIDE DEF u, p, b
<1>2. Begins(s, b)
  BY DEF b
<1>3. ReadAs(s, b, u, p)
  BY ONLY <1>0, <1>1, <1>2, LayoutRead
<1> QED BY <1>3 DEF ReadAs, b, u, p

(* A port is a message of two bytes.                                         *)
LEMMA Pairs ==
  ASSUME NEW p \in Byte \X Byte
  PROVE  p \in Seq(Byte) /\ Len(p) = 2 /\ p[1] \in Byte /\ p[2] \in Byte
<1>1. p[1] \in Byte /\ p[2] \in Byte /\ p = <<p[1], p[2]>>
  OBVIOUS
<1> QED BY <1>1, Tuples

(* The offset of an address, behind the length field of a domain             *)
AddrAt(atyp) == IF atyp = SOCKS5_ATYP_DOMAIN THEN 5 ELSE 4

(* A header of four bytes with an address and a port                         *)
Addressed(head, atyp, host, port) ==
  head \o (IF atyp = SOCKS5_ATYP_DOMAIN THEN <<Len(host)>> ELSE <<>>) \o host \o port

(* b is that: where its parts are.                                           *)
Laid(b, head, atyp, host, port) ==
  /\ b \in Seq(Byte) /\ Len(host) \in Nat /\ Len(b) = AddrAt(atyp) + Len(host) + 2
  /\ \A i \in 1..4 : b[i] = head[i]
  /\ atyp = SOCKS5_ATYP_DOMAIN => b[5] = Len(host)
  /\ \A i \in 1..Len(host) : b[AddrAt(atyp) + i] = host[i]
  /\ \A i \in 1..2 : b[AddrAt(atyp) + Len(host) + i] = port[i]

(* Where the parts of an addressed header are                                *)
LEMMA AddressedLayout ==
  ASSUME NEW h \in Seq(Byte), Len(h) = 4, NEW t, NEW host \in Seq(Byte), Len(host) <= 255,
         NEW port \in Seq(Byte), Len(port) = 2
  PROVE  Laid(Addressed(h, t, host, port), h, t, host, port)
<1> DEFINE l == IF t = SOCKS5_ATYP_DOMAIN THEN <<Len(host)>> ELSE <<>>
           v == h \o l
           w == v \o host
<1>0. Addressed(h, t, host, port) = w \o port
  BY DEF Addressed
<1>1. Len(host) \in Nat
  BY LenProperties
<1>2. /\ l \in Seq(Byte) /\ Len(l) = AddrAt(t) - 4 /\ (t = SOCKS5_ATYP_DOMAIN => l[1] = Len(host))
      /\ AddrAt(t) \in {4, 5} /\ (t = SOCKS5_ATYP_DOMAIN => AddrAt(t) = 5)
  <2>1. Len(host) \in Byte /\ 1 \in Byte
    BY <1>1, SmallBytes
  <2>2. CASE t = SOCKS5_ATYP_DOMAIN
    <3>1. l = <<Len(host)>> /\ AddrAt(t) = 5
      BY <2>2 DEF AddrAt
    <3>2. <<Len(host)>> \in Seq(Byte) /\ Len(<<Len(host)>>) = 1 /\ <<Len(host)>>[1] = Len(host)
      BY <2>1, Tuples
    <3> QED BY <3>1, <3>2
  <2>3. CASE t # SOCKS5_ATYP_DOMAIN
    <3>1. l = <<>> /\ AddrAt(t) = 4
      BY <2>3 DEF AddrAt
    <3> QED BY <2>1, <2>3, <3>1, Tuples
  <2> QED BY <2>2, <2>3
<1> HIDE DEF l
<1>3. /\ v \in Seq(Byte) /\ Len(v) = AddrAt(t) /\ \A i \in 1..4 : v[i] = h[i]
      /\ t = SOCKS5_ATYP_DOMAIN => v[5] = Len(host)
  <2>1. /\ v \in Seq(Byte) /\ Len(v) = Len(h) + Len(l)
        /\ \A i \in 1..Len(h) : v[i] = h[i]
        /\ \A i \in 1..Len(l) : v[Len(h) + i] = l[i]
    BY <1>2, Joined
  <2> HIDE DEF v
  <2>2. v \in Seq(Byte) /\ Len(v) = AddrAt(t) /\ \A i \in 1..4 : v[i] = h[i]
    BY <1>2, <2>1
  <2>3. ASSUME t = SOCKS5_ATYP_DOMAIN PROVE v[5] = Len(host)
    <3>1. 1 \in 1..Len(l) /\ Len(h) + 1 = 5
      BY <1>2, <2>3
    <3> QED BY <1>2, <2>1, <2>3, <3>1
  <2> QED BY <2>2, <2>3
<1> HIDE DEF v
<1>4. /\ w \in Seq(Byte) /\ Len(w) = AddrAt(t) + Len(host) /\ \A i \in 1..AddrAt(t) : w[i] = v[i]
      /\ \A i \in 1..Len(host) : w[AddrAt(t) + i] = host[i]
  <2>1. /\ w \in Seq(Byte) /\ Len(w) = Len(v) + Len(host)
        /\ \A i \in 1..Len(v) : w[i] = v[i]
        /\ \A i \in 1..Len(host) : w[Len(v) + i] = host[i]
    BY <1>3, Joined
  <2> HIDE DEF w
  <2> QED BY <1>3, <2>1
<1> HIDE DEF w
<1>5. /\ w \o port \in Seq(Byte) /\ Len(w \o port) = AddrAt(t) + Len(host) + 2
      /\ \A i \in 1..(AddrAt(t) + Len(host)) : (w \o port)[i] = w[i]
      /\ \A i \in 1..2 : (w \o port)[AddrAt(t) + Len(host) + i] = port[i]
  <2>1. /\ w \o port \in Seq(Byte) /\ Len(w \o port) = Len(w) + Len(port)
        /\ \A i \in 1..Len(w) : (w \o port)[i] = w[i]
        /\ \A i \in 1..Len(port) : (w \o port)[Len(w) + i] = port[i]
    BY <1>4, Joined
  <2> QED BY <1>4, <2>1
<1>6. /\ \A i \in 1..4 : i \in 1..AddrAt(t) /\ i \in 1..(AddrAt(t) + Len(host))
      /\ \A i \in 1..Len(host) : AddrAt(t) + i \in 1..(AddrAt(t) + Len(host))
      /\ t = SOCKS5_ATYP_DOMAIN => 5 \in 1..AddrAt(t) /\ 5 \in 1..(AddrAt(t) + Len(host))
  BY <1>1, <1>2
<1>7. \A i \in 1..4 : (w \o port)[i] = h[i]
  BY <1>3, <1>4, <1>5, <1>6
<1>8. t = SOCKS5_ATYP_DOMAIN => (w \o port)[5] = Len(host)
  BY <1>3, <1>4, <1>5, <1>6
<1>9. \A i \in 1..Len(host) : (w \o port)[AddrAt(t) + i] = host[i]
  BY <1>4, <1>5, <1>6
<1> QED BY <1>0, <1>1, <1>5, <1>7, <1>8, <1>9 DEF Laid

Requests == [ver : Byte, cmd : Byte, rsv : Byte, atyp : Byte, host : Seq(Byte), port : Byte \X Byte]

(* A request whose address has the length its type demands, if any           *)
Sized(a) == /\ a.atyp = SOCKS5_ATYP_IPV4 => Len(a.host) = 4
            /\ a.atyp = SOCKS5_ATYP_IPV6 => Len(a.host) = 16
            /\ Len(a.host) <= 255

(* Where the parts of a request are                                          *)
LEMMA AskLayout ==
  ASSUME NEW a \in Requests, Len(a.host) <= 255
  PROVE  LET b == AskBytes(a)
             at == AddrAt(a.atyp)
         IN /\ b \in Seq(Byte) /\ Len(a.host) \in Nat /\ Len(b) = at + Len(a.host) + 2
            /\ b[1] = a.ver /\ b[2] = a.cmd /\ b[3] = a.rsv /\ b[4] = a.atyp
            /\ a.atyp = SOCKS5_ATYP_DOMAIN => b[5] = Len(a.host)
            /\ \A i \in 1..Len(a.host) : b[at + i] = a.host[i]
            /\ b[at + Len(a.host) + 1] = a.port[1] /\ b[at + Len(a.host) + 2] = a.port[2]
<1> DEFINE h == <<a.ver, a.cmd, a.rsv, a.atyp>>
<1>1. /\ a.ver \in Byte /\ a.cmd \in Byte /\ a.rsv \in Byte /\ a.atyp \in Byte
      /\ a.host \in Seq(Byte) /\ a.port \in Byte \X Byte /\ Len(a.host) <= 255
  BY DEF Requests
<1>2. a.port \in Seq(Byte) /\ Len(a.port) = 2
  BY <1>1, Pairs
<1>3. AskBytes(a) = Addressed(h, a.atyp, a.host, a.port)
  BY DEF AskBytes, Addressed
<1>4. h \in Seq(Byte) /\ Len(h) = 4 /\ h[1] = a.ver /\ h[2] = a.cmd /\ h[3] = a.rsv /\ h[4] = a.atyp
  BY <1>1, Tuples
<1> HIDE DEF h
<1> DEFINE b == Addressed(h, a.atyp, a.host, a.port)
           at == AddrAt(a.atyp)
<1>5. Laid(b, h, a.atyp, a.host, a.port)
  BY ONLY <1>1, <1>2, <1>4, AddressedLayout
<1>5a. /\ b \in Seq(Byte) /\ Len(a.host) \in Nat /\ Len(b) = at + Len(a.host) + 2
       /\ \A i \in 1..4 : b[i] = h[i]
       /\ a.atyp = SOCKS5_ATYP_DOMAIN => b[5] = Len(a.host)
       /\ \A i \in 1..Len(a.host) : b[at + i] = a.host[i]
       /\ \A i \in 1..2 : b[at + Len(a.host) + i] = a.port[i]
  BY <1>5 DEF Laid
<1> HIDE DEF b, at
<1>6. 1 \in 1..4 /\ 2 \in 1..4 /\ 3 \in 1..4 /\ 4 \in 1..4 /\ 1 \in 1..2 /\ 2 \in 1..2
  OBVIOUS
<1>7. /\ b[1] = a.ver /\ b[2] = a.cmd /\ b[3] = a.rsv /\ b[4] = a.atyp
      /\ b[at + Len(a.host) + 1] = a.port[1] /\ b[at + Len(a.host) + 2] = a.port[2]
  BY <1>4, <1>5a, <1>6
<1> QED BY <1>3, <1>5a, <1>7 DEF b, at

(* The beginning of a request is read as that request, or not yet: it is bad *)
(* only if the protocol says so, and what follows is left.                   *)
LEMMA RequestRead ==
  ASSUME NEW a \in Requests, Sized(a), NEW rest \in Seq(Byte), NEW s, Begins(s, AskBytes(a) \o rest)
  PROVE  LET r == RequestIn(s)
         IN /\ r.is = "bad" => ~ValidAsk(a)
            /\ r.is = "short" => Len(s) < Len(AskBytes(a))
            /\ r.is = "whole" => /\ ValidAsk(a)
                                 /\ r.value = [cmd |-> a.cmd, atyp |-> a.atyp, host |-> a.host,
                                               port |-> a.port[1] * 256 + a.port[2]]
                                 /\ Begins(From(s, r.used), rest)
<1> DEFINE b == AskBytes(a)
           at == AddrAt(a.atyp)
           k == Len(a.host)
<1>1. /\ b \in Seq(Byte) /\ k \in Nat /\ Len(b) = at + k + 2 /\ k <= 255
      /\ b[1] = a.ver /\ b[2] = a.cmd /\ b[3] = a.rsv /\ b[4] = a.atyp
      /\ a.atyp = SOCKS5_ATYP_DOMAIN => b[5] = k
      /\ \A i \in 1..k : b[at + i] = a.host[i]
      /\ b[at + k + 1] = a.port[1] /\ b[at + k + 2] = a.port[2]
  BY AskLayout DEF Sized
<1>2. /\ at = IF a.atyp = SOCKS5_ATYP_DOMAIN THEN 5 ELSE 4
      /\ a.atyp = SOCKS5_ATYP_IPV4 => k = 4
      /\ a.atyp = SOCKS5_ATYP_IPV6 => k = 16
      /\ a.host \in Seq(Byte)
  BY DEF Sized, AddrAt, Requests
<1>3. /\ Begins(s, b \o rest) /\ b = AskBytes(a) /\ k = Len(a.host)
  OBVIOUS
<1> HIDE DEF b, at, k
<1>b. at \in {4, 5} /\ Len(b) \in Nat /\ Len(b) >= 6
  BY <1>1, <1>2
<1>4. /\ Len(b \o rest) = Len(b) + Len(rest) /\ Len(rest) \in Nat
      /\ \A i \in 1..Len(b) : (b \o rest)[i] = b[i]
  BY <1>1, Joined
<1>5. s \in Seq(Byte) /\ Len(s) \in Nat /\ \A i \in 1..Len(s) : s[i] = (b \o rest)[i]
  BY <1>3, LenProperties DEF Begins
<1>6. \A i \in 1..Len(s) : i <= Len(b) => s[i] = b[i]
  BY <1>1, <1>2, <1>4, <1>5
<1> DEFINE alen == socks5_request_addr_len(a.atyp, IF at = 5 THEN s[5] ELSE 0)
<1>7. CASE Len(s) < 4
  <2>1. RequestIn(s) = Short
    BY <1>7 DEF RequestIn
  <2> QED BY <1>b, <1>3, <1>5, <1>7, <2>1 DEF Short
<1>8. CASE ~(Len(s) < 4)
  <2>1. /\ Len(s) >= 4 /\ 1 \in 1..Len(s) /\ 2 \in 1..Len(s) /\ 3 \in 1..Len(s) /\ 4 \in 1..Len(s)
        /\ 4 <= Len(b)
    BY ONLY <1>b, <1>5, <1>8
  <2>2. s[1] = a.ver /\ s[2] = a.cmd /\ s[3] = a.rsv /\ s[4] = a.atyp
    <3>1. 1 <= Len(b) /\ 2 <= Len(b) /\ 3 <= Len(b) /\ 4 <= Len(b)
      BY ONLY <1>b
    <3>2. s[1] = b[1] /\ s[2] = b[2] /\ s[3] = b[3] /\ s[4] = b[4]
      BY ONLY <1>6, <2>1, <3>1
    <3> QED BY ONLY <1>1, <3>2
  <2>3. CASE ~socks5_validate_request_header(s)
    <3>1. RequestIn(s) = Bad
      BY <1>8, <2>1, <2>3 DEF RequestIn
    <3>2. ~ValidAsk(a)
      BY <2>2, <2>3 DEF socks5_validate_request_header, ValidAsk, WellFormed, Atyps,
           SOCKS5_ATYP_IPV4, SOCKS5_ATYP_IPV6, SOCKS5_ATYP_DOMAIN
    <3> QED BY <3>1, <3>2 DEF Bad
  <2>4. CASE socks5_validate_request_header(s)
    <3>1. a.ver = 5 /\ a.rsv = 0 /\ a.atyp \in Atyps
      BY <2>2, <2>4 DEF socks5_validate_request_header
    <3>2. CASE Len(s) < at
      <4>1. RequestIn(s) = Short
        BY <1>2, <1>8, <2>1, <2>2, <2>4, <3>2 DEF RequestIn
      <4> QED BY <1>b, <1>3, <1>5, <3>2, <4>1 DEF Short
    <3>3. CASE ~(Len(s) < at)
      <4>1. at = 5 => s[5] = k
        <5>1. SUFFICES ASSUME at = 5 PROVE s[5] = k
          OBVIOUS
        <5>2. 5 \in 1..Len(s) /\ 5 <= Len(b)
          BY <5>1, <3>3, <1>1, <1>5
        <5> QED BY <5>1, <5>2, <1>1, <1>2, <1>6
      <4>2. alen = IF k = 0 THEN -1 ELSE k
        <5>1. a.atyp = 1 => at = 4 /\ k = 4 /\ alen = 4
          BY <1>2 DEF socks5_request_addr_len, SOCKS5_ATYP_IPV4, SOCKS5_ATYP_IPV6, SOCKS5_ATYP_DOMAIN
        <5>2. a.atyp = 4 => at = 4 /\ k = 16 /\ alen = 16
          BY <1>2 DEF socks5_request_addr_len, SOCKS5_ATYP_IPV4, SOCKS5_ATYP_IPV6, SOCKS5_ATYP_DOMAIN
        <5>3. a.atyp = 3 => alen = IF k = 0 THEN -1 ELSE k
          <6>1. SUFFICES ASSUME a.atyp = 3 PROVE alen = IF k = 0 THEN -1 ELSE k
            OBVIOUS
          <6>2. at = 5 /\ s[5] = k
            BY ONLY <1>2, <4>1, <6>1 DEF SOCKS5_ATYP_DOMAIN
          <6>3. alen = socks5_request_addr_len(3, k)
            BY ONLY <6>1, <6>2 DEF alen
          <6> HIDE DEF alen
          <6>4. k >= 1 <=> k # 0
            BY ONLY <1>1
          <6> QED BY ONLY <6>3, <6>4 DEF socks5_request_addr_len, SOCKS5_ATYP_IPV4,
                    SOCKS5_ATYP_IPV6, SOCKS5_ATYP_DOMAIN
        <5>4. a.atyp \in {1, 3, 4} /\ 4 # 0 /\ 16 # 0
          BY <3>1 DEF Atyps, SOCKS5_ATYP_IPV4, SOCKS5_ATYP_IPV6, SOCKS5_ATYP_DOMAIN
        <5> HIDE DEF alen
        <5> QED BY ONLY <5>1, <5>2, <5>3, <5>4
      <4>3. k # 0 <=> ValidAsk(a)
        <5>1. \A n \in Nat : n <= 255 => (n # 0 <=> n \in 1..255)
          OBVIOUS
        <5>2. k # 0 <=> k \in 1..255
          BY <5>1, <1>1
        <5>3. WellFormed(a.atyp, a.host) <=>
                \/ a.atyp = 1 /\ k = 4
                \/ a.atyp = 4 /\ k = 16
                \/ a.atyp = 3 /\ k \in 1..255
          BY DEF WellFormed, k
        <5>4. /\ a.atyp = 1 => k = 4
              /\ a.atyp = 4 => k = 16
              /\ a.atyp \in {1, 3, 4}
          BY <1>2, <3>1 DEF Atyps, SOCKS5_ATYP_IPV4, SOCKS5_ATYP_IPV6, SOCKS5_ATYP_DOMAIN
        <5>5. \/ a.atyp = 1 /\ k = 4 /\ k # 0
              \/ a.atyp = 4 /\ k = 16 /\ k # 0
              \/ a.atyp = 3
          BY <5>4
        <5>6. k # 0 <=> WellFormed(a.atyp, a.host)
          BY ONLY <5>2, <5>3, <5>5
        <5> QED BY <3>1, <5>6 DEF ValidAsk
      <4>4. RequestIn(s) =
              IF alen <= 0 THEN Bad
              ELSE IF Len(s) < at + alen + 2 THEN Short
              ELSE Whole(at + alen + 2,
                         [cmd |-> s[2], atyp |-> s[4], host |-> Take(s, at, alen),
                          port |-> s[at + alen + 1] * 256 + s[at + alen + 2]])
        BY <1>2, <1>8, <2>1, <2>2, <2>4, <3>3 DEF RequestIn
      <4> HIDE DEF alen
      <4>5. CASE k = 0
        <5>1. RequestIn(s) = Bad
          BY <4>2, <4>4, <4>5
        <5> QED BY <4>3, <4>5, <5>1 DEF Bad
      <4>6. CASE k # 0 /\ Len(s) < at + k + 2
        <5>1. RequestIn(s) = Short
          BY <1>1, <4>2, <4>4, <4>6
        <5> QED BY <1>1, <1>3, <4>6, <5>1 DEF Short
      <4>7. CASE k # 0 /\ ~(Len(s) < at + k + 2)
        <5>1. RequestIn(s) = Whole(at + k + 2,
                         [cmd |-> s[2], atyp |-> s[4], host |-> Take(s, at, k),
                          port |-> s[at + k + 1] * 256 + s[at + k + 2]])
          BY <1>1, <4>2, <4>4, <4>7
        <5>2. /\ at \in Nat /\ at + k <= Len(s) /\ Len(s) >= Len(b)
              /\ at + k + 1 \in 1..Len(s) /\ at + k + 1 <= Len(b)
              /\ at + k + 2 \in 1..Len(s) /\ at + k + 2 <= Len(b)
              /\ \A i \in 1..k : at + i \in 1..Len(s) /\ at + i <= Len(b)
          <6>1. at \in Nat /\ k \in Nat /\ Len(s) \in Nat /\ at + k + 2 <= Len(s) /\ Len(b) = at + k + 2
            BY <1>1, <1>b, <1>5, <4>7
          <6> QED BY ONLY <6>1
        <5>3. s[at + k + 1] = a.port[1] /\ s[at + k + 2] = a.port[2]
          BY <1>1, <1>6, <5>2
        <5>4. \A i \in 1..k : s[at + i] = a.host[i]
          BY <1>1, <1>6, <5>2
        <5>5. Take(s, at, k) = a.host
          BY ONLY <1>2, <1>3, <1>5, <5>2, <5>4, TakeIs
        <5>6. Begins(From(s, Len(b)), rest)
          BY <1>1, <1>3, <5>2, BeginsRest
        <5>7. /\ RequestIn(s).is = "whole" /\ RequestIn(s).used = Len(b)
              /\ RequestIn(s).value = [cmd |-> a.cmd, atyp |-> a.atyp, host |-> a.host,
                                       port |-> a.port[1] * 256 + a.port[2]]
          BY <1>1, <2>2, <5>1, <5>3, <5>5 DEF Whole
        <5> QED BY <4>3, <4>7, <5>6, <5>7
      <4> QED BY <4>5, <4>6, <4>7
    <3> QED BY <3>2, <3>3
  <2> QED BY <2>3, <2>4
<1> QED BY <1>7, <1>8

(****************************************************************************)
(* Socket addresses and what is written of them                              *)
(****************************************************************************)
SockAddrs == {sa \in [v6 : BOOLEAN, addr : Seq(Byte)] : Len(sa.addr) = IF sa.v6 THEN 16 ELSE 4}

AtypOf(sa) == IF sa.v6 THEN SOCKS5_ATYP_IPV6 ELSE SOCKS5_ATYP_IPV4

(* A socket address has the bytes of its family.                             *)
LEMMA SockAddrParts ==
  ASSUME NEW sa \in SockAddrs
  PROVE  /\ sa.v6 \in BOOLEAN /\ sa.addr \in Seq(Byte)
         /\ sa.v6 => Len(sa.addr) = 16
         /\ ~sa.v6 => Len(sa.addr) = 4
         /\ Len(sa.addr) \in Nat /\ Len(sa.addr) <= 255
         /\ AtypOf(sa) \in Byte /\ AtypOf(sa) # SOCKS5_ATYP_DOMAIN
<1>1. sa.v6 \in BOOLEAN /\ sa.addr \in Seq(Byte) /\ Len(sa.addr) = IF sa.v6 THEN 16 ELSE 4
  BY DEF SockAddrs
<1>2. AtypOf(sa) \in Byte /\ AtypOf(sa) # SOCKS5_ATYP_DOMAIN
  BY <1>1, SmallBytes DEF AtypOf, SOCKS5_ATYP_IPV4, SOCKS5_ATYP_IPV6, SOCKS5_ATYP_DOMAIN
<1> QED BY <1>1, <1>2

(* The address and the port are written as they are, after their type.       *)
LEMMA Encoded ==
  ASSUME NEW x \in Byte, NEW y \in Byte, NEW z \in Byte, NEW sa \in SockAddrs,
         NEW port \in Seq(Byte), Len(port) = 2
  PROVE  <<x, y, z>> \o encode_addr_port(sa.v6, sa.addr, port)
           = Addressed(<<x, y, z, AtypOf(sa)>>, AtypOf(sa), sa.addr, port)
<1> DEFINE t == AtypOf(sa)
           addr == sa.addr
           h == <<x, y, z>>
           k == <<x, y, z, t>>
           e == <<t>>
<1>1. /\ addr \in Seq(Byte) /\ t \in Byte /\ t # SOCKS5_ATYP_DOMAIN /\ Len(addr) \in Nat
      /\ Len(addr) = IF sa.v6 THEN 16 ELSE 4
  BY SockAddrParts DEF SockAddrs
<1>2. Take(addr, 0, IF sa.v6 THEN 16 ELSE 4) = addr
  <2>1. \A i \in 1..Len(addr) : 0 + i = i
    BY <1>1
  <2>2. 0 \in Nat /\ 0 + Len(addr) <= Len(addr) /\ \A i \in 1..Len(addr) : addr[0 + i] = addr[i]
    BY <1>1, <2>1
  <2>3. Take(addr, 0, Len(addr)) = addr
    BY <1>1, <2>2, TakeIs
  <2> QED BY <1>1, <2>3
<1>3. encode_addr_port(sa.v6, sa.addr, port) = (e \o addr) \o port
  BY <1>2 DEF encode_addr_port, AtypOf
<1>4. Addressed(k, t, addr, port) = ((k \o <<>>) \o addr) \o port
  BY <1>1 DEF Addressed
<1>5. /\ h \in Seq(Byte) /\ Len(h) = 3 /\ h[1] = x /\ h[2] = y /\ h[3] = z
      /\ e \in Seq(Byte) /\ Len(e) = 1 /\ e[1] = t
      /\ k \in Seq(Byte) /\ Len(k) = 4 /\ k[1] = x /\ k[2] = y /\ k[3] = z /\ k[4] = t
  BY <1>1, Tuples
<1> HIDE DEF h, k, e, addr, t
<1>6. h \o e = k
  <2>1. /\ h \o e \in Seq(Byte) /\ Len(h \o e) = Len(h) + Len(e)
        /\ \A i \in 1..Len(h) : (h \o e)[i] = h[i]
        /\ \A i \in 1..Len(e) : (h \o e)[Len(h) + i] = e[i]
    BY <1>5, Joined
  <2>2. Len(h \o e) = 4 /\ \A i \in 1..3 : (h \o e)[i] = h[i]
    BY <1>5, <2>1
  <2>3. (h \o e)[4] = e[1]
    <3>1. 1 \in 1..Len(e) /\ Len(h) + 1 = 4
      BY <1>5
    <3> QED BY <2>1, <3>1
  <2>4. (h \o e)[1] = k[1] /\ (h \o e)[2] = k[2] /\ (h \o e)[3] = k[3] /\ (h \o e)[4] = k[4]
    BY <1>5, <2>2, <2>3
  <2>5. \A i \in 1..4 : i \in {1, 2, 3, 4}
    OBVIOUS
  <2>6. \A i \in 1..4 : (h \o e)[i] = k[i]
    BY <2>4, <2>5
  <2> QED BY <1>5, <2>1, <2>2, <2>6, SeqEqual
<1>7. e \o addr \in Seq(Byte)
  BY <1>1, <1>5, Joined
<1>7a. h \in Seq(Byte) /\ e \in Seq(Byte) /\ addr \in Seq(Byte) /\ port \in Seq(Byte)
  BY <1>1, <1>5
<1>8. (h \o (e \o addr)) \o port = h \o ((e \o addr) \o port)
  BY ONLY <1>7, <1>7a, Assoc, ZenonT(60)
<1>9. (h \o e) \o addr = h \o (e \o addr)
  BY ONLY <1>7a, Assoc, Zenon
<1>10. k \o <<>> = k
  BY <1>5, ConcatEmptySeq
<1>11. h \o ((e \o addr) \o port) = Addressed(k, t, addr, port)
  BY <1>4, <1>6, <1>8, <1>9, <1>10
<1> QED BY <1>3, <1>11 DEF h, k, e, addr, t

(* The prefix of a mapped address                                            *)
LEMMA Prefix ==
  /\ MappedPrefix \in Seq(Byte) /\ Len(MappedPrefix) = 12
  /\ \A i \in 1..12 : MappedPrefix[i] = IF i > 10 THEN 255 ELSE 0
<1>1. \A i \in 1..12 : i \in {1, 2, 3, 4, 5, 6, 7, 8, 9, 10, 11, 12}
  OBVIOUS
<1>2. \A i \in 1..12 : MappedPrefix[i] = IF i > 10 THEN 255 ELSE 0
  BY <1>1 DEF MappedPrefix
<1>3. MappedPrefix \in Seq(Byte) /\ Len(MappedPrefix) = 12
  BY SmallBytes DEF MappedPrefix
<1> QED BY <1>2, <1>3

Mapped(sa) == sa.v6 /\ \A i \in 1..12 : sa.addr[i] = MappedPrefix[i]

(* The bytes behind the prefix of an address of 16                           *)
LEMMA Behind ==
  ASSUME NEW sa \in SockAddrs, sa.v6
  PROVE  /\ From(sa.addr, 12) \in Seq(Byte) /\ Len(From(sa.addr, 12)) = 4
         /\ From(sa.addr, 12) = SubSeq(sa.addr, 13, 16)
         /\ \A i \in 1..4 : From(sa.addr, 12)[i] = sa.addr[12 + i]
<1>1. sa.addr \in Seq(Byte) /\ Len(sa.addr) = 16
  BY SockAddrParts
<1>2. 12 \in 0..Len(sa.addr)
  BY <1>1
<1>3. /\ From(sa.addr, 12) \in Seq(Byte) /\ Len(From(sa.addr, 12)) = Len(sa.addr) - 12
      /\ \A i \in 1..(Len(sa.addr) - 12) : From(sa.addr, 12)[i] = sa.addr[12 + i]
  BY <1>1, <1>2, FromOf
<1>4. From(sa.addr, 12) = SubSeq(sa.addr, 13, 16)
  BY <1>1 DEF From
<1> QED BY <1>1, <1>3, <1>4

(* The C library's test for a mapped address is the comparison of the prefix *)
LEMMA IsMappedMeans ==
  ASSUME NEW sa \in SockAddrs
  PROVE  IsMapped(sa) <=> Mapped(sa)
<1>1. CASE ~sa.v6
  BY <1>1 DEF IsMapped, Mapped
<1>2. CASE sa.v6
  <2>1. sa.addr \in Seq(Byte) /\ Len(sa.addr) = 16
    BY <1>2, SockAddrParts
  <2>2. 0 \in Nat /\ 12 \in Nat /\ 0 + 12 <= Len(sa.addr)
    BY <2>1
  <2>3. /\ Take(sa.addr, 0, 12) \in Seq(Byte) /\ Len(Take(sa.addr, 0, 12)) = 12
        /\ \A i \in 1..12 : Take(sa.addr, 0, 12)[i] = sa.addr[0 + i]
    BY <2>1, <2>2, TakeOf
  <2>a. \A i \in 1..12 : 0 + i = i
    OBVIOUS
  <2>4. \A i \in 1..12 : Take(sa.addr, 0, 12)[i] = sa.addr[i]
    BY ONLY <2>3, <2>a
  <2>5. ASSUME Take(sa.addr, 0, 12) = MappedPrefix PROVE Mapped(sa)
    BY <1>2, <2>4, <2>5 DEF Mapped
  <2>6. ASSUME Mapped(sa) PROVE Take(sa.addr, 0, 12) = MappedPrefix
    <3>1. \A i \in 1..12 : Take(sa.addr, 0, 12)[i] = MappedPrefix[i]
      BY <2>4, <2>6 DEF Mapped
    <3> QED BY <2>3, <3>1, Prefix, SeqEqual
  <2> QED BY <1>2, <2>5, <2>6 DEF IsMapped, Mapped
<1> QED BY <1>1, <1>2

(* The host an address stands for                                            *)
LEMMA HostOfMeans ==
  ASSUME NEW sa \in SockAddrs
  PROVE  /\ ~sa.v6 => HostOf(sa) = [atyp |-> 1, addr |-> sa.addr]
         /\ Mapped(sa) => HostOf(sa) = [atyp |-> 1, addr |-> From(sa.addr, 12)]
         /\ sa.v6 /\ ~Mapped(sa) => HostOf(sa) = [atyp |-> 4, addr |-> sa.addr]
<1>1. sa.v6 => From(sa.addr, 12) = SubSeq(sa.addr, 13, 16)
  BY Behind
<1>2. ~sa.v6 => HostOf(sa) = [atyp |-> 1, addr |-> sa.addr]
  BY DEF HostOf
<1>3. ASSUME sa.v6, \A i \in 1..12 : sa.addr[i] = MappedPrefix[i]
      PROVE  HostOf(sa) = [atyp |-> 1, addr |-> From(sa.addr, 12)]
  <2>1. \A i \in 1..12 : sa.addr[i] = (IF i > 10 THEN 255 ELSE 0)
    BY <1>3, Prefix
  <2> QED BY <1>1, <1>3, <2>1 DEF HostOf
<1>4. ASSUME sa.v6, ~\A i \in 1..12 : sa.addr[i] = MappedPrefix[i]
      PROVE  HostOf(sa) = [atyp |-> 4, addr |-> sa.addr]
  <2>1. ~\A i \in 1..12 : sa.addr[i] = (IF i > 10 THEN 255 ELSE 0)
    BY <1>4, Prefix
  <2> QED BY <1>4, <2>1 DEF HostOf
<1> QED BY <1>2, <1>3, <1>4 DEF Mapped

(* The plain form of an address has the type and the bytes of its host.      *)
LEMMA PlainMeans ==
  ASSUME NEW sa \in SockAddrs
  PROVE  /\ Plain(sa) \in SockAddrs
         /\ HostOf(sa) = [atyp |-> AtypOf(Plain(sa)), addr |-> Plain(sa).addr]
<1>1. sa.v6 \in BOOLEAN /\ (IsMapped(sa) <=> Mapped(sa)) /\ sa.addr \in Seq(Byte)
  BY SockAddrParts, IsMappedMeans
<1>2. CASE Mapped(sa)
  <2>1. Plain(sa) = [v6 |-> FALSE, addr |-> From(sa.addr, 12)]
    BY <1>1, <1>2 DEF Plain
  <2>2. From(sa.addr, 12) \in Seq(Byte) /\ Len(From(sa.addr, 12)) = 4
    BY <1>2, Behind DEF Mapped
  <2>3. Plain(sa) \in SockAddrs
    BY <2>1, <2>2 DEF SockAddrs
  <2>4. AtypOf(Plain(sa)) = 1 /\ Plain(sa).addr = From(sa.addr, 12)
    BY <2>1 DEF AtypOf, SOCKS5_ATYP_IPV4
  <2> QED BY <1>2, <2>3, <2>4, HostOfMeans
<1>3. CASE ~Mapped(sa)
  <2>1. Plain(sa) = sa
    BY <1>1, <1>3 DEF Plain
  <2>2. CASE sa.v6
    BY <1>3, <2>1, <2>2, HostOfMeans DEF AtypOf, SOCKS5_ATYP_IPV6
  <2>3. CASE ~sa.v6
    BY <1>3, <2>1, <2>3, HostOfMeans DEF AtypOf, SOCKS5_ATYP_IPV4
  <2> QED BY <1>1, <2>2, <2>3
<1> QED BY <1>2, <1>3

(* The prefix and four bytes                                                 *)
LEMMA PrefixJoined ==
  ASSUME NEW r \in Seq(Byte)
  PROVE  /\ MappedPrefix \o r \in Seq(Byte) /\ Len(MappedPrefix \o r) = 12 + Len(r)
         /\ \A i \in 1..12 : (MappedPrefix \o r)[i] = MappedPrefix[i]
         /\ \A i \in 1..Len(r) : (MappedPrefix \o r)[12 + i] = r[i]
<1>1. MappedPrefix \in Seq(Byte) /\ Len(MappedPrefix) = 12
  BY Prefix
<1>2. /\ MappedPrefix \o r \in Seq(Byte) /\ Len(MappedPrefix \o r) = Len(MappedPrefix) + Len(r)
      /\ \A i \in 1..Len(MappedPrefix) : (MappedPrefix \o r)[i] = MappedPrefix[i]
      /\ \A i \in 1..Len(r) : (MappedPrefix \o r)[Len(MappedPrefix) + i] = r[i]
  BY <1>1, Joined
<1> QED BY <1>1, <1>2

(* The host of IPv4 r, and the host of IPv6 r, in normal form n              *)
Four(h, n, r) == h = [atyp |-> 1, addr |-> r] /\ n = MappedPrefix \o r
Six(h, n, r) == h = [atyp |-> 4, addr |-> r] /\ n = r /\ ~\A i \in 1..12 : n[i] = MappedPrefix[i]

(* The normal form of an address is its host's, 16 bytes; the prefix is there *)
(* exactly if the host is of IPv4.                                           *)
LEMMA NormalForm ==
  ASSUME NEW sa \in SockAddrs
  PROVE  \E r \in Seq(Byte) : \/ Four(HostOf(sa), socks5_addr_normalize(sa), r)
                             \/ Six(HostOf(sa), socks5_addr_normalize(sa), r)
<1>1. sa.v6 \in BOOLEAN /\ sa.addr \in Seq(Byte)
  BY SockAddrParts
<1>2. CASE ~sa.v6
  <2>1. HostOf(sa) = [atyp |-> 1, addr |-> sa.addr] /\ socks5_addr_normalize(sa) = MappedPrefix \o sa.addr
    BY <1>2, HostOfMeans DEF socks5_addr_normalize
  <2> QED BY <1>1, <2>1 DEF Four
<1>3. CASE sa.v6 /\ ~Mapped(sa)
  <2>1. HostOf(sa) = [atyp |-> 4, addr |-> sa.addr] /\ socks5_addr_normalize(sa) = sa.addr
    BY <1>3, HostOfMeans DEF socks5_addr_normalize
  <2>2. ~\A i \in 1..12 : sa.addr[i] = MappedPrefix[i]
    BY <1>3 DEF Mapped
  <2> QED BY <1>1, <2>1, <2>2 DEF Six
<1>4. CASE Mapped(sa)
  <2> DEFINE r == From(sa.addr, 12)
             w == MappedPrefix \o r
  <2>1. sa.v6 /\ \A i \in 1..12 : sa.addr[i] = MappedPrefix[i]
    BY <1>4 DEF Mapped
  <2>2. r \in Seq(Byte) /\ Len(r) = 4 /\ \A i \in 1..4 : r[i] = sa.addr[12 + i]
    BY <2>1, Behind
  <2>3. HostOf(sa) = [atyp |-> 1, addr |-> r] /\ socks5_addr_normalize(sa) = sa.addr
    BY <1>4, <2>1, HostOfMeans DEF socks5_addr_normalize
  <2>4. Len(sa.addr) = 16
    BY <2>1, SockAddrParts
  <2> HIDE DEF r
  <2>5. /\ w \in Seq(Byte) /\ Len(w) = 12 + Len(r)
        /\ \A i \in 1..12 : w[i] = MappedPrefix[i]
        /\ \A i \in 1..Len(r) : w[12 + i] = r[i]
    BY <2>2, PrefixJoined
  <2> HIDE DEF w
  <2>6. /\ Len(w) = 16 /\ \A i \in 1..12 : w[i] = sa.addr[i]
        /\ \A i \in 1..4 : w[12 + i] = sa.addr[12 + i]
    BY <2>1, <2>2, <2>5
  <2>7. \A i \in 1..16 : w[i] = sa.addr[i]
    <3>1. \A i \in 1..16 : i \in 1..12 \/ (i - 12 \in 1..4 /\ 12 + (i - 12) = i)
      OBVIOUS
    <3> QED BY ONLY <3>1, <2>6
  <2>a. Len(w) = Len(sa.addr) /\ \A i \in 1..Len(w) : w[i] = sa.addr[i]
    BY <2>4, <2>6, <2>7
  <2>8. w = sa.addr
    BY ONLY <1>1, <2>5, <2>a, SeqEqual
  <2> QED BY <2>2, <2>3, <2>8 DEF Four, w
<1> QED BY <1>1, <1>2, <1>3, <1>4

(* Two addresses are the same IP for the server exactly if they stand for    *)
(* the same host.                                                            *)
LEMMA SameIp ==
  ASSUME NEW a \in SockAddrs, NEW b \in SockAddrs
  PROVE  same_ip(a, b) <=> HostOf(a) = HostOf(b)
<1> DEFINE h == HostOf(a)
           g == HostOf(b)
           m == socks5_addr_normalize(a)
           n == socks5_addr_normalize(b)
<1>1. PICK r \in Seq(Byte) : Four(h, m, r) \/ Six(h, m, r)
  BY NormalForm
<1>2. PICK q \in Seq(Byte) : Four(g, n, q) \/ Six(g, n, q)
  BY NormalForm
<1>0. same_ip(a, b) <=> m = n
  BY DEF same_ip
<1> HIDE DEF h, g, m, n
<1>3. CASE Four(h, m, r) /\ Four(g, n, q)
  <2>1. ASSUME MappedPrefix \o r = MappedPrefix \o q PROVE r = q
    BY <2>1, Prefix, ConcatSimplifications, Zenon
  <2>2. /\ h = [atyp |-> 1, addr |-> r] /\ m = MappedPrefix \o r
        /\ g = [atyp |-> 1, addr |-> q] /\ n = MappedPrefix \o q
    BY <1>3 DEF Four
  <2>3. h.addr = r /\ g.addr = q
    BY <2>2
  <2>4. m = n <=> h = g
    BY <2>1, <2>2, <2>3
  <2> QED BY <1>0, <2>4 DEF h, g
<1>4. CASE Six(h, m, r) /\ Six(g, n, q)
  <2>1. /\ h = [atyp |-> 4, addr |-> r] /\ m = r
        /\ g = [atyp |-> 4, addr |-> q] /\ n = q
    BY <1>4 DEF Six
  <2>2. h.addr = r /\ g.addr = q
    BY <2>1
  <2>3. m = n <=> h = g
    BY <2>1, <2>2
  <2> QED BY <1>0, <2>3 DEF h, g
<1>5. CASE Four(h, m, r) /\ Six(g, n, q)
  <2>1. h.atyp = 1 /\ g.atyp = 4
    BY <1>5 DEF Four, Six
  <2>2. \A i \in 1..12 : m[i] = MappedPrefix[i]
    BY <1>5, PrefixJoined DEF Four
  <2>3. m # n
    BY <1>5, <2>2 DEF Six
  <2>4. h # g
    BY <2>1
  <2> QED BY <1>0, <2>3, <2>4 DEF h, g
<1>6. CASE Six(h, m, r) /\ Four(g, n, q)
  <2>1. h.atyp = 4 /\ g.atyp = 1
    BY <1>6 DEF Four, Six
  <2>2. \A i \in 1..12 : n[i] = MappedPrefix[i]
    BY <1>6, PrefixJoined DEF Four
  <2>3. m # n
    BY <1>6, <2>2 DEF Six
  <2>4. h # g
    BY <2>1
  <2> QED BY <1>0, <2>3, <2>4 DEF h, g
<1> QED BY <1>1, <1>2, <1>3, <1>4, <1>5, <1>6

(* A datagram is an addressed header and its data.                           *)
LEMMA DatagramIs ==
  ASSUME NEW host, NEW port, NEW data
  PROVE  DatagramFor(host, port, data)
           = Addressed(<<0, 0, 0, host.atyp>>, host.atyp, host.addr, port) \o data
BY DEF DatagramFor, LengthField, Addressed, SOCKS5_ATYP_DOMAIN

(* An answer names the host and the port it comes from.                      *)
LEMMA AnswerMeans ==
  ASSUME NEW sa \in SockAddrs, NEW port \in Byte \X Byte, NEW data
  PROVE  socks5_udp_encode(Plain(sa).v6, Plain(sa).addr, port) \o data
           = DatagramFor(HostOf(sa), port, data)
<1> DEFINE pl == Plain(sa)
           t == AtypOf(pl)
<1>1. pl \in SockAddrs /\ HostOf(sa) = [atyp |-> t, addr |-> pl.addr]
  BY PlainMeans
<1> HIDE DEF pl
<1>2. port \in Seq(Byte) /\ Len(port) = 2 /\ 0 \in Byte
  BY Pairs, SmallBytes
<1>3. <<0, 0, 0>> \o encode_addr_port(pl.v6, pl.addr, port) = Addressed(<<0, 0, 0, t>>, t, pl.addr, port)
  BY ONLY <1>1, <1>2, port \in Byte \X Byte, Encoded DEF t
<1> HIDE DEF t
<1>4. HostOf(sa).atyp = t /\ HostOf(sa).addr = pl.addr
  BY <1>1
<1>5. DatagramFor(HostOf(sa), port, data) = Addressed(<<0, 0, 0, t>>, t, pl.addr, port) \o data
  BY <1>4, DatagramIs
<1> QED BY <1>3, <1>5 DEF socks5_udp_encode, pl

(* The reply m tells the code rep, and the address sa and port of the relay. *)
Replies(m, rep, sa, port) ==
  /\ m \in Seq(Byte) /\ Len(m) > 2 /\ m[2] = rep /\ m[4] = AtypOf(sa)
  /\ SubSeq(m, 5, Len(m) - 2) = sa.addr /\ SubSeq(m, Len(m) - 1, Len(m)) = port

(* A reply tells its code, and the type, address and port it was given.      *)
LEMMA ReplyMeans ==
  ASSUME NEW rep \in Byte, NEW sa \in SockAddrs, NEW port \in Byte \X Byte
  PROVE  Replies(socks5_encode_reply(rep, sa.v6, sa.addr, port), rep, sa, port)
<1> DEFINE t == AtypOf(sa)
           addr == sa.addr
           k == Len(addr)
           h == <<5, rep, 0, t>>
           m == Addressed(h, t, addr, port)
<1>1. addr \in Seq(Byte) /\ k \in Nat /\ k <= 255 /\ t \in Byte /\ t # SOCKS5_ATYP_DOMAIN
  BY SockAddrParts
<1>2. port \in Seq(Byte) /\ Len(port) = 2 /\ 0 \in Byte /\ 5 \in Byte
  BY Pairs, SmallBytes
<1>3. socks5_encode_reply(rep, sa.v6, sa.addr, port) = m
  <2>1. <<5, rep, 0>> \o encode_addr_port(sa.v6, sa.addr, port)
          = Addressed(<<5, rep, 0, AtypOf(sa)>>, AtypOf(sa), sa.addr, port)
    BY ONLY <1>2, rep \in Byte, sa \in SockAddrs, Encoded, SMTT(60)
  <2> QED BY <2>1 DEF socks5_encode_reply
<1>4. h \in Seq(Byte) /\ Len(h) = 4 /\ h[2] = rep /\ h[4] = t
  BY <1>1, <1>2, Tuples
<1> HIDE DEF h
<1>5. Laid(m, h, t, addr, port)
  BY <1>1, <1>2, <1>4, AddressedLayout
<1>6. AddrAt(t) = 4
  BY <1>1 DEF AddrAt
<1> HIDE DEF m, t, addr
<1>7. /\ m \in Seq(Byte) /\ Len(m) = 4 + k + 2
      /\ \A i \in 1..4 : m[i] = h[i]
      /\ \A i \in 1..k : m[4 + i] = addr[i]
      /\ \A i \in 1..2 : m[4 + k + i] = port[i]
  BY <1>5, <1>6 DEF Laid
<1>8. m[2] = rep /\ m[4] = t
  BY <1>4, <1>7
<1>9. /\ 4 \in Nat /\ 4 + k \in Nat /\ 4 + k <= Len(m) /\ (4 + k) + Len(port) <= Len(m)
      /\ \A i \in 1..Len(addr) : m[4 + i] = addr[i]
      /\ \A i \in 1..Len(port) : m[(4 + k) + i] = port[i]
  BY <1>1, <1>2, <1>7
<1>10. Take(m, 4, Len(addr)) = addr
  BY <1>1, <1>7, <1>9, TakeIs
<1>11. Take(m, 4 + k, Len(port)) = port
  BY <1>2, <1>7, <1>9, TakeIs
<1>12. Len(m) - 2 = 4 + k /\ Len(m) - 1 = (4 + k) + 1 /\ Len(m) = (4 + k) + 2 /\ Len(m) > 2
  BY <1>1, <1>7
<1>13. SubSeq(m, 5, Len(m) - 2) = addr
  BY <1>10, <1>12 DEF Take
<1>14. SubSeq(m, Len(m) - 1, Len(m)) = port
  BY <1>2, <1>11, <1>12 DEF Take
<1> QED BY <1>3, <1>7, <1>8, <1>12, <1>13, <1>14 DEF t, addr, Replies

(* d has the header of a datagram with an address of k bytes.                *)
Fits(d, k) ==
  /\ k \in Nat /\ k >= 1 /\ k <= 255
  /\ Len(d) >= 4 /\ d[1] = 0 /\ d[2] = 0 /\ d[3] = 0
  /\ \/ d[4] = SOCKS5_ATYP_IPV4 /\ k = 4
     \/ d[4] = SOCKS5_ATYP_IPV6 /\ k = 16
     \/ d[4] = SOCKS5_ATYP_DOMAIN /\ Len(d) >= 5 /\ d[5] = k
  /\ AddrAt(d[4]) + k + 2 <= Len(d)

(* Such a datagram is the one for the host and the port it is split into.    *)
LEMMA SplitDatagram ==
  ASSUME NEW d \in Seq(Byte), NEW k, Fits(d, k)
  PROVE  LET at == AddrAt(d[4])
         IN d = DatagramFor([atyp |-> d[4], addr |-> Take(d, at, k)], Take(d, at + k, 2), From(d, at + k + 2))
<1> DEFINE t == d[4]
           at == AddrAt(t)
           host == Take(d, at, k)
           port == Take(d, at + k, 2)
           data == From(d, at + k + 2)
           h == <<0, 0, 0, t>>
           b == Addressed(h, t, host, port)
           n == Len(d)
<1>1. /\ n \in Nat /\ k \in Nat /\ k >= 1 /\ k <= 255 /\ n >= 4
      /\ d[1] = 0 /\ d[2] = 0 /\ d[3] = 0 /\ at + k + 2 <= n
      /\ t = SOCKS5_ATYP_DOMAIN => d[5] = k
  BY LenProperties DEF Fits, SOCKS5_ATYP_IPV4, SOCKS5_ATYP_IPV6, SOCKS5_ATYP_DOMAIN
<1>2. at = IF t = SOCKS5_ATYP_DOMAIN THEN 5 ELSE 4
  BY DEF AddrAt
<1>3. t \in Byte /\ 0 \in Byte
  <2>1. 4 \in 1..Len(d)
    BY <1>1
  <2> QED BY <2>1, ElementOfSeq, SmallBytes
<1>c. n = Len(d) /\ t = d[4]
  OBVIOUS
<1> HIDE DEF t, at, n
<1>4. at \in Nat /\ at + k \in Nat /\ 2 \in Nat /\ at + k + 2 \in 0..n /\ at + k <= n /\ (at + k) + 2 <= n
  BY <1>1, <1>2
<1>5. host \in Seq(Byte) /\ Len(host) = k /\ \A i \in 1..k : host[i] = d[at + i]
  BY <1>1, <1>4, <1>c, TakeOf
<1>6. port \in Seq(Byte) /\ Len(port) = 2 /\ \A i \in 1..2 : port[i] = d[(at + k) + i]
  BY <1>4, <1>c, TakeOf
<1>7. /\ data \in Seq(Byte) /\ Len(data) = n - (at + k + 2)
      /\ \A i \in 1..(n - (at + k + 2)) : data[i] = d[(at + k + 2) + i]
  BY <1>4, <1>c, FromOf
<1>8. h \in Seq(Byte) /\ Len(h) = 4 /\ h[1] = 0 /\ h[2] = 0 /\ h[3] = 0 /\ h[4] = t
  BY <1>3, Tuples
<1> HIDE DEF host, port, data, h
<1>9. Laid(b, h, t, host, port)
  BY <1>1, <1>5, <1>6, <1>8, AddressedLayout
<1> HIDE DEF b
<1>10. /\ b \in Seq(Byte) /\ Len(b) = at + k + 2
       /\ \A i \in 1..4 : b[i] = h[i]
       /\ t = SOCKS5_ATYP_DOMAIN => b[5] = k
       /\ \A i \in 1..k : b[at + i] = host[i]
       /\ \A i \in 1..2 : b[at + k + i] = port[i]
  BY <1>5, <1>9 DEF Laid, at
<1>11. \A i \in 1..(at + k + 2) : b[i] = d[i]
  <2>1. \A i \in 1..4 : b[i] = d[i]
    <3>1. b[1] = d[1] /\ b[2] = d[2] /\ b[3] = d[3] /\ b[4] = d[4]
      BY <1>1, <1>8, <1>10, <1>c
    <3>2. \A i \in 1..4 : i \in {1, 2, 3, 4}
      OBVIOUS
    <3> QED BY <3>1, <3>2
  <2>2. t = SOCKS5_ATYP_DOMAIN => b[5] = d[5]
    BY <1>1, <1>10
  <2>3. \A i \in 1..k : b[at + i] = d[at + i]
    BY <1>5, <1>10
  <2>4. \A i \in 1..2 : b[at + k + i] = d[at + k + i]
    BY <1>6, <1>10
  <2>5. \A i \in 1..(at + k + 2) : \/ i \in 1..4
                                   \/ i = 5 /\ t = SOCKS5_ATYP_DOMAIN
                                   \/ i - at \in 1..k /\ at + (i - at) = i
                                   \/ i - (at + k) \in 1..2 /\ at + k + (i - (at + k)) = i
    BY <1>1, <1>2
  <2> QED BY ONLY <2>1, <2>2, <2>3, <2>4, <2>5
<1>12. /\ b \o data \in Seq(Byte) /\ Len(b \o data) = Len(b) + Len(data)
       /\ \A i \in 1..Len(b) : (b \o data)[i] = b[i]
       /\ \A i \in 1..Len(data) : (b \o data)[Len(b) + i] = data[i]
  BY <1>7, <1>10, Joined
<1> DEFINE w == b \o data
<1> HIDE DEF w
<1>13. /\ w \in Seq(Byte) /\ Len(w) = n
       /\ \A i \in 1..(at + k + 2) : w[i] = d[i]
       /\ \A i \in 1..(n - (at + k + 2)) : w[(at + k + 2) + i] = d[(at + k + 2) + i]
  <2>1. (at + k + 2) + (n - (at + k + 2)) = n
    BY <1>1, <1>4
  <2>2. /\ w \in Seq(Byte) /\ Len(w) = (at + k + 2) + (n - (at + k + 2))
        /\ \A i \in 1..(at + k + 2) : w[i] = b[i]
        /\ \A i \in 1..(n - (at + k + 2)) : w[(at + k + 2) + i] = data[i]
    BY <1>7, <1>10, <1>12 DEF w
  <2> QED BY <1>7, <1>11, <2>1, <2>2
<1>14. \A i \in 1..n : \/ i \in 1..(at + k + 2)
                       \/ i - (at + k + 2) \in 1..(n - (at + k + 2)) /\ (at + k + 2) + (i - (at + k + 2)) = i
  BY <1>1, <1>4
<1>15. \A i \in 1..n : w[i] = d[i]
  BY ONLY <1>13, <1>14
<1>16. Len(w) = Len(d) /\ \A i \in 1..Len(w) : w[i] = d[i]
  BY <1>13, <1>15, <1>c
<1>17. w = d
  BY ONLY <1>13, <1>16, d \in Seq(Byte), SeqEqual
<1>18. DatagramFor([atyp |-> t, addr |-> host], port, data) = w
  BY DatagramIs DEF w, b, h
<1> QED BY <1>17, <1>18 DEF t, at, host, port, data

(* The server finds that header and takes it apart the same way.             *)
LEMMA ParseFits ==
  ASSUME NEW d \in Seq(Byte), NEW k, Fits(d, k)
  PROVE  LET at == AddrAt(d[4])
             h == socks5_udp_parse(d)
         IN /\ h.hlen = at + k + 2 /\ h.atyp = d[4]
            /\ h.addr = Take(d, at, k) /\ h.port = Take(d, at + k, 2)
<1>1. Len(d) \in Nat
  BY LenProperties
<1>2. /\ k \in Nat /\ ~(Len(d) < 4) /\ Len(d) >= 4 /\ d[1] = 0 /\ d[2] = 0 /\ d[3] = 0
      /\ AddrAt(d[4]) + k + 2 <= Len(d)
  BY <1>1 DEF Fits
<1>3. CASE d[4] = SOCKS5_ATYP_IPV4 /\ k = 4
  <2>1. AddrAt(d[4]) = 4 /\ ~(Len(d) < 10)
    BY <1>1, <1>2, <1>3 DEF AddrAt, SOCKS5_ATYP_IPV4, SOCKS5_ATYP_DOMAIN
  <2>2. socks5_udp_parse(d) = Header(SOCKS5_ATYP_IPV4, Take(d, 4, 4), Take(d, 8, 2))
    BY <1>2, <1>3, <2>1 DEF socks5_udp_parse, SOCKS5_ATYP_IPV4, SOCKS5_ATYP_DOMAIN, SOCKS5_ATYP_IPV6
  <2>3. 4 \in Nat /\ 4 + 4 <= Len(d)
    BY <1>1, <2>1
  <2>4. Len(Take(d, 4, 4)) = 4
    BY <2>3, TakeOf
  <2>5. /\ socks5_udp_parse(d).hlen = 4 + 0 + Len(Take(d, 4, 4)) + 2
        /\ socks5_udp_parse(d).atyp = d[4]
        /\ socks5_udp_parse(d).addr = Take(d, 4, 4) /\ socks5_udp_parse(d).port = Take(d, 8, 2)
    BY <1>3, <2>2 DEF Header, SOCKS5_ATYP_IPV4, SOCKS5_ATYP_DOMAIN
  <2>6. AddrAt(d[4]) + k = 8 /\ AddrAt(d[4]) + k + 2 = 10 /\ 4 + 0 + 4 + 2 = 10
    BY <1>3, <2>1
  <2> QED BY <1>3, <2>1, <2>4, <2>5, <2>6
<1>4. CASE d[4] = SOCKS5_ATYP_IPV6 /\ k = 16
  <2>1. AddrAt(d[4]) = 4 /\ ~(Len(d) < 22)
    BY <1>1, <1>2, <1>4 DEF AddrAt, SOCKS5_ATYP_IPV6, SOCKS5_ATYP_DOMAIN
  <2>2. socks5_udp_parse(d) = Header(SOCKS5_ATYP_IPV6, Take(d, 4, 16), Take(d, 20, 2))
    BY <1>2, <1>4, <2>1 DEF socks5_udp_parse, SOCKS5_ATYP_IPV4, SOCKS5_ATYP_DOMAIN, SOCKS5_ATYP_IPV6
  <2>3. 4 \in Nat /\ 16 \in Nat /\ 4 + 16 <= Len(d)
    BY <1>1, <2>1
  <2>4. Len(Take(d, 4, 16)) = 16
    BY <2>3, TakeOf
  <2>5. /\ socks5_udp_parse(d).hlen = 4 + 0 + Len(Take(d, 4, 16)) + 2
        /\ socks5_udp_parse(d).atyp = d[4]
        /\ socks5_udp_parse(d).addr = Take(d, 4, 16) /\ socks5_udp_parse(d).port = Take(d, 20, 2)
    BY <1>4, <2>2 DEF Header, SOCKS5_ATYP_IPV6, SOCKS5_ATYP_DOMAIN
  <2>6. AddrAt(d[4]) + k = 20 /\ AddrAt(d[4]) + k + 2 = 22 /\ 4 + 0 + 16 + 2 = 22
    BY <1>4, <2>1
  <2> QED BY <1>4, <2>1, <2>4, <2>5, <2>6
<1>5. CASE d[4] = SOCKS5_ATYP_DOMAIN /\ Len(d) >= 5 /\ d[5] = k
  <2>1. /\ AddrAt(d[4]) = 5 /\ ~(Len(d) < 5) /\ ~(k = 0 \/ Len(d) < 5 + k + 2)
        /\ 5 \in Nat /\ 5 + k <= Len(d)
    BY <1>1, <1>2, <1>5 DEF AddrAt, Fits
  <2>2. socks5_udp_parse(d) = ParseDomain(d)
    BY <1>2, <1>5 DEF socks5_udp_parse, SOCKS5_ATYP_IPV4, SOCKS5_ATYP_DOMAIN, SOCKS5_ATYP_IPV6
  <2>3. ParseDomain(d) = Header(SOCKS5_ATYP_DOMAIN, Take(d, 5, k), Take(d, 5 + k, 2))
    BY <1>5, <2>1 DEF ParseDomain
  <2>4. Len(Take(d, 5, k)) = k
    BY <1>2, <2>1, TakeOf
  <2>5. 4 + 1 + k + 2 = 5 + k + 2
    BY <1>2
  <2> QED BY <1>5, <2>1, <2>2, <2>3, <2>4, <2>5 DEF Header
<1> QED BY <1>3, <1>4, <1>5 DEF Fits

(* It finds no header where there is none.                                   *)
LEMMA ParseOnly ==
  ASSUME NEW d \in Seq(Byte), socks5_udp_parse(d).hlen > 0
  PROVE  \E k : Fits(d, k)
<1>1. Len(d) \in Nat
  BY LenProperties
<1>2. NoHeader.hlen = -1 /\ ~(-1 > 0)
  BY DEF NoHeader
<1>3. socks5_udp_parse(d) # NoHeader
  BY <1>2
<1>4. ~(Len(d) < 4) /\ Len(d) >= 4
  BY <1>1, <1>3 DEF socks5_udp_parse
<1>5. d[1] = 0 /\ d[2] = 0 /\ d[3] = 0
  BY <1>3, <1>4 DEF socks5_udp_parse
<1>6. /\ d[4] = SOCKS5_ATYP_IPV4 => ~(Len(d) < 10)
      /\ d[4] = SOCKS5_ATYP_IPV6 => ~(Len(d) < 22)
      /\ d[4] = SOCKS5_ATYP_DOMAIN => ParseDomain(d) # NoHeader
      /\ d[4] \in {SOCKS5_ATYP_IPV4, SOCKS5_ATYP_IPV6, SOCKS5_ATYP_DOMAIN}
  BY <1>3, <1>4, <1>5 DEF socks5_udp_parse, SOCKS5_ATYP_IPV4, SOCKS5_ATYP_DOMAIN, SOCKS5_ATYP_IPV6
<1>7. CASE d[4] = SOCKS5_ATYP_IPV4
  <2>1. Fits(d, 4)
    BY <1>1, <1>4, <1>5, <1>6, <1>7 DEF Fits, AddrAt, SOCKS5_ATYP_IPV4, SOCKS5_ATYP_DOMAIN
  <2> QED BY <2>1
<1>8. CASE d[4] = SOCKS5_ATYP_IPV6
  <2>1. Fits(d, 16)
    BY <1>1, <1>4, <1>5, <1>6, <1>8 DEF Fits, AddrAt, SOCKS5_ATYP_IPV6, SOCKS5_ATYP_DOMAIN
  <2> QED BY <2>1
<1>9. CASE d[4] = SOCKS5_ATYP_DOMAIN
  <2>1. ~(Len(d) < 5) /\ d[5] # 0 /\ ~(Len(d) < 5 + d[5] + 2)
    BY <1>6, <1>9 DEF ParseDomain
  <2>2. 5 \in 1..Len(d)
    BY <1>1, <2>1
  <2>3. d[5] \in Nat /\ d[5] <= 255
    BY <2>2, ElementOfSeq, SmallBytes
  <2>4. AddrAt(d[4]) = 5
    BY <1>9 DEF AddrAt
  <2>5. d[5] >= 1 /\ Len(d) >= 5 /\ 5 + d[5] + 2 <= Len(d)
    BY <1>1, <2>1, <2>3
  <2>6. Fits(d, d[5])
    BY <1>4, <1>5, <1>9, <2>3, <2>4, <2>5 DEF Fits
  <2> QED BY <2>6
<1> QED BY <1>6, <1>7, <1>8, <1>9

(* What the server takes out of a datagram is what the protocol says.        *)
LEMMA RouteSound ==
  ASSUME NEW d \in Seq(Byte), NEW x, x = RouteOf(socks5_udp_parse(d), d), x # Nothing
  PROVE  /\ x.data # <<>> /\ WellFormed(x.host.atyp, x.host.addr)
         /\ d = DatagramFor(x.host, x.port, x.data)
<1> DEFINE h == socks5_udp_parse(d)
<1>1. h.hlen > 0 /\ Len(d) > h.hlen /\ x = Sent(h, d)
  BY DEF RouteOf
<1>2. PICK k : Fits(d, k)
  BY <1>1, ParseOnly
<1> DEFINE at == AddrAt(d[4])
<1>3. /\ h.hlen = at + k + 2 /\ h.atyp = d[4] /\ h.addr = Take(d, at, k) /\ h.port = Take(d, at + k, 2)
  BY <1>2, ParseFits
<1>4. d = DatagramFor([atyp |-> d[4], addr |-> Take(d, at, k)], Take(d, at + k, 2), From(d, at + k + 2))
  BY <1>2, SplitDatagram
<1>5. /\ Len(d) \in Nat /\ k \in Nat /\ at \in {4, 5} /\ k >= 1 /\ k <= 255 /\ at + k + 2 <= Len(d)
      /\ \/ d[4] = 1 /\ k = 4
         \/ d[4] = 4 /\ k = 16
         \/ d[4] = 3
  BY <1>2, LenProperties DEF Fits, AddrAt, SOCKS5_ATYP_IPV4, SOCKS5_ATYP_IPV6, SOCKS5_ATYP_DOMAIN
<1> HIDE DEF h, at
<1>6. /\ x.host = [atyp |-> d[4], addr |-> Take(d, at, k)] /\ x.port = Take(d, at + k, 2)
      /\ x.data = From(d, at + k + 2)
  BY <1>1, <1>3 DEF Sent
<1>7. at \in Nat /\ at + k <= Len(d) /\ at + k + 2 \in 0..Len(d) /\ Len(d) - (at + k + 2) > 0
  BY <1>1, <1>3, <1>5
<1>8. Len(Take(d, at, k)) = k
  BY <1>5, <1>7, TakeOf
<1>9. Len(From(d, at + k + 2)) = Len(d) - (at + k + 2)
  BY <1>7, FromOf
<1>10. x.data # <<>>
  BY <1>6, <1>7, <1>9, EmptySeq
<1>11. k \in 1..255
  BY <1>5
<1>12. WellFormed(d[4], Take(d, at, k))
  BY <1>5, <1>8, <1>11 DEF WellFormed
<1> QED BY <1>4, <1>6, <1>10, <1>12

(* A datagram with data for a well-formed host has a header.                 *)
LEMMA RouteComplete ==
  ASSUME NEW d \in Seq(Byte), NEW atyp \in Byte, NEW host \in Seq(Byte), Len(host) <= 255,
         NEW port \in Byte \X Byte, WellFormed(atyp, host), NEW n \in 1..Len(d),
         d = DatagramFor([atyp |-> atyp, addr |-> host], port, SubSeq(d, n, Len(d)))
  PROVE  socks5_udp_parse(d).hlen > 0 /\ Len(d) > socks5_udp_parse(d).hlen
<1> DEFINE data == SubSeq(d, n, Len(d))
           h == <<0, 0, 0, atyp>>
           b == Addressed(h, atyp, host, port)
           k == Len(host)
           at == AddrAt(atyp)
<1>1. Len(d) \in Nat /\ k \in Nat /\ k <= 255 /\ n \in Nat /\ n >= 1 /\ n <= Len(d)
  BY LenProperties
<1>2. data \in Seq(Byte) /\ Len(data) >= 1
  <2>1. \A i \in n..Len(d) : d[i] \in Byte
    BY <1>1, ElementOfSeq
  <2>2. n \in Int /\ Len(d) \in Int
    BY <1>1
  <2>3. data \in Seq(Byte) /\ Len(data) = IF n <= Len(d) THEN Len(d) - n + 1 ELSE 0
    BY <2>1, <2>2, SubSeqProperties
  <2> QED BY <1>1, <2>3
<1>3. d = b \o data
  <2>1. DatagramFor([atyp |-> atyp, addr |-> host], port, data) = b \o data
    BY DatagramIs
  <2> QED BY <2>1
<1>4. port \in Seq(Byte) /\ Len(port) = 2 /\ 0 \in Byte
  BY Pairs, SmallBytes
<1>5. h \in Seq(Byte) /\ Len(h) = 4 /\ h[1] = 0 /\ h[2] = 0 /\ h[3] = 0 /\ h[4] = atyp
  BY <1>4, Tuples
<1>w. \/ atyp = 1 /\ k = 4
      \/ atyp = 4 /\ k = 16
      \/ atyp = 3 /\ k \in 1..255
  BY DEF WellFormed
<1>c. k = Len(host)
  OBVIOUS
<1> HIDE DEF data, h, k
<1>6. Laid(b, h, atyp, host, port)
  BY <1>1, <1>4, <1>5, <1>c, AddressedLayout
<1> HIDE DEF b
<1>7. /\ b \in Seq(Byte) /\ Len(b) = at + k + 2 /\ \A i \in 1..4 : b[i] = h[i]
      /\ atyp = 3 => b[5] = k
  BY <1>6, <1>c DEF Laid, SOCKS5_ATYP_DOMAIN
<1>8. at = IF atyp = 3 THEN 5 ELSE 4
  BY DEF AddrAt, SOCKS5_ATYP_DOMAIN
<1> HIDE DEF at
<1>9. /\ Len(d) = Len(b) + Len(data) /\ Len(data) \in Nat /\ \A i \in 1..Len(b) : d[i] = b[i]
  <2>1. b \in Seq(Byte) /\ data \in Seq(Byte)
    BY <1>2, <1>7
  <2>2. /\ Len(b \o data) = Len(b) + Len(data) /\ Len(data) \in Nat
        /\ \A i \in 1..Len(b) : (b \o data)[i] = b[i]
    BY ONLY <2>1, Joined
  <2> QED BY ONLY <1>3, <2>2
<1>10. /\ 1 \in 1..Len(b) /\ 2 \in 1..Len(b) /\ 3 \in 1..Len(b) /\ 4 \in 1..Len(b) /\ 5 \in 1..Len(b)
       /\ 1 \in 1..4 /\ 2 \in 1..4 /\ 3 \in 1..4 /\ 4 \in 1..4
  BY <1>1, <1>7, <1>8
<1>11. /\ d[1] = 0 /\ d[2] = 0 /\ d[3] = 0 /\ d[4] = atyp /\ (atyp = 3 => d[5] = k)
  BY <1>5, <1>7, <1>9, <1>10
<1>12. /\ at + k + 2 < Len(d) /\ Len(d) >= 5 /\ k >= 1
  BY <1>1, <1>2, <1>7, <1>8, <1>9, <1>w
<1>13. AddrAt(d[4]) = at
  BY <1>11 DEF at
<1>14. Fits(d, k)
  BY <1>1, <1>8, <1>11, <1>12, <1>13, <1>w DEF Fits, SOCKS5_ATYP_IPV4, SOCKS5_ATYP_IPV6, SOCKS5_ATYP_DOMAIN
<1>15. socks5_udp_parse(d).hlen = at + k + 2
  BY <1>13, <1>14, ParseFits
<1> QED BY <1>1, <1>8, <1>12, <1>15

(****************************************************************************)
(* The inductive invariant                                                   *)
(****************************************************************************)

(* The request and what follows it, once the client has asked; its           *)
(* credentials, once it has sent them                                        *)
RequestOf(ask) == IF ask = Nothing THEN <<>> ELSE AskBytes(ask) \o Payload
CredsOf(creds) == IF creds = Nothing THEN <<>> ELSE CredBytes(creds)

(* s is what has been sent, or the beginning of it if the client fell silent *)
Awaits(s, quiet, bytes) == Begins(s, bytes) /\ (Len(s) < Len(bytes) => quiet)

Invited == outbox \in {<<<<5, 0>>>>, <<<<5, 2>>, <<1, 0>>>>}
Early == {"greeting", "method", "auth", "request"}
Served == {"connect", "udp", "handed over", "associated"}

Types ==
  /\ said \in [methods : Greetings \union {<<0>>, Nothing}, creds : Credentials \union {Nothing},
               ask : Asks \union {Nothing}]
  /\ home \in [local : LocalAddrs, peer : Peers]

(* While a message is read, the stream is what the client has sent that was  *)
(* not read yet, and it has sent nothing that it was not invited to.         *)
Greeting ==
  pc = "greeting" =>
    /\ outbox = <<>> /\ said.creds = Nothing
    /\ said.methods = Nothing => stream = <<>> /\ said.ask = Nothing /\ ~silent
    /\ said.methods # Nothing =>
         Awaits(stream, silent, GreetingBytes(said.methods) \o RequestOf(said.ask))
    /\ said.ask # Nothing => said.methods = <<0>>
Method ==
  pc = "method" =>
    /\ outbox = <<>> /\ said.creds = Nothing /\ offered = said.methods
    /\ Awaits(stream, silent, RequestOf(said.ask))
    /\ said.ask # Nothing => said.methods = <<0>>
Auth ==
  pc = "auth" =>
    /\ outbox = <<<<5, 2>>>> /\ said.ask = Nothing
    /\ snap \in inForce /\ snap.on
    /\ \E i \in DOMAIN said.methods : said.methods[i] = 2
    /\ Awaits(stream, silent, CredsOf(said.creds))
Requesting == pc = "request" => Awaits(stream, silent, RequestOf(said.ask))

(* A client that is invited to speak and has not yet spoken has a server     *)
(* that listens.                                                             *)
Turns ==
  /\ said.methods = Nothing => pc = "greeting"
  /\ Heard(<<5, 2>>) => pc = "auth" \/ silent
  /\ Heard(<<5, 0>>) \/ Heard(<<1, 0>>) => pc = "request" \/ silent \/ said.ask # Nothing

(* What is there in each stage, and what is not there before                 *)
Stages ==
  /\ pc \in Early => req = Nothing
  /\ pc \in Early \union {"connect", "udp"} => fate = "open" /\ ~egress
  /\ pc \in {"request", "connect", "udp"} => Invited
  /\ pc \in Served => said.ask # Nothing
  /\ pc = "connect" => req.cmd = 1
  /\ fate = "refused" => /\ pc = "closed" /\ outbox # <<>>
                         /\ outbox[Len(outbox)] \in {<<5, 255>>, <<1, 1>>}
  /\ last # Nothing => pc = "associated"
  /\ src # Nothing => HostOf(src) = HostOf(home.peer)

IInv ==
  /\ TypeOK /\ Types
  /\ Greeting /\ Method /\ Auth /\ Requesting /\ Turns /\ Stages
  /\ Authorized /\ Understood /\ Told /\ RoutedRight

(****************************************************************************)
(* Facts of the constants                                                    *)
(****************************************************************************)

(* What a client may send                                                    *)
LEMMA Inputs ==
  /\ \A g \in Greetings \union {<<0>>} : g \in Seq(Byte) /\ Len(g) <= 255 /\ g # Nothing
  /\ \A c \in Credentials : /\ c \in Seq(Byte) \X Seq(Byte) /\ c # Nothing
                            /\ Len(c[1]) \in 1..255 /\ Len(c[2]) \in 0..255
  /\ \A a \in Asks : a \in Requests /\ Sized(a) /\ a # Nothing
  /\ Payload \in Seq(Byte)
<1>1. \A g \in Greetings : g \in Seq(Byte) /\ Len(g) <= 255 /\ g # Nothing
  BY HandshakeAssumption
<1>2. <<0>> \in Seq(Byte) /\ Len(<<0>>) <= 255 /\ <<0>> # Nothing
  BY HandshakeAssumption, SmallBytes, Tuples
<1>3. MaxCred \in 1..255
  BY HandshakeAssumption
<1>4. \A k \in Int : /\ k \in 1..MaxCred => k \in 1..255
                     /\ k \in 0..MaxCred => k \in 0..255
  BY <1>3
<1>5. \A c \in Credentials : /\ c \in Seq(Byte) \X Seq(Byte) /\ c # Nothing
                             /\ Len(c[1]) \in 1..MaxCred /\ Len(c[2]) \in 0..MaxCred
  BY HandshakeAssumption
<1>6. \A c \in Credentials : Len(c[1]) \in Int /\ Len(c[2]) \in Int
  <2>1. TAKE c \in Credentials
  <2>2. c[1] \in Seq(Byte) /\ c[2] \in Seq(Byte)
    BY <1>5
  <2> QED BY <2>2, LenProperties
<1>7. \A a \in Asks : a \in Requests /\ Sized(a) /\ a # Nothing
  BY HandshakeAssumption DEF Requests, Sized
<1>8. Payload \in Seq(Byte)
  BY HandshakeAssumption
<1>9. \A c \in Credentials : Len(c[1]) \in 1..255 /\ Len(c[2]) \in 0..255
  BY ONLY <1>4, <1>5, <1>6
<1>10. \A g \in Greetings \union {<<0>>} : g \in Seq(Byte) /\ Len(g) <= 255 /\ g # Nothing
  BY ONLY <1>1, <1>2
<1> QED BY ONLY <1>5, <1>7, <1>8, <1>9, <1>10

(* Addresses                                                                 *)
LEMMA Addresses ==
  /\ \A sa \in LocalAddrs : sa # Nothing => sa \in SockAddrs
  /\ Peers \subseteq SockAddrs /\ Senders \subseteq SockAddrs
  /\ \A o \in Origins : o.sa \in SockAddrs /\ o.port \in Byte \X Byte
  /\ RelayPort \in Byte \X Byte
<1>1. \A sa \in (LocalAddrs \ {Nothing}) \union Peers \union Senders \union {o.sa : o \in Origins} :
        sa \in SockAddrs
  BY HandshakeAssumption DEF SockAddrs
<1>2. \A o \in Origins : o.port \in Byte \X Byte
  BY HandshakeAssumption
<1>3. RelayPort \in Byte \X Byte
  BY HandshakeAssumption
<1> QED BY <1>1, <1>2, <1>3

(* What a client has said is bytes.                                          *)
LEMMA Requested ==
  ASSUME NEW ask \in Asks \union {Nothing}
  PROVE  RequestOf(ask) \in Seq(Byte)
<1>1. CASE ask = Nothing
  BY <1>1, EmptySeq DEF RequestOf
<1>2. CASE ask \in Asks
  <2>1. ask \in Requests /\ Len(ask.host) <= 255 /\ ask # Nothing /\ Payload \in Seq(Byte)
    BY <1>2, Inputs DEF Sized
  <2>2. AskBytes(ask) \in Seq(Byte)
    BY <2>1, AskLayout
  <2>3. AskBytes(ask) \o Payload \in Seq(Byte)
    BY <2>1, <2>2, Joined
  <2> QED BY <2>1, <2>3 DEF RequestOf
<1> QED BY <1>1, <1>2

(* Nothing is waited for, and nothing is there.                              *)
LEMMA AwaitsNothing ==
  ASSUME NEW s, NEW quiet, Awaits(s, quiet, <<>>)
  PROVE  s = <<>>
<1>1. s \in Seq(Byte) /\ Len(s) <= Len(<<>>)
  BY DEF Awaits, Begins
<1>2. Len(s) \in Nat /\ Len(<<>>) = 0
  BY <1>1, LenProperties, EmptySeq
<1> QED BY <1>1, <1>2, EmptySeq

(* The client sends: everything, or the beginning and then nothing more.     *)
LEMMA SendsAwaits ==
  ASSUME NEW bytes \in Seq(Byte), stream = <<>>, silent \in BOOLEAN, Sends(bytes)
  PROVE  /\ Awaits(stream', silent', bytes) /\ ~silent /\ silent' \in BOOLEAN
         /\ UNCHANGED <<config, thread, outbox, home, relay>>
<1>1. Len(bytes) \in Nat
  BY LenProperties
<1>2. CASE stream' = stream \o bytes /\ silent' = silent
  <2>1. stream' = bytes
    BY <1>2, ConcatEmptySeq
  <2>2. Awaits(stream', silent', bytes)
    BY <1>1, <2>1 DEF Awaits, Begins
  <2> QED BY <1>2, <2>2, Zenon DEF Sends
<1>3. CASE \E n \in 0..(Len(bytes) - 1) : stream' = stream \o Take(bytes, 0, n) /\ silent' = TRUE
  <2>1. PICK n \in 0..(Len(bytes) - 1) : stream' = stream \o Take(bytes, 0, n) /\ silent' = TRUE
    BY <1>3
  <2>2. 0 \in Nat /\ n \in Nat /\ 0 + n <= Len(bytes) /\ \A i \in 1..n : 0 + i = i
    BY <1>1
  <2>3. /\ Take(bytes, 0, n) \in Seq(Byte) /\ Len(Take(bytes, 0, n)) = n
        /\ \A i \in 1..n : Take(bytes, 0, n)[i] = bytes[0 + i]
    BY <2>2, TakeOf
  <2>4. stream' = Take(bytes, 0, n)
    BY <2>1, <2>3, ConcatEmptySeq
  <2>5. stream' \in Seq(Byte) /\ Len(stream') = n /\ \A i \in 1..n : stream'[i] = bytes[i]
    BY <2>2, <2>3, <2>4
  <2>6. Begins(stream', bytes)
    BY <1>1, <2>2, <2>5 DEF Begins
  <2> QED BY <2>1, <2>6 DEF Awaits, Sends
<1> QED BY <1>2, <1>3 DEF Sends

(****************************************************************************)
(* Parts of the invariant that a step does not touch                         *)
(****************************************************************************)

(* In a stage before the answer nothing has been answered.                   *)
LEMMA NotTold ==
  ASSUME \A i \in DOMAIN outbox : Len(outbox[i]) = 2, ~egress, fate \notin {"unreachable", "served"}
  PROVE  Told
<1>0. ~(2 > 2)
  OBVIOUS
<1>1. {i \in DOMAIN outbox : Len(outbox[i]) > 2} = {}
  BY <1>0, Zenon
<1> QED BY <1>1 DEF Told

(* The same after a step                                                     *)
LEMMA NotToldNext ==
  ASSUME \A i \in DOMAIN outbox' : Len(outbox'[i]) = 2, ~egress', fate' \notin {"unreachable", "served"}
  PROVE  Told'
<1>0. ~(2 > 2)
  OBVIOUS
<1>1. {i \in DOMAIN outbox' : Len(outbox'[i]) > 2} = {}
  BY <1>0, Zenon
<1> QED BY <1>1 DEF Told

(* What is told to the client stays told.                                    *)
LEMMA ToldKept ==
  ASSUME Told, UNCHANGED <<outbox, egress, fate, req, home>>
  PROVE  Told'
BY Zenon DEF Told

(* What happened to a datagram stays so.                                     *)
LEMMA RoutedKept ==
  ASSUME RoutedRight, UNCHANGED <<last, req, home>>
  PROVE  RoutedRight'
BY Zenon DEF RoutedRight

(* Before the first datagram there is nothing to state.                      *)
LEMMA NotRouted ==
  ASSUME last = Nothing
  PROVE  RoutedRight
BY DEF RoutedRight

(* The short messages of the server are different.                           *)
LEMMA Greetings2 ==
  /\ <<5, 2>> # <<5, 0>> /\ <<5, 2>> # <<1, 0>> /\ <<5, 2>> # <<5, 255>> /\ <<5, 2>> # <<1, 1>>
  /\ <<5, 0>> # <<5, 255>> /\ <<5, 0>> # <<1, 1>> /\ <<1, 0>> # <<5, 255>> /\ <<1, 0>> # <<1, 1>>
  /\ <<5, 0>> # <<1, 0>>
OBVIOUS

(* What the client has heard last                                            *)
LEMMA HeardWhat ==
  ASSUME NEW msg
  PROVE  /\ outbox = <<>> => ~Heard(msg)
         /\ outbox = <<<<5, 2>>>> => (Heard(msg) <=> msg = <<5, 2>>)
         /\ Invited => (Heard(msg) => msg = <<5, 0>> \/ msg = <<1, 0>>)
         /\ Invited => \A i \in DOMAIN outbox : Len(outbox[i]) = 2
         /\ outbox \in {<<>>, <<<<5, 2>>>>} => \A i \in DOMAIN outbox : Len(outbox[i]) = 2
<1>1. outbox = <<>> => ~Heard(msg)
  BY DEF Heard
<1>2. CASE outbox = <<<<5, 2>>>>
  <2>1. Len(outbox) = 1 /\ outbox[1] = <<5, 2>> /\ outbox # <<>> /\ DOMAIN outbox = {1}
    BY <1>2
  <2>2. Len(outbox[1]) = 2
    BY <2>1
  <2>3. Heard(msg) <=> msg = <<5, 2>>
    BY <2>1 DEF Heard
  <2>4. \A i \in DOMAIN outbox : Len(outbox[i]) = 2
    BY <2>1, <2>2
  <2>5. ~Invited
    <3>1. <<5, 2>> # <<5, 0>> /\ Len(<<<<5, 2>>, <<1, 0>>>>) = 2 /\ <<<<5, 0>>>>[1] = <<5, 0>>
      OBVIOUS
    <3> QED BY <2>1, <3>1 DEF Invited
  <2> QED BY <2>1, <2>3, <2>4, <2>5
<1>3. CASE outbox = <<<<5, 0>>>>
  <2>1. Len(outbox) = 1 /\ outbox[1] = <<5, 0>> /\ outbox # <<>> /\ DOMAIN outbox = {1}
    BY <1>3
  <2>2. Len(outbox[1]) = 2 /\ <<5, 0>> # <<5, 2>>
    BY <2>1
  <2>3. Heard(msg) => msg = <<5, 0>>
    BY <2>1 DEF Heard
  <2>4. \A i \in DOMAIN outbox : Len(outbox[i]) = 2
    BY <2>1, <2>2
  <2>5. outbox # <<<<5, 2>>>>
    <3>1. <<<<5, 2>>>>[1] = <<5, 2>>
      OBVIOUS
    <3> QED BY <2>1, <2>2, <3>1
  <2> QED BY <2>1, <2>3, <2>4, <2>5
<1>4. CASE outbox = <<<<5, 2>>, <<1, 0>>>>
  <2>1. /\ Len(outbox) = 2 /\ outbox[1] = <<5, 2>> /\ outbox[2] = <<1, 0>>
        /\ outbox # <<>> /\ DOMAIN outbox = {1, 2}
    BY <1>4
  <2>2. Len(outbox[1]) = 2 /\ Len(outbox[2]) = 2
    BY <2>1
  <2>3. Heard(msg) => msg = <<1, 0>>
    BY <2>1 DEF Heard
  <2>4. \A i \in DOMAIN outbox : Len(outbox[i]) = 2
    BY <2>1, <2>2
  <2>5. Len(<<<<5, 2>>>>) = 1
    OBVIOUS
  <2> QED BY <2>1, <2>3, <2>4, <2>5
<1>5. outbox = <<>> => \A i \in DOMAIN outbox : Len(outbox[i]) = 2
  OBVIOUS
<1>6. outbox = <<>> => ~Invited
  <2>1. Len(<<>>) = 0 /\ Len(<<<<5, 0>>>>) = 1 /\ Len(<<<<5, 2>>, <<1, 0>>>>) = 2
    OBVIOUS
  <2> QED BY <2>1 DEF Invited
<1>7. Invited => outbox = <<<<5, 0>>>> \/ outbox = <<<<5, 2>>, <<1, 0>>>>
  BY DEF Invited
<1> QED BY <1>1, <1>2, <1>3, <1>4, <1>5, <1>6, <1>7

(****************************************************************************)
(* The steps of the client                                                   *)
(****************************************************************************)

(* The client sends its greeting (ClientGreets).                             *)
LEMMA ClientGreetsStep ==
  ASSUME IInv, ClientGreets
  PROVE  IInv'
<1>1. PICK g \in Greetings : Sends(<<5, Len(g)>> \o g) /\ said' = [said EXCEPT !.methods = g]
  BY DEF ClientGreets
<1>2. /\ said.methods = Nothing /\ pc = "greeting" /\ stream = <<>> /\ said.ask = Nothing
      /\ outbox = <<>> /\ said.creds = Nothing /\ silent \in BOOLEAN
  BY DEF ClientGreets, IInv, Turns, Greeting, TypeOK
<1>3. g \in Seq(Byte) /\ Len(g) <= 255 /\ g # Nothing
  BY Inputs
<1>4. GreetingBytes(g) \in Seq(Byte)
  BY <1>3, GreetingLayout
<1>5. /\ Awaits(stream', silent', GreetingBytes(g)) /\ silent' \in BOOLEAN
      /\ UNCHANGED <<config, thread, outbox, home, relay>>
  BY <1>1, <1>2, <1>4, SendsAwaits DEF GreetingBytes
<1>6. /\ said'.methods = g /\ said'.creds = Nothing /\ said'.ask = Nothing
      /\ said' \in [methods : Greetings \union {<<0>>, Nothing}, creds : Credentials \union {Nothing},
                    ask : Asks \union {Nothing}]
  BY <1>1, <1>2 DEF IInv, Types
<1>7. GreetingBytes(g) \o RequestOf(Nothing) = GreetingBytes(g)
  BY <1>4, ConcatEmptySeq DEF RequestOf
<1>8. /\ UNCHANGED <<auth, changes, inForce, pc, fate, snap, offered, req, egress>>
      /\ UNCHANGED <<outbox, home, src, last>>
  BY <1>5 DEF config, thread, relay
<1>9. fate = "open" /\ req = Nothing /\ last = Nothing
  BY <1>2 DEF IInv, Stages, Early
<1>10. TypeOK'
  BY <1>5, <1>8 DEF IInv, TypeOK
<1>11. Types'
  BY <1>6, <1>8 DEF IInv, Types
<1>12. Greeting'
  BY <1>2, <1>3, <1>5, <1>6, <1>7, <1>8 DEF Greeting
<1>13. Method' /\ Auth' /\ Requesting'
  BY <1>2, <1>8 DEF Method, Auth, Requesting
<1>14. Turns'
  BY <1>2, <1>3, <1>6, <1>8 DEF Turns, Heard
<1>15. Stages'
  BY <1>2, <1>8 DEF IInv, Stages, Served, Early, Invited
<1>16. Authorized'
  BY <1>2, <1>8, <1>9 DEF Authorized
<1>17. Understood'
  BY <1>2, <1>8, <1>9 DEF Understood
<1>18. Told'
  BY <1>8, ToldKept DEF IInv
<1>19. RoutedRight'
  BY <1>8, RoutedKept DEF IInv
<1> QED
  BY <1>10, <1>11, <1>12, <1>13, <1>14, <1>15, <1>16, <1>17, <1>18, <1>19 DEF IInv

(* The client sends its greeting and its request at once (ClientHurries).    *)
LEMMA ClientHurriesStep ==
  ASSUME IInv, ClientHurries
  PROVE  IInv'
<1>1. PICK a \in Asks : /\ Sends(<<5, 1, 0>> \o AskBytes(a) \o Payload)
                        /\ said' = [said EXCEPT !.methods = <<0>>, !.ask = a]
  BY DEF ClientHurries
<1>2. /\ said.methods = Nothing /\ pc = "greeting" /\ stream = <<>> /\ said.ask = Nothing
      /\ outbox = <<>> /\ said.creds = Nothing /\ silent \in BOOLEAN
  BY DEF ClientHurries, IInv, Turns, Greeting, TypeOK
<1>3. a \in Requests /\ Sized(a) /\ a # Nothing /\ Payload \in Seq(Byte) /\ <<0>> # Nothing
  BY Inputs
<1>4. AskBytes(a) \in Seq(Byte) /\ <<5, 1, 0>> \in Seq(Byte) /\ RequestOf(a) \in Seq(Byte)
      /\ RequestOf(a) = AskBytes(a) \o Payload
  <2>1. Len(a.host) <= 255
    BY <1>3 DEF Sized
  <2>2. AskBytes(a) \in Seq(Byte)
    BY <1>3, <2>1, AskLayout
  <2>3. <<5, 1, 0>> \in Seq(Byte)
    BY SmallBytes, Tuples
  <2>4. RequestOf(a) \in Seq(Byte)
    BY Requested
  <2> QED BY <1>3, <2>2, <2>3, <2>4 DEF RequestOf
<1>5. GreetingBytes(<<0>>) = <<5, 1, 0>>
  <2>1. <<0>> \in Seq(Byte) /\ Len(<<0>>) = 1 /\ <<0>>[1] = 0
    BY SmallBytes, Tuples
  <2>2. /\ Len(<<5, 1, 0>>) = 3
        /\ <<5, 1, 0>>[1] = 5 /\ <<5, 1, 0>>[2] = 1 /\ <<5, 1, 0>>[3] = 0
    BY SmallBytes, Tuples
  <2> DEFINE z == <<0>>
             m == GreetingBytes(z)
             t == <<5, 1, 0>>
  <2>z. z \in Seq(Byte) /\ Len(z) <= 255
    BY <2>1
  <2>t. m = GreetingBytes(<<0>>)
    OBVIOUS
  <2> HIDE DEF z
  <2>3. /\ m \in Seq(Byte) /\ Len(z) \in Nat /\ Len(m) = 2 + Len(z) /\ m[1] = 5 /\ m[2] = Len(z)
        /\ \A i \in 1..Len(z) : m[2 + i] = z[i]
    BY <2>z, GreetingLayout
  <2>4. /\ z \in Seq(Byte) /\ Len(z) = 1 /\ z[1] = 0
        /\ t \in Seq(Byte) /\ Len(t) = 3 /\ t[1] = 5 /\ t[2] = 1 /\ t[3] = 0
    BY <1>4, <2>1, <2>2 DEF z
  <2> HIDE DEF m, t
  <2>5. 1 \in 1..Len(z) /\ 2 + 1 = 3
    BY <2>4
  <2>6. m[3] = 0
    BY <2>3, <2>4, <2>5
  <2>7. Len(m) = 3 /\ m[1] = t[1] /\ m[2] = t[2] /\ m[3] = t[3]
    BY <2>3, <2>4, <2>6
  <2>8. \A i \in 1..3 : i \in {1, 2, 3}
    OBVIOUS
  <2>9. Len(m) = Len(t) /\ \A i \in 1..Len(m) : m[i] = t[i]
    BY <2>4, <2>7, <2>8
  <2>10. m = t
    BY ONLY <2>3, <2>4, <2>9, SeqEqual
  <2> QED BY <2>10, <2>t DEF t
<1>6. <<5, 1, 0>> \o AskBytes(a) \o Payload = GreetingBytes(<<0>>) \o RequestOf(a)
  <2> DEFINE x == <<5, 1, 0>>
             y == AskBytes(a)
  <2>1. x \in Seq(Byte) /\ y \in Seq(Byte) /\ Payload \in Seq(Byte)
    BY <1>3, <1>4
  <2> HIDE DEF x, y
  <2>2. (x \o y) \o Payload = x \o (y \o Payload)
    BY ONLY <2>1, Assoc, Zenon
  <2> QED BY <1>4, <1>5, <2>2 DEF x, y
<1>7. GreetingBytes(<<0>>) \o RequestOf(a) \in Seq(Byte)
  BY <1>4, <1>5, Joined
<1>8. /\ Awaits(stream', silent', GreetingBytes(<<0>>) \o RequestOf(a)) /\ silent' \in BOOLEAN
      /\ UNCHANGED <<config, thread, outbox, home, relay>>
  BY <1>1, <1>2, <1>6, <1>7, SendsAwaits
<1>9. /\ said'.methods = <<0>> /\ said'.creds = Nothing /\ said'.ask = a
      /\ said' \in [methods : Greetings \union {<<0>>, Nothing}, creds : Credentials \union {Nothing},
                    ask : Asks \union {Nothing}]
  BY <1>1, <1>2 DEF IInv, Types
<1>10. /\ UNCHANGED <<auth, changes, inForce, pc, fate, snap, offered, req, egress>>
       /\ UNCHANGED <<outbox, home, src, last>>
  BY <1>8 DEF config, thread, relay
<1>11. fate = "open" /\ req = Nothing /\ last = Nothing
  BY <1>2 DEF IInv, Stages, Early
<1>12. TypeOK'
  BY <1>8, <1>10 DEF IInv, TypeOK
<1>13. Types'
  BY <1>9, <1>10 DEF IInv, Types
<1>14. Greeting'
  BY <1>2, <1>3, <1>8, <1>9, <1>10 DEF Greeting
<1>15. Method' /\ Auth' /\ Requesting'
  BY <1>2, <1>10 DEF Method, Auth, Requesting
<1>16. Turns'
  BY <1>2, <1>3, <1>9, <1>10 DEF Turns, Heard
<1>17. Stages'
  BY <1>2, <1>10 DEF IInv, Stages, Served, Early, Invited
<1>18. Authorized' /\ Understood'
  BY <1>2, <1>10, <1>11 DEF Authorized, Understood
<1>19. Told'
  BY <1>10, ToldKept DEF IInv
<1>20. RoutedRight'
  BY <1>10, RoutedKept DEF IInv
<1> QED
  BY <1>12, <1>13, <1>14, <1>15, <1>16, <1>17, <1>18, <1>19, <1>20 DEF IInv

(* The client sends its credentials (ClientAuthenticates).                   *)
LEMMA ClientAuthenticatesStep ==
  ASSUME IInv, ClientAuthenticates
  PROVE  IInv'
<1>1. PICK c \in Credentials : /\ Sends(CredBytes(c))
                               /\ said' = [said EXCEPT !.creds = c]
  BY DEF ClientAuthenticates, CredBytes
<1>2. ~silent /\ Heard(<<5, 2>>) /\ said.creds = Nothing
  BY <1>1 DEF ClientAuthenticates, Sends
<1>3. pc = "auth" /\ silent \in BOOLEAN
  BY <1>2 DEF IInv, Turns, TypeOK
<1>4. /\ outbox = <<<<5, 2>>>> /\ said.ask = Nothing /\ snap \in inForce /\ snap.on
      /\ \E i \in DOMAIN said.methods : said.methods[i] = 2
      /\ Awaits(stream, silent, CredsOf(said.creds))
  BY <1>3 DEF IInv, Auth
<1>5. stream = <<>>
  BY <1>2, <1>4, AwaitsNothing DEF CredsOf
<1>6. c \in Seq(Byte) \X Seq(Byte) /\ c # Nothing /\ Len(c[1]) \in 1..255 /\ Len(c[2]) \in 0..255
  BY Inputs
<1>7. CredBytes(c) \in Seq(Byte)
  <2>1. \A n \in 0..255 : n <= 255
    OBVIOUS
  <2>2. \A n \in 1..255 : n <= 255
    OBVIOUS
  <2>3. Len(c[1]) <= 255 /\ Len(c[2]) <= 255
    BY <1>6, <2>1, <2>2
  <2> QED BY <1>6, <2>3, CredLayout
<1>8. /\ Awaits(stream', silent', CredBytes(c)) /\ silent' \in BOOLEAN
      /\ UNCHANGED <<config, thread, outbox, home, relay>>
  BY <1>1, <1>3, <1>5, <1>7, SendsAwaits
<1>9. /\ said'.methods = said.methods /\ said'.creds = c /\ said'.ask = Nothing
      /\ said' \in [methods : Greetings \union {<<0>>, Nothing}, creds : Credentials \union {Nothing},
                    ask : Asks \union {Nothing}]
  BY <1>1, <1>4 DEF IInv, Types
<1>10. /\ UNCHANGED <<auth, changes, inForce, pc, fate, snap, offered, req, egress>>
       /\ UNCHANGED <<outbox, home, src, last>>
  BY <1>8 DEF config, thread, relay
<1>11. fate = "open" /\ req = Nothing /\ last = Nothing
  BY <1>3 DEF IInv, Stages, Early
<1>12. TypeOK'
  BY <1>8, <1>10 DEF IInv, TypeOK
<1>13. Types'
  BY <1>9, <1>10 DEF IInv, Types
<1>14. Greeting' /\ Method' /\ Requesting'
  BY <1>3, <1>10 DEF Greeting, Method, Requesting
<1>15. CredsOf(said'.creds) = CredBytes(c)
  BY <1>6, <1>9 DEF CredsOf
<1>16. Auth'
  BY <1>4, <1>8, <1>9, <1>10, <1>15 DEF Auth
<1>17. Turns'
  <2>1. ~Heard(<<5, 0>>) /\ ~Heard(<<1, 0>>)
    BY <1>4, HeardWhat, Greetings2
  <2>2. \A msg : Heard(msg)' <=> Heard(msg)
    BY <1>10 DEF Heard
  <2> QED BY <1>3, <1>9, <1>10, <2>1, <2>2 DEF IInv, Turns
<1>18. Stages'
  BY <1>3, <1>10 DEF IInv, Stages, Served, Early, Invited
<1>19. Authorized' /\ Understood'
  BY <1>3, <1>10, <1>11 DEF Authorized, Understood
<1>20. Told'
  BY <1>10, ToldKept DEF IInv
<1>21. RoutedRight'
  BY <1>10, RoutedKept DEF IInv
<1> QED
  BY <1>12, <1>13, <1>14, <1>16, <1>17, <1>18, <1>19, <1>20, <1>21 DEF IInv

(* The client sends its request (ClientAsks).                                *)
LEMMA ClientAsksStep ==
  ASSUME IInv, ClientAsks
  PROVE  IInv'
<1>1. PICK a \in Asks : Sends(AskBytes(a) \o Payload) /\ said' = [said EXCEPT !.ask = a]
  BY DEF ClientAsks
<1>2. ~silent /\ (Heard(<<5, 0>>) \/ Heard(<<1, 0>>)) /\ said.ask = Nothing
  BY <1>1 DEF ClientAsks, Sends
<1>3. pc = "request" /\ silent \in BOOLEAN
  BY <1>2 DEF IInv, Turns, TypeOK
<1>4. Invited /\ Awaits(stream, silent, RequestOf(said.ask))
  BY <1>3 DEF IInv, Requesting, Stages
<1>5. stream = <<>>
  BY <1>2, <1>4, AwaitsNothing DEF RequestOf
<1>6. a # Nothing /\ RequestOf(a) \in Seq(Byte) /\ RequestOf(a) = AskBytes(a) \o Payload
  BY Inputs, Requested DEF RequestOf
<1>7. /\ Awaits(stream', silent', RequestOf(a)) /\ silent' \in BOOLEAN
      /\ UNCHANGED <<config, thread, outbox, home, relay>>
  BY <1>1, <1>3, <1>5, <1>6, SendsAwaits
<1>8. /\ said'.methods = said.methods /\ said'.creds = said.creds /\ said'.ask = a
      /\ said' \in [methods : Greetings \union {<<0>>, Nothing}, creds : Credentials \union {Nothing},
                    ask : Asks \union {Nothing}]
  BY <1>1 DEF IInv, Types
<1>9. /\ UNCHANGED <<auth, changes, inForce, pc, fate, snap, offered, req, egress>>
      /\ UNCHANGED <<outbox, home, src, last>>
  BY <1>7 DEF config, thread, relay
<1>10. fate = "open" /\ req = Nothing /\ last = Nothing
  BY <1>3 DEF IInv, Stages, Early
<1>11. TypeOK'
  BY <1>7, <1>9 DEF IInv, TypeOK
<1>12. Types'
  BY <1>8, <1>9 DEF IInv, Types
<1>13. Greeting' /\ Method' /\ Auth'
  BY <1>3, <1>9 DEF Greeting, Method, Auth
<1>14. Requesting'
  BY <1>7, <1>8 DEF Requesting
<1>15. Turns'
  <2>1. ~Heard(<<5, 2>>)
    BY <1>4, HeardWhat, Greetings2
  <2>2. \A msg : Heard(msg)' <=> Heard(msg)
    BY <1>9 DEF Heard
  <2> QED BY <1>3, <1>6, <1>8, <1>9, <2>1, <2>2 DEF IInv, Turns
<1>16. Stages'
  BY <1>3, <1>9 DEF IInv, Stages, Served, Early, Invited
<1>17. Authorized'
  <2>1. \A c : Admits(c)' <=> Admits(c)
    BY <1>8 DEF Admits
  <2> QED BY <1>9, <2>1 DEF IInv, Authorized
<1>18. Understood'
  BY <1>9, <1>10 DEF Understood
<1>19. Told'
  BY <1>9, ToldKept DEF IInv
<1>20. RoutedRight'
  BY <1>9, RoutedKept DEF IInv
<1> QED
  BY <1>11, <1>12, <1>13, <1>14, <1>15, <1>16, <1>17, <1>18, <1>19, <1>20 DEF IInv

(****************************************************************************)
(* The steps of the user and of the handshake thread                         *)
(****************************************************************************)

(* The user changes the credentials (socks5_server_set_auth).                *)
LEMMA SetAuthStep ==
  ASSUME IInv, socks5_server_set_auth
  PROVE  IInv'
<1>1. PICK s \in Settings : auth' = Stored(s) /\ inForce' = inForce \union {Stored(s)}
  BY DEF socks5_server_set_auth
<1>2. /\ changes < MaxChanges /\ pc \notin Ended /\ changes' = changes + 1
      /\ UNCHANGED <<pc, fate, snap, offered, req, egress>>
      /\ UNCHANGED <<stream, silent, said, outbox, home, src, last>>
  BY DEF socks5_server_set_auth, thread, client, relay
<1>3. inForce \subseteq inForce' /\ auth' \in inForce'
  BY <1>1
<1>4. \A c : Admits(c)' <=> Admits(c)
  BY <1>2 DEF Admits
<1>5. \A msg : Heard(msg)' <=> Heard(msg)
  BY <1>2 DEF Heard
<1>6. TypeOK'
  <2>1. changes' \in 0..MaxChanges
    BY <1>2, HandshakeAssumption DEF IInv, TypeOK
  <2>2. /\ auth' \in {Stored(t) : t \in Settings} /\ auth' \in inForce'
        /\ inForce' \subseteq {Stored(t) : t \in Settings}
    BY <1>1 DEF IInv, TypeOK
  <2>3. /\ pc' \in {"greeting", "method", "auth", "request", "connect", "udp"} \union Ended
        /\ silent' \in BOOLEAN /\ egress' \in BOOLEAN /\ src' \in Senders \union {Nothing}
    BY <1>2 DEF IInv, TypeOK
  <2> QED BY <2>1, <2>2, <2>3 DEF TypeOK
<1>7. Types'
  BY <1>2 DEF IInv, Types
<1>8. Greeting' /\ Method' /\ Requesting'
  BY <1>2 DEF IInv, Greeting, Method, Requesting
<1>9. Auth'
  BY <1>2, <1>3 DEF IInv, Auth
<1>10. Turns'
  BY <1>2, <1>5 DEF IInv, Turns
<1>11. Stages'
  BY <1>2 DEF IInv, Stages, Invited
<1>12. Authorized'
  BY <1>2, <1>3, <1>4 DEF IInv, Authorized
<1>13. Understood'
  BY <1>2 DEF IInv, Understood
<1>14. Told'
  BY <1>2, ToldKept DEF IInv
<1>15. RoutedRight'
  BY <1>2, RoutedKept DEF IInv
<1> QED
  BY <1>6, <1>7, <1>8, <1>9, <1>10, <1>11, <1>12, <1>13, <1>14, <1>15 DEF IInv

(* What holds before the request is served                                   *)
LEMMA Unserved ==
  ASSUME IInv, pc \in Early \union {"connect", "udp"}
  PROVE  /\ last = Nothing /\ fate = "open" /\ ~egress /\ pc \notin Ended
         /\ pc \in Early => req = Nothing
         /\ \A i \in DOMAIN outbox : Len(outbox[i]) = 2
<1>1. pc \notin Ended
  BY DEF Early, Ended
<1>2. pc # "associated"
  BY DEF Early
<1>3. fate = "open" /\ ~egress /\ (pc \in Early => req = Nothing) /\ last = Nothing
  BY <1>2 DEF IInv, Stages
<1>4. outbox \in {<<>>, <<<<5, 2>>>>} \/ Invited
  BY DEF IInv, Greeting, Method, Auth, Stages, Early
<1>5. \A i \in DOMAIN outbox : Len(outbox[i]) = 2
  BY <1>4, HeardWhat
<1> QED BY <1>1, <1>3, <1>5

(* A message that breaks the protocol or does not come (recv in every        *)
(* function of the handshake).                                               *)
LEMMA MisreadStep ==
  ASSUME IInv, NEW r, Misread(r), pc \in {"greeting", "auth", "request"}, said.methods # Nothing,
         \/ silent
         \/ pc = "greeting" /\ said.methods = <<>>
         \/ pc = "request" /\ said.ask # Nothing /\ ~ValidAsk(said.ask)
  PROVE  IInv'
<1>1. /\ pc' = "closed" /\ fate' = "rejected"
      /\ UNCHANGED <<auth, changes, inForce, snap, offered, req, egress>>
      /\ UNCHANGED <<stream, silent, said, outbox, home, src, last>>
  BY DEF Misread, Closes, config, client, relay
<1>2. /\ last = Nothing /\ fate = "open" /\ ~egress /\ req = Nothing
      /\ \A i \in DOMAIN outbox : Len(outbox[i]) = 2
  BY Unserved DEF Early
<1>3. \A msg : Heard(msg)' <=> Heard(msg)
  BY <1>1 DEF Heard
<1>4. TypeOK'
  BY <1>1 DEF IInv, TypeOK, Ended
<1>5. Types'
  BY <1>1 DEF IInv, Types
<1>6. Greeting' /\ Method' /\ Auth' /\ Requesting'
  BY <1>1 DEF Greeting, Method, Auth, Requesting
<1>7. Turns'
  <2>1. pc = "greeting" => \A msg : ~Heard(msg)
    BY HeardWhat DEF IInv, Greeting
  <2>2. pc = "request" => ~Heard(<<5, 2>>)
    BY HeardWhat, Greetings2 DEF IInv, Stages
  <2>3. pc = "auth" => ~Heard(<<5, 0>>) /\ ~Heard(<<1, 0>>)
    BY HeardWhat, Greetings2 DEF IInv, Auth
  <2> QED BY <1>1, <1>3, <2>1, <2>2, <2>3 DEF Turns
<1>8. Stages'
  BY <1>1, <1>2 DEF IInv, Stages, Early, Served
<1>9. Authorized'
  BY <1>1 DEF Authorized
<1>10. Understood'
  BY <1>1, <1>2 DEF Understood
<1>11. Told'
  BY <1>1, <1>2, NotToldNext
<1>12. RoutedRight'
  BY <1>1, RoutedKept DEF IInv
<1> QED
  BY <1>4, <1>5, <1>6, <1>7, <1>8, <1>9, <1>10, <1>11, <1>12 DEF IInv

(* An empty stream holds no message.                                         *)
LEMMA EmptyIsShort ==
  GreetingIn(<<>>) = Short /\ CredentialsIn(<<>>) = Short /\ RequestIn(<<>>) = Short /\ Short.is = "short"
<1>1. Len(<<>>) = 0 /\ 0 < 2 /\ 0 < 4
  OBVIOUS
<1> QED BY <1>1 DEF GreetingIn, CredentialsIn, RequestIn, Short

(* The greeting is read (ReadGreeting).                                      *)
LEMMA ReadGreetingStep ==
  ASSUME IInv, ReadGreeting
  PROVE  IInv'
<1> DEFINE r == GreetingIn(stream)
           g == said.methods
           rest == RequestOf(said.ask)
<1>1. pc = "greeting"
  BY DEF ReadGreeting
<1>2. \/ Misread(r)
      \/ /\ r.is = "whole" /\ stream' = From(stream, r.used) /\ offered' = r.value /\ pc' = "method"
         /\ UNCHANGED <<auth, changes, inForce, fate, snap, req, egress>>
         /\ UNCHANGED <<silent, said, outbox, home, src, last>>
  BY DEF ReadGreeting, Consume, config, relay
<1>3. /\ outbox = <<>> /\ said.creds = Nothing
      /\ g = Nothing => stream = <<>> /\ said.ask = Nothing /\ ~silent
      /\ g # Nothing => Awaits(stream, silent, GreetingBytes(g) \o rest)
      /\ said.ask # Nothing => g = <<0>>
  BY <1>1 DEF IInv, Greeting
<1>4. g # Nothing
  <2>1. SUFFICES ASSUME g = Nothing PROVE FALSE
    OBVIOUS
  <2>2. r.is = "short" /\ ~silent
    BY <1>3, <2>1, EmptyIsShort
  <2> HIDE DEF r
  <2> QED BY <1>2, <2>2 DEF Misread
<1>5. g \in Seq(Byte) /\ Len(g) <= 255 /\ said.ask \in Asks \union {Nothing}
  BY <1>4, Inputs DEF IInv, Types
<1>6. rest \in Seq(Byte) /\ Begins(stream, GreetingBytes(g) \o rest)
  BY <1>3, <1>4, <1>5, Requested DEF Awaits
<1>7. /\ r.is = "bad" => g = <<>>
      /\ r.is = "whole" => /\ r.value = g
                           /\ Begins(From(stream, r.used), rest)
                           /\ Len(From(stream, r.used)) = Len(stream) - (2 + Len(g))
  BY <1>5, <1>6, GreetingRead
<1>8. CASE Misread(r)
  <2>1. silent \/ g = <<>>
    BY <1>7, <1>8 DEF Misread
  <2> QED BY <1>1, <1>4, <1>8, <2>1, MisreadStep
<1> HIDE DEF r
<1>9. CASE ~Misread(r)
  <2>1. /\ r.is = "whole" /\ stream' = From(stream, r.used) /\ offered' = g /\ pc' = "method"
        /\ UNCHANGED <<auth, changes, inForce, fate, snap, req, egress>>
        /\ UNCHANGED <<silent, said, outbox, home, src, last>>
    BY <1>2, <1>7, <1>9
  <2>2. last = Nothing /\ fate = "open" /\ ~egress /\ req = Nothing
    BY <1>1, Unserved DEF Early
  <2>3. Awaits(stream', silent', rest)
    <3>1. Begins(stream', rest) /\ Len(stream') = Len(stream) - (2 + Len(g))
      BY <1>7, <2>1
    <3>2. /\ Len(GreetingBytes(g) \o rest) = (2 + Len(g)) + Len(rest)
          /\ Len(g) \in Nat /\ Len(rest) \in Nat /\ Len(stream) \in Nat
      <4>1. GreetingBytes(g) \in Seq(Byte) /\ Len(GreetingBytes(g)) = 2 + Len(g) /\ Len(g) \in Nat
        BY <1>5, GreetingLayout
      <4>2. stream \in Seq(Byte)
        BY <1>6 DEF Begins
      <4>3. Len(GreetingBytes(g) \o rest) = Len(GreetingBytes(g)) + Len(rest) /\ Len(rest) \in Nat
        BY <1>6, <4>1, Joined
      <4> QED BY <4>1, <4>2, <4>3, LenProperties
    <3>3. Len(stream) < Len(GreetingBytes(g) \o rest) => silent
      BY <1>3, <1>4 DEF Awaits
    <3>4. Len(stream') < Len(rest) => silent'
      <4>1. Len(stream') < Len(rest) => Len(stream) < Len(GreetingBytes(g) \o rest)
        <5>1. \A k, l, m, n \in Nat : l - (2 + k) < m /\ n = (2 + k) + m => l < n
          OBVIOUS
        <5>2. Len(GreetingBytes(g) \o rest) \in Nat
          <6>1. GreetingBytes(g) \o rest \in Seq(Byte)
            BY <1>5, <1>6, GreetingLayout, Joined
          <6> HIDE DEF g, rest
          <6> QED BY <6>1, LenProperties
        <5> QED BY <3>1, <3>2, <5>1, <5>2
      <4> QED BY <2>1, <3>3, <4>1
    <3> QED BY <3>1, <3>4 DEF Awaits
  <2> HIDE DEF g
  <2>4. TypeOK'
    BY <2>1 DEF IInv, TypeOK
  <2>5. Types'
    BY <2>1 DEF IInv, Types
  <2>6. Greeting' /\ Auth' /\ Requesting'
    BY <2>1 DEF Greeting, Auth, Requesting
  <2>7. Method'
    BY <1>3, <2>1, <2>3 DEF Method, g
  <2>8. Turns'
    BY <1>3, <1>4, <2>1 DEF Turns, Heard, g
  <2>9. Stages'
    BY <2>1, <2>2 DEF IInv, Stages, Early, Served
  <2>10. Authorized' /\ Understood'
    BY <2>1, <2>2 DEF Authorized, Understood
  <2>11. Told'
    BY <2>1, ToldKept DEF IInv
  <2>12. RoutedRight'
    BY <2>1, RoutedKept DEF IInv
  <2> QED
    BY <2>4, <2>5, <2>6, <2>7, <2>8, <2>9, <2>10, <2>11, <2>12 DEF IInv
<1> QED BY <1>8, <1>9

(* What is said to the client comes behind what it was told before.          *)
LEMMA SaysLast ==
  ASSUME NEW msg
  PROVE  /\ Append(<<>>, msg) = <<msg>>
         /\ Append(<<<<5, 2>>>>, msg) = <<<<5, 2>>, msg>>
         /\ Append(<<<<5, 0>>>>, msg) = <<<<5, 0>>, msg>>
         /\ Append(<<<<5, 2>>, <<1, 0>>>>, msg) = <<<<5, 2>>, <<1, 0>>, msg>>
<1>1. Append(<<>>, msg) = <<msg>>
  OBVIOUS
<1>2. ASSUME NEW x
      PROVE  Append(<<x>>, msg) = <<x, msg>>
  <2>1. <<x>> \in Seq({x, msg}) /\ <<x, msg>> \in Seq({x, msg})
    OBVIOUS
  <2>2. /\ Append(<<x>>, msg) \in Seq({x, msg}) /\ Len(Append(<<x>>, msg)) = 2
        /\ Append(<<x>>, msg)[1] = x /\ Append(<<x>>, msg)[2] = msg
    BY <2>1, AppendProperties
  <2>3. Len(<<x, msg>>) = 2 /\ <<x, msg>>[1] = x /\ <<x, msg>>[2] = msg
    OBVIOUS
  <2>4. \A i \in 1..2 : i = 1 \/ i = 2
    OBVIOUS
  <2>5. \A i \in 1..2 : Append(<<x>>, msg)[i] = <<x, msg>>[i]
    BY ONLY <2>2, <2>3, <2>4
  <2> QED BY ONLY <2>1, <2>2, <2>3, <2>5, SeqEqual
<1>3. ASSUME NEW x, NEW y
      PROVE  Append(<<x, y>>, msg) = <<x, y, msg>>
  <2>1. <<x, y>> \in Seq({x, y, msg}) /\ <<x, y, msg>> \in Seq({x, y, msg})
    OBVIOUS
  <2>2. /\ Append(<<x, y>>, msg) \in Seq({x, y, msg}) /\ Len(Append(<<x, y>>, msg)) = 3
        /\ Append(<<x, y>>, msg)[1] = x /\ Append(<<x, y>>, msg)[2] = y
        /\ Append(<<x, y>>, msg)[3] = msg
    BY <2>1, AppendProperties
  <2>3. Len(<<x, y, msg>>) = 3 /\ <<x, y, msg>>[1] = x /\ <<x, y, msg>>[2] = y /\ <<x, y, msg>>[3] = msg
    OBVIOUS
  <2>4. \A i \in 1..3 : i = 1 \/ i = 2 \/ i = 3
    OBVIOUS
  <2>5. \A i \in 1..3 : Append(<<x, y>>, msg)[i] = <<x, y, msg>>[i]
    BY ONLY <2>2, <2>3, <2>4
  <2> QED BY ONLY <2>1, <2>2, <2>3, <2>5, SeqEqual
<1> QED BY <1>1, <1>2, <1>3

(* The method is selected, or the client refused (SelectMethod).             *)
LEMMA SelectMethodStep ==
  ASSUME IInv, SelectMethod
  PROVE  IInv'
<1> DEFINE desired == IF auth.on THEN 2 ELSE 0
<1>1. /\ pc = "method" /\ snap' = auth
      /\ UNCHANGED <<auth, changes, inForce, offered, req, egress>>
      /\ UNCHANGED <<stream, silent, said, home, src, last>>
      /\ \/ /\ socks5_method_offered(offered, desired) /\ outbox' = Append(outbox, <<5, desired>>)
            /\ pc' = (IF auth.on THEN "auth" ELSE "request") /\ fate' = fate
         \/ /\ ~socks5_method_offered(offered, desired) /\ outbox' = Append(outbox, <<5, 255>>)
            /\ pc' = "closed" /\ fate' = "refused"
  BY DEF SelectMethod, Says, Closes, config, client, relay
<1>2. /\ outbox = <<>> /\ said.creds = Nothing /\ offered = said.methods
      /\ Awaits(stream, silent, RequestOf(said.ask))
      /\ said.ask # Nothing => said.methods = <<0>>
  BY <1>1 DEF IInv, Method
<1>3. last = Nothing /\ fate = "open" /\ ~egress /\ req = Nothing
  BY <1>1, Unserved DEF Early
<1>4. said.methods # Nothing
  BY <1>1 DEF IInv, Turns
<1>5. auth \in inForce /\ auth.on \in BOOLEAN
  <2>1. PICK s \in Settings : auth = Stored(s)
    BY DEF IInv, TypeOK
  <2> QED BY <2>1 DEF IInv, TypeOK, Stored, Off
<1>6. pc' \in {"auth", "request", "closed"}
  BY <1>1
<1>7. TypeOK'
  BY <1>1, <1>6 DEF IInv, TypeOK, Ended
<1>8. Types'
  BY <1>1 DEF IInv, Types
<1>9. Greeting' /\ Method'
  BY <1>6 DEF Greeting, Method
<1>10. RoutedRight'
  BY <1>1, RoutedKept DEF IInv
<1>11. \A c : Admits(c)' <=> Admits(c)
  BY <1>1 DEF Admits
<1>12. CASE ~socks5_method_offered(offered, desired)
  <2>1. outbox' = <<<<5, 255>>>> /\ pc' = "closed" /\ fate' = "refused"
    BY <1>1, <1>2, <1>12, SaysLast
  <2>2. /\ outbox' # <<>> /\ outbox'[Len(outbox')] = <<5, 255>>
        /\ \A i \in DOMAIN outbox' : Len(outbox'[i]) = 2
    BY <2>1
  <2>3. ~Admits(auth)
    BY <1>2, <1>5, <1>12 DEF Admits, socks5_method_offered
  <2>4. Auth' /\ Requesting'
    BY <2>1 DEF Auth, Requesting
  <2>5. Turns'
    BY <1>1, <1>4, <2>2, Greetings2 DEF Turns, Heard
  <2>6. Stages'
    BY <1>1, <1>3, <2>1, <2>2 DEF IInv, Stages, Early, Served
  <2>7. Authorized'
    BY <1>1, <1>5, <1>11, <2>1, <2>3 DEF Authorized
  <2>8. Understood'
    BY <1>1, <1>3, <2>1 DEF Understood
  <2>9. Told'
    BY <1>1, <1>3, <2>1, <2>2, NotToldNext
  <2> QED
    BY <1>7, <1>8, <1>9, <1>10, <2>4, <2>5, <2>6, <2>7, <2>8, <2>9 DEF IInv
<1>13. CASE socks5_method_offered(offered, desired) /\ auth.on
  <2>1. outbox' = <<<<5, 2>>>> /\ pc' = "auth" /\ fate' = "open"
    BY <1>1, <1>2, <1>3, <1>13, SaysLast
  <2>2. /\ outbox' # <<>> /\ outbox'[Len(outbox')] = <<5, 2>>
        /\ \A i \in DOMAIN outbox' : Len(outbox'[i]) = 2
    BY <2>1
  <2>3. \E i \in DOMAIN said.methods : said.methods[i] = 2
    BY <1>2, <1>13 DEF socks5_method_offered
  <2>4. said.ask = Nothing
    <3>1. <<0>>[1] = 0 /\ DOMAIN <<0>> = {1}
      OBVIOUS
    <3> QED BY <1>2, <2>3, <3>1
  <2>5. Awaits(stream, silent, CredsOf(said.creds))
    BY <1>2, <2>4 DEF CredsOf, RequestOf
  <2>6. Auth'
    BY <1>1, <1>5, <1>13, <2>1, <2>3, <2>4, <2>5 DEF Auth
  <2>7. Requesting'
    BY <2>1 DEF Requesting
  <2>8. Turns'
    BY <1>1, <1>4, <2>1, <2>2, Greetings2 DEF Turns, Heard
  <2>9. Stages'
    BY <1>1, <1>3, <2>1 DEF IInv, Stages, Early, Served
  <2>10. Authorized' /\ Understood'
    BY <1>1, <1>3, <2>1 DEF Authorized, Understood
  <2>11. Told'
    BY <1>1, <1>3, <2>1, <2>2, NotToldNext
  <2> QED
    BY <1>7, <1>8, <1>9, <1>10, <2>6, <2>7, <2>8, <2>9, <2>10, <2>11 DEF IInv
<1>14. CASE socks5_method_offered(offered, desired) /\ ~auth.on
  <2>1. outbox' = <<<<5, 0>>>> /\ pc' = "request" /\ fate' = "open"
    BY <1>1, <1>2, <1>3, <1>14, SaysLast
  <2>2. /\ outbox' # <<>> /\ outbox'[Len(outbox')] = <<5, 0>> /\ Invited'
        /\ \A i \in DOMAIN outbox' : Len(outbox'[i]) = 2
    BY <2>1 DEF Invited
  <2>3. Admits(auth)
    BY <1>2, <1>14 DEF Admits, socks5_method_offered
  <2>4. Auth'
    BY <2>1 DEF Auth
  <2>5. Requesting'
    BY <1>1, <1>2, <2>1 DEF Requesting
  <2>6. Turns'
    BY <1>1, <1>4, <2>1, <2>2, Greetings2 DEF Turns, Heard
  <2>7. Stages'
    BY <1>1, <1>3, <2>1, <2>2 DEF IInv, Stages, Early, Served
  <2>8. Authorized'
    BY <1>1, <1>5, <1>11, <2>1, <2>3 DEF Authorized
  <2>9. Understood'
    BY <1>1, <1>3, <2>1 DEF Understood
  <2>10. Told'
    BY <1>1, <1>3, <2>1, <2>2, NotToldNext
  <2> QED
    BY <1>7, <1>8, <1>9, <1>10, <2>4, <2>5, <2>6, <2>7, <2>8, <2>9, <2>10 DEF IInv
<1> QED BY <1>5, <1>12, <1>13, <1>14

(* The credentials are checked (do_auth_check).                              *)
LEMMA AuthCheckStep ==
  ASSUME IInv, do_auth_check
  PROVE  IInv'
<1> DEFINE r == CredentialsIn(stream)
           c == said.creds
           right == socks5_check_credentials(r.value.user, r.value.pass, Expected)
<1>1. pc = "auth"
  BY DEF do_auth_check
<1>2. \/ Misread(r)
      \/ /\ r.is = "whole" /\ stream' = From(stream, r.used)
         /\ \/ right /\ outbox' = Append(outbox, <<1, 0>>) /\ pc' = "request" /\ fate' = fate
            \/ ~right /\ outbox' = Append(outbox, <<1, 1>>) /\ pc' = "closed" /\ fate' = "refused"
         /\ UNCHANGED <<auth, changes, inForce, snap, offered, req, egress>>
         /\ UNCHANGED <<silent, said, home, src, last>>
  BY DEF do_auth_check, Consume, Says, Closes, config, relay
<1>3. /\ outbox = <<<<5, 2>>>> /\ said.ask = Nothing /\ snap \in inForce /\ snap.on
      /\ \E i \in DOMAIN said.methods : said.methods[i] = 2
      /\ Awaits(stream, silent, CredsOf(c))
  BY <1>1 DEF IInv, Auth
<1>4. said.methods # Nothing
  BY <1>1 DEF IInv, Turns
<1>5. c = Nothing => r.is = "short"
  BY <1>3, AwaitsNothing, EmptyIsShort DEF CredsOf
<1>6. c # Nothing => /\ r.is # "bad"
                     /\ r.is = "whole" => /\ r.value = [user |-> c[1], pass |-> c[2]]
                                          /\ From(stream, r.used) = <<>>
  <2>1. SUFFICES ASSUME c # Nothing
                 PROVE  /\ r.is # "bad"
                        /\ r.is = "whole" => /\ r.value = [user |-> c[1], pass |-> c[2]]
                                             /\ From(stream, r.used) = <<>>
    OBVIOUS
  <2>2. c \in Credentials
    BY <2>1 DEF IInv, Types
  <2>3. c \in Seq(Byte) \X Seq(Byte) /\ Len(c[1]) \in 1..255 /\ Len(c[2]) \in 0..255
    BY <2>2, Inputs
  <2>4. Begins(stream, CredBytes(c))
    BY <1>3, <2>1 DEF CredsOf, Awaits
  <2> QED BY <2>3, <2>4, CredRead
<1>7. last = Nothing /\ fate = "open" /\ ~egress /\ req = Nothing
  BY <1>1, Unserved DEF Early
<1>8. CASE Misread(r)
  <2>1. silent
    BY <1>5, <1>6, <1>8 DEF Misread
  <2> QED BY <1>1, <1>4, <1>8, <2>1, MisreadStep
<1>9. CASE ~Misread(r)
  <2>1. /\ r.is = "whole" /\ stream' = From(stream, r.used)
        /\ \/ right /\ outbox' = Append(outbox, <<1, 0>>) /\ pc' = "request" /\ fate' = "open"
           \/ ~right /\ outbox' = Append(outbox, <<1, 1>>) /\ pc' = "closed" /\ fate' = "refused"
        /\ UNCHANGED <<auth, changes, inForce, snap, offered, req, egress>>
        /\ UNCHANGED <<silent, said, home, src, last>>
    BY <1>2, <1>7, <1>9
  <2>2. c # Nothing /\ r.value = [user |-> c[1], pass |-> c[2]] /\ stream' = <<>>
    BY <1>5, <1>6, <2>1
  <2>3. right <=> c[1] = snap.user /\ c[2] = snap.pass
    BY <2>2 DEF socks5_check_credentials, Expected
  <2> HIDE DEF r, right
  <2>4. c \in Seq(Byte) \X Seq(Byte)
    BY <2>2, Inputs DEF IInv, Types
  <2>5. right <=> c = <<snap.user, snap.pass>>
    BY <2>3, <2>4
  <2>6. right <=> Admits(snap)
    BY <1>3, <2>5 DEF Admits
  <2>7. pc' \in {"request", "closed"}
    BY <2>1
  <2>8. TypeOK'
    BY <2>1, <2>7 DEF IInv, TypeOK, Ended
  <2>9. Types'
    BY <2>1 DEF IInv, Types
  <2>10. Greeting' /\ Method' /\ Auth'
    BY <2>7 DEF Greeting, Method, Auth
  <2>11. RoutedRight'
    BY <2>1, RoutedKept DEF IInv
  <2>12. \A x : Admits(x)' <=> Admits(x)
    BY <2>1 DEF Admits
  <2>13. Requesting'
    <3>1. Len(<<>>) = 0 /\ <<>> \in Seq(Byte) /\ RequestOf(said'.ask) = <<>> /\ ~(0 < 0)
      BY <1>3, <2>1, EmptySeq DEF RequestOf
    <3>2. Awaits(stream', silent', RequestOf(said'.ask))
      BY <2>2, <3>1 DEF Awaits, Begins
    <3> QED BY <3>2 DEF Requesting
  <2>14. CASE right
    <3>1. outbox' = <<<<5, 2>>, <<1, 0>>>> /\ pc' = "request" /\ fate' = "open"
      BY <1>3, <2>1, <2>14, SaysLast
    <3>2. /\ outbox' # <<>> /\ outbox'[Len(outbox')] = <<1, 0>> /\ Invited'
          /\ \A i \in DOMAIN outbox' : Len(outbox'[i]) = 2
      BY <3>1 DEF Invited
    <3>3. Turns'
      BY <1>4, <2>1, <3>1, <3>2, Greetings2 DEF Turns, Heard
    <3>4. Stages'
      BY <1>7, <2>1, <3>1, <3>2 DEF IInv, Stages, Early, Served
    <3>5. Authorized'
      BY <1>3, <2>1, <2>6, <2>12, <2>14, <3>1 DEF Authorized
    <3>6. Understood'
      BY <1>7, <2>1, <3>1 DEF Understood
    <3>7. Told'
      BY <1>7, <2>1, <3>1, <3>2, NotToldNext
    <3> QED
      BY <2>8, <2>9, <2>10, <2>11, <2>13, <3>3, <3>4, <3>5, <3>6, <3>7 DEF IInv
  <2>15. CASE ~right
    <3>1. outbox' = <<<<5, 2>>, <<1, 1>>>> /\ pc' = "closed" /\ fate' = "refused"
      BY <1>3, <2>1, <2>15, SaysLast
    <3>2. /\ outbox' # <<>> /\ outbox'[Len(outbox')] = <<1, 1>>
          /\ \A i \in DOMAIN outbox' : Len(outbox'[i]) = 2
      BY <3>1
    <3>3. Turns'
      BY <1>4, <2>1, <3>1, <3>2, Greetings2 DEF Turns, Heard
    <3>4. Stages'
      BY <1>7, <2>1, <3>1, <3>2 DEF IInv, Stages, Early, Served
    <3>5. Authorized'
      BY <1>3, <2>1, <2>6, <2>12, <2>15, <3>1 DEF Authorized
    <3>6. Understood'
      BY <1>7, <2>1, <3>1 DEF Understood
    <3>7. Told'
      BY <1>7, <2>1, <3>1, <3>2, NotToldNext
    <3> QED
      BY <2>8, <2>9, <2>10, <2>11, <2>13, <3>3, <3>4, <3>5, <3>6, <3>7 DEF IInv
  <2> QED BY <2>14, <2>15
<1> QED BY <1>8, <1>9

(* The beginning of a message is a part of it.                               *)
LEMMA BeginsPart ==
  ASSUME NEW b \in Seq(Byte), NEW s, Begins(s, b)
  PROVE  s = SubSeq(b, 1, Len(s))
<1>1. PICK n \in Nat, l \in Nat : n = Len(s) /\ l = Len(b) /\ n <= l
  BY LenProperties DEF Begins
<1>2. s \in Seq(Byte) /\ \A i \in 1..n : s[i] = b[i]
  BY <1>1 DEF Begins
<1>3. \A i \in 1..n : i \in 1..l
  BY <1>1
<1>4. \A i \in 1..n : b[i] \in Byte
  BY <1>1, <1>3, ElementOfSeq
<1>5. /\ SubSeq(b, 1, n) \in Seq(Byte)
      /\ Len(SubSeq(b, 1, n)) = IF 1 <= n THEN n - 1 + 1 ELSE 0
      /\ \A i \in 1..(n - 1 + 1) : SubSeq(b, 1, n)[i] = b[1 + i - 1]
  BY <1>4, SubSeqProperties
<1>6. n - 1 + 1 = n /\ (IF 1 <= n THEN n - 1 + 1 ELSE 0) = n /\ \A i \in 1..n : 1 + i - 1 = i
  BY <1>1
<1>7. Len(SubSeq(b, 1, n)) = n /\ \A i \in 1..n : s[i] = SubSeq(b, 1, n)[i]
  BY <1>2, <1>5, <1>6
<1>8. s = SubSeq(b, 1, n)
  BY ONLY <1>1, <1>2, <1>5, <1>7, SeqEqual
<1> QED BY <1>1, <1>8

(* The request is read (ReadRequest).                                        *)
LEMMA ReadRequestStep ==
  ASSUME IInv, ReadRequest
  PROVE  IInv'
<1> DEFINE r == RequestIn(stream)
           a == said.ask
<1>1. pc = "request"
  BY DEF ReadRequest
<1>2. \/ Misread(r)
      \/ /\ r.is = "whole" /\ stream' = From(stream, r.used) /\ req' = r.value
         /\ \/ r.value.cmd = 1 /\ pc' = "connect" /\ fate' = fate
            \/ r.value.cmd # 1 /\ pc' = "udp" /\ fate' = fate
            \/ pc' = "closed" /\ fate' = "unsupported"
         /\ UNCHANGED <<auth, changes, inForce, snap, offered, egress>>
         /\ UNCHANGED <<silent, said, outbox, home, src, last>>
  BY DEF ReadRequest, Consume, Closes, config, relay
<1>3. Awaits(stream, silent, RequestOf(a)) /\ Invited /\ \E c \in inForce : Admits(c)
  BY <1>1 DEF IInv, Requesting, Stages, Authorized
<1>4. said.methods # Nothing
  BY <1>1 DEF IInv, Turns
<1>5. last = Nothing /\ fate = "open" /\ ~egress /\ \A i \in DOMAIN outbox : Len(outbox[i]) = 2
  BY <1>1, Unserved DEF Early
<1>6. a = Nothing => r.is = "short"
  BY <1>3, AwaitsNothing, EmptyIsShort DEF RequestOf
<1>7. a # Nothing => /\ r.is = "bad" => ~ValidAsk(a)
                     /\ r.is = "whole" => /\ ValidAsk(a)
                                          /\ r.value = [cmd |-> a.cmd, atyp |-> a.atyp, host |-> a.host,
                                                        port |-> a.port[1] * 256 + a.port[2]]
                                          /\ Begins(From(stream, r.used), Payload)
  <2>1. SUFFICES ASSUME a # Nothing
                 PROVE  /\ r.is = "bad" => ~ValidAsk(a)
                        /\ r.is = "whole" => /\ ValidAsk(a)
                                             /\ r.value = [cmd |-> a.cmd, atyp |-> a.atyp, host |-> a.host,
                                                           port |-> a.port[1] * 256 + a.port[2]]
                                             /\ Begins(From(stream, r.used), Payload)
    OBVIOUS
  <2>2. a \in Asks
    BY <2>1 DEF IInv, Types
  <2>3. a \in Requests /\ Sized(a) /\ Payload \in Seq(Byte)
    BY <2>2, Inputs
  <2>4. Begins(stream, AskBytes(a) \o Payload)
    BY <1>3, <2>1 DEF RequestOf, Awaits
  <2> QED BY <2>3, <2>4, RequestRead
<1>8. CASE Misread(r)
  <2>1. silent \/ (a # Nothing /\ ~ValidAsk(a))
    <3>1. "short" # "bad"
      OBVIOUS
    <3> QED BY <1>6, <1>7, <1>8, <3>1 DEF Misread
  <2> QED BY <1>1, <1>4, <1>8, <2>1, MisreadStep
<1>9. CASE ~Misread(r)
  <2>1. /\ r.is = "whole" /\ stream' = From(stream, r.used) /\ req' = r.value
        /\ \/ r.value.cmd = 1 /\ pc' = "connect" /\ fate' = "open"
           \/ r.value.cmd # 1 /\ pc' = "udp" /\ fate' = "open"
           \/ pc' = "closed" /\ fate' = "unsupported"
        /\ UNCHANGED <<auth, changes, inForce, snap, offered, egress>>
        /\ UNCHANGED <<silent, said, outbox, home, src, last>>
    BY <1>2, <1>5, <1>9
  <2>2. "whole" # "short"
    OBVIOUS
  <2>3. /\ a # Nothing /\ ValidAsk(a) /\ Begins(stream', Payload)
        /\ req' = [cmd |-> a.cmd, atyp |-> a.atyp, host |-> a.host,
                   port |-> a.port[1] * 256 + a.port[2]]
    BY <1>6, <1>7, <2>1, <2>2
  <2>4. stream' = SubSeq(Payload, 1, Len(stream'))
    <3>1. Payload \in Seq(Byte)
      BY HandshakeAssumption
    <3> HIDE DEF r, a
    <3> QED BY <2>3, <3>1, BeginsPart
  <2>5. pc' \in {"connect", "udp", "closed"} /\ fate' \in {"open", "unsupported"}
        /\ (pc' # "closed" => fate' = "open") /\ (pc' = "connect" => req'.cmd = 1)
    BY <2>1
  <2> HIDE DEF r
  <2>6. /\ req' = [cmd |-> said.ask.cmd, atyp |-> said.ask.atyp, host |-> said.ask.host,
                   port |-> said.ask.port[1] * 256 + said.ask.port[2]]
        /\ said.ask # Nothing /\ ValidAsk(said.ask)
    BY <2>3
  <2> HIDE DEF a
  <2>7. /\ UNCHANGED <<auth, changes, inForce, snap, offered, egress>>
        /\ UNCHANGED <<silent, said, outbox, home, src, last>>
    BY <2>1
  <2>8. TypeOK'
    BY <2>5, <2>7 DEF IInv, TypeOK, Ended
  <2>9. Types'
    BY <2>7 DEF IInv, Types
  <2>10. Greeting' /\ Method' /\ Auth' /\ Requesting'
    BY <2>5 DEF Greeting, Method, Auth, Requesting
  <2>11. ~Heard(<<5, 2>>)
    BY <1>3, HeardWhat, Greetings2
  <2>12. Turns'
    BY <1>4, <2>6, <2>7, <2>11 DEF Turns, Heard
  <2>13. Stages'
    BY <1>3, <1>5, <2>5, <2>6, <2>7 DEF IInv, Stages, Early, Served, Invited
  <2>14. \A c : Admits(c)' <=> Admits(c)
    BY <2>7 DEF Admits
  <2>15. Authorized'
    BY <1>3, <2>5, <2>7, <2>14 DEF Authorized
  <2>16. Understood'
    BY <2>4, <2>5, <2>6, <2>7 DEF Understood
  <2>17. Told'
    BY <1>5, <2>5, <2>7, NotToldNext
  <2>18. RoutedRight'
    <3>1. last' = Nothing
      BY <1>5, <2>7
    <3> QED BY <3>1 DEF RoutedRight
  <2> QED
    BY <2>8, <2>9, <2>10, <2>12, <2>13, <2>15, <2>16, <2>17, <2>18 DEF IInv
<1> QED BY <1>8, <1>9

(****************************************************************************)
(* The answer to a request                                                   *)
(****************************************************************************)

(* An answer is the last message and the only one longer than two bytes.     *)
LEMMA Answered ==
  ASSUME Invited, NEW m, Len(m) > 2, outbox' = Append(outbox, m)
  PROVE  /\ outbox' # <<>> /\ outbox'[Len(outbox')] = m
         /\ {i \in DOMAIN outbox' : Len(outbox'[i]) > 2} = {Len(outbox')}
<1>1. /\ Len(<<5, 0>>) = 2 /\ Len(<<5, 2>>) = 2 /\ Len(<<1, 0>>) = 2
      /\ ~(2 > 2)
  OBVIOUS
<1>2. CASE outbox = <<<<5, 0>>>>
  <2>1. outbox' = <<<<5, 0>>, m>>
    BY <1>2, SaysLast
  <2>2. /\ outbox' # <<>> /\ Len(outbox') = 2 /\ DOMAIN outbox' = {1, 2}
        /\ outbox'[1] = <<5, 0>> /\ outbox'[2] = m
    BY <2>1
  <2>3. \A i \in {1, 2} : Len(outbox'[i]) > 2 <=> i = 2
    BY <1>1, <2>2
  <2> QED BY <2>2, <2>3
<1>3. CASE outbox = <<<<5, 2>>, <<1, 0>>>>
  <2>1. outbox' = <<<<5, 2>>, <<1, 0>>, m>>
    BY <1>3, SaysLast
  <2>2. /\ outbox' # <<>> /\ Len(outbox') = 3 /\ DOMAIN outbox' = {1, 2, 3}
        /\ outbox'[1] = <<5, 2>> /\ outbox'[2] = <<1, 0>> /\ outbox'[3] = m
    BY <2>1
  <2>3. \A i \in {1, 2, 3} : Len(outbox'[i]) > 2 <=> i = 3
    BY <1>1, <2>2
  <2> QED BY <2>2, <2>3
<1> QED BY <1>2, <1>3 DEF Invited

(* An answer with zeros for an address                                       *)
LEMMA ZeroMeans ==
  ASSUME NEW rep \in Byte
  PROVE  ZeroReply(rep) \in Seq(Byte) /\ Len(ZeroReply(rep)) > 2 /\ ZeroReply(rep)[2] = rep
<1> DEFINE zero == [v6 |-> FALSE, addr |-> <<0, 0, 0, 0>>]
<1>1. 0 \in Byte /\ <<0, 0>> \in Byte \X Byte
  BY SmallBytes
<1>2. <<0, 0, 0, 0>> \in Seq(Byte) /\ Len(<<0, 0, 0, 0>>) = 4
  BY <1>1
<1>3. zero \in SockAddrs /\ zero.v6 = FALSE /\ zero.addr = <<0, 0, 0, 0>>
  BY <1>2 DEF SockAddrs
<1>4. ZeroReply(rep) = socks5_encode_reply(rep, zero.v6, zero.addr, <<0, 0>>)
  BY <1>3 DEF ZeroReply
<1> HIDE DEF zero
<1>5. Replies(socks5_encode_reply(rep, zero.v6, zero.addr, <<0, 0>>), rep, zero, <<0, 0>>)
  BY ONLY <1>1, <1>3, rep \in Byte, ReplyMeans
<1> QED BY <1>4, <1>5 DEF Replies

(* The negotiation ends, with an answer or without (Connect,                 *)
(* udp_start_session).                                                       *)
LEMMA EndStep ==
  ASSUME IInv, pc \in {"connect", "udp"}, pc' \in Ended, fate' \notin {"rejected", "refused"},
         UNCHANGED <<auth, changes, inForce, snap, offered, req>>,
         UNCHANGED <<stream, silent, said, home, src, last>>,
         egress' \in BOOLEAN, Told', ~Heard(<<5, 2>>)'
  PROVE  IInv'
<1>1. pc' \notin Early \union {"connect", "udp"}
  BY DEF Early, Ended
<1>2. said.ask # Nothing /\ last = Nothing
  BY Unserved DEF IInv, Stages, Served
<1>3. said.methods # Nothing
  BY DEF IInv, Turns
<1>4. TypeOK'
  BY DEF IInv, TypeOK
<1>5. Types'
  BY DEF IInv, Types
<1>6. Greeting' /\ Method' /\ Auth' /\ Requesting'
  BY <1>1 DEF Greeting, Method, Auth, Requesting, Early
<1>7. Turns'
  BY <1>2, <1>3 DEF Turns
<1>8. Stages'
  BY <1>1, <1>2 DEF IInv, Stages, Early
<1>9. \A c : Admits(c)' <=> Admits(c)
  BY DEF Admits
<1>10. Authorized'
  BY <1>9 DEF IInv, Authorized
<1>11. Understood'
  BY DEF IInv, Understood
<1>12. RoutedRight'
  <2>1. last' = Nothing
    BY <1>2
  <2> QED BY <2>1 DEF RoutedRight
<1> QED
  BY <1>4, <1>5, <1>6, <1>7, <1>8, <1>10, <1>11, <1>12 DEF IInv

(* It ends without an answer.                                                *)
LEMMA EndSilently ==
  ASSUME IInv, pc \in {"connect", "udp"}, pc' = "closed", fate' \in {"full", "no memory"},
         UNCHANGED <<auth, changes, inForce, snap, offered, req>>,
         UNCHANGED <<stream, silent, said, home, src, last>>,
         UNCHANGED <<egress, outbox>>
  PROVE  IInv'
<1>1. ~egress /\ Invited /\ \A i \in DOMAIN outbox : Len(outbox[i]) = 2
  BY Unserved DEF IInv, Stages
<1>2. Told'
  BY <1>1, NotToldNext
<1>3. ~Heard(<<5, 2>>)'
  <2>1. ~Heard(<<5, 2>>)
    BY <1>1, HeardWhat, Greetings2
  <2> QED BY <2>1 DEF Heard
<1>4. pc' \in Ended /\ fate' \notin {"rejected", "refused"} /\ egress' \in BOOLEAN
  BY DEF Ended, IInv, TypeOK
<1> QED BY <1>2, <1>3, <1>4, EndStep

(* It ends with an answer: what the answer says is true.                     *)
LEMMA EndWith ==
  ASSUME IInv, pc \in {"connect", "udp"}, pc' \in Ended, fate' \notin {"rejected", "refused"},
         UNCHANGED <<auth, changes, inForce, snap, offered, req>>,
         UNCHANGED <<stream, silent, said, home, src, last>>,
         NEW m \in Seq(Byte), Len(m) > 2, outbox' = Append(outbox, m),
         egress' \in BOOLEAN, m[2] = 0 <=> egress', m[2] = 4 <=> fate' = "unreachable",
         fate' = "served" => m[2] = 0,
         m[2] = 0 /\ req.cmd = 3 /\ home.local # Nothing =>
           /\ HostOf(home.local) = [atyp |-> m[4], addr |-> SubSeq(m, 5, Len(m) - 2)]
           /\ RelayPort = SubSeq(m, Len(m) - 1, Len(m))
  PROVE  IInv'
<1>1. Invited
  BY DEF IInv, Stages
<1>2. /\ outbox' # <<>> /\ outbox'[Len(outbox')] = m
      /\ {i \in DOMAIN outbox' : Len(outbox'[i]) > 2} = {Len(outbox')}
  BY <1>1, Answered
<1>3. {Len(outbox')} # {} /\ {Len(outbox')} \subseteq {Len(outbox')}
  OBVIOUS
<1>4. Told'
  BY <1>2, <1>3, Zenon DEF Told
<1>5. ~Heard(<<5, 2>>)'
  <2>1. Len(<<5, 2>>) = 2 /\ ~(2 > 2)
    OBVIOUS
  <2>2. m # <<5, 2>>
    BY <2>1
  <2> QED BY <1>2, <2>2 DEF Heard
<1> QED BY <1>4, <1>5, EndStep

(* The answer to 0x03 names the end of the control connection and the port   *)
(* of the relay.                                                             *)
LEMMA BndMeans ==
  ASSUME home.local \in LocalAddrs
  PROVE  /\ BndReply \in Seq(Byte) /\ Len(BndReply) > 2 /\ BndReply[2] = 0
         /\ home.local # Nothing =>
              /\ HostOf(home.local) = [atyp |-> BndReply[4], addr |-> SubSeq(BndReply, 5, Len(BndReply) - 2)]
              /\ RelayPort = SubSeq(BndReply, Len(BndReply) - 1, Len(BndReply))
<1>1. 0 \in Byte
  BY SmallBytes
<1>2. CASE home.local = Nothing
  BY <1>1, <1>2, ZeroMeans DEF BndReply
<1>3. CASE home.local # Nothing
  <2> DEFINE sa == Plain(home.local)
             m == socks5_encode_reply(0, sa.v6, sa.addr, RelayPort)
  <2>1. home.local \in SockAddrs /\ RelayPort \in Byte \X Byte
    BY <1>3, Addresses
  <2>2. sa \in SockAddrs /\ HostOf(home.local) = [atyp |-> AtypOf(sa), addr |-> sa.addr]
    BY <2>1, PlainMeans
  <2>3. BndReply = m
    BY <1>3 DEF BndReply
  <2> HIDE DEF sa
  <2>4. /\ m \in Seq(Byte) /\ Len(m) > 2 /\ m[2] = 0 /\ m[4] = AtypOf(sa)
        /\ SubSeq(m, 5, Len(m) - 2) = sa.addr /\ SubSeq(m, Len(m) - 1, Len(m)) = RelayPort
    <3>1. Replies(m, 0, sa, RelayPort)
      BY ONLY <1>1, <2>1, <2>2, ReplyMeans DEF m
    <3> HIDE DEF m
    <3> QED BY <3>1 DEF Replies
  <2> HIDE DEF m
  <2> QED BY <2>2, <2>3, <2>4
<1> QED BY <1>2, <1>3

(* Connect: the reply of handle_connect, or none at the limit                *)
LEMMA ConnectStep ==
  ASSUME IInv, Connect
  PROVE  IInv'
<1>1. /\ pc = "connect"
      /\ UNCHANGED <<auth, changes, inForce, snap, offered, req>>
      /\ UNCHANGED <<stream, silent, said, home, src, last>>
  BY DEF Connect, config, client, relay
<1>2. \/ pc' = "closed" /\ fate' = "full" /\ UNCHANGED <<egress, outbox>>
      \/ pc' = "closed" /\ fate' = "unreachable" /\ outbox' = Append(outbox, ZeroReply(4)) /\ egress' = egress
      \/ pc' = "handed over" /\ fate' = "served" /\ outbox' = Append(outbox, ZeroReply(0)) /\ egress' = TRUE
  BY DEF Connect, Closes, Says
<1>3. req.cmd = 1 /\ ~(req.cmd = 3)
  BY <1>1 DEF IInv, Stages
<1>4. ~egress /\ egress \in BOOLEAN
  BY <1>1, Unserved DEF IInv, TypeOK
<1>5. /\ 0 \in Byte /\ 4 \in Byte /\ 0 # 4
  BY SmallBytes
<1>6. CASE fate' = "full"
  <2>1. pc' = "closed" /\ UNCHANGED <<egress, outbox>>
    BY <1>2, <1>6
  <2> QED BY <1>1, <1>6, <2>1, EndSilently
<1>7. CASE fate' = "unreachable"
  <2> DEFINE m == ZeroReply(4)
  <2>1. pc' \in Ended /\ outbox' = Append(outbox, m) /\ egress' = egress
    BY <1>2, <1>7 DEF Ended
  <2>2. m \in Seq(Byte) /\ Len(m) > 2 /\ m[2] = 4
    BY <1>5, ZeroMeans
  <2> HIDE DEF m
  <2>3. /\ egress' \in BOOLEAN /\ (m[2] = 0 <=> egress') /\ (m[2] = 4 <=> fate' = "unreachable")
        /\ fate' \notin {"rejected", "refused", "served"}
    BY <1>4, <1>5, <1>7, <2>1, <2>2
  <2> QED BY <1>1, <1>3, <2>1, <2>2, <2>3, EndWith
<1>8. CASE fate' = "served"
  <2> DEFINE m == ZeroReply(0)
  <2>1. pc' \in Ended /\ outbox' = Append(outbox, m) /\ egress' = TRUE
    BY <1>2, <1>8 DEF Ended
  <2>2. m \in Seq(Byte) /\ Len(m) > 2 /\ m[2] = 0
    BY <1>5, ZeroMeans
  <2> HIDE DEF m
  <2>3. /\ egress' \in BOOLEAN /\ (m[2] = 0 <=> egress') /\ (m[2] = 4 <=> fate' = "unreachable")
        /\ fate' \notin {"rejected", "refused"}
    BY <1>5, <1>8, <2>1, <2>2
  <2> QED BY <1>1, <1>3, <2>1, <2>2, <2>3, EndWith
<1> QED BY <1>2, <1>6, <1>7, <1>8

(* udp_start_session: every way out of it                                    *)
LEMMA StartStep ==
  ASSUME IInv, udp_start_session
  PROVE  IInv'
<1> DEFINE m == IF req.cmd = 3 THEN BndReply ELSE ZeroReply(0)
<1>1. /\ pc = "udp"
      /\ UNCHANGED <<auth, changes, inForce, snap, offered, req>>
      /\ UNCHANGED <<stream, silent, said, home, src, last>>
  BY DEF udp_start_session, config, client, relay
<1>2. \/ pc' = "closed" /\ fate' = "no memory" /\ UNCHANGED <<egress, outbox>>
      \/ /\ pc' = "closed" /\ fate' \in {"full", "no relay socket"}
         /\ outbox' = Append(outbox, ZeroReply(1)) /\ egress' = egress
      \/ /\ pc' = "closed" /\ fate' = "unreachable"
         /\ outbox' = Append(outbox, ZeroReply(4)) /\ egress' = egress
      \/ /\ egress' = TRUE /\ outbox' = Append(outbox, m)
         /\ \/ pc' = "associated" /\ fate' = "served"
            \/ pc' = "closed" /\ fate' = "not registered"
  BY DEF udp_start_session, Closes, Says
<1>3. home.local \in LocalAddrs
  BY DEF IInv, Types
<1>4. ~egress /\ egress \in BOOLEAN
  BY <1>1, Unserved DEF IInv, TypeOK
<1>5. /\ 0 \in Byte /\ 1 \in Byte /\ 4 \in Byte /\ 0 # 4 /\ 0 # 1 /\ 1 # 4
  BY SmallBytes
<1>6. CASE fate' = "no memory"
  <2>1. pc' = "closed" /\ UNCHANGED <<egress, outbox>>
    BY <1>2, <1>6
  <2> QED BY <1>1, <1>6, <2>1, EndSilently
<1>7. CASE fate' \in {"full", "no relay socket"}
  <2> DEFINE z == ZeroReply(1)
  <2>1. pc' \in Ended /\ outbox' = Append(outbox, z) /\ egress' = egress
    BY <1>2, <1>7 DEF Ended
  <2>2. z \in Seq(Byte) /\ Len(z) > 2 /\ z[2] = 1
    BY <1>5, ZeroMeans
  <2> HIDE DEF z
  <2>3. /\ egress' \in BOOLEAN /\ (z[2] = 0 <=> egress') /\ (z[2] = 4 <=> fate' = "unreachable")
        /\ fate' \notin {"rejected", "refused", "served"} /\ z[2] # 0
    BY <1>4, <1>5, <1>7, <2>1, <2>2
  <2> QED BY <1>1, <2>1, <2>2, <2>3, EndWith
<1>8. CASE fate' = "unreachable"
  <2> DEFINE z == ZeroReply(4)
  <2>1. pc' \in Ended /\ outbox' = Append(outbox, z) /\ egress' = egress
    BY <1>2, <1>8 DEF Ended
  <2>2. z \in Seq(Byte) /\ Len(z) > 2 /\ z[2] = 4
    BY <1>5, ZeroMeans
  <2> HIDE DEF z
  <2>3. /\ egress' \in BOOLEAN /\ (z[2] = 0 <=> egress') /\ (z[2] = 4 <=> fate' = "unreachable")
        /\ fate' \notin {"rejected", "refused", "served"} /\ z[2] # 0
    BY <1>4, <1>5, <1>8, <2>1, <2>2
  <2> QED BY <1>1, <2>1, <2>2, <2>3, EndWith
<1>9. CASE fate' \in {"served", "not registered"}
  <2>1. pc' \in Ended /\ outbox' = Append(outbox, m) /\ egress' = TRUE
    BY <1>2, <1>9 DEF Ended
  <2>2. /\ m \in Seq(Byte) /\ Len(m) > 2 /\ m[2] = 0
        /\ req.cmd = 3 /\ home.local # Nothing =>
             /\ HostOf(home.local) = [atyp |-> m[4], addr |-> SubSeq(m, 5, Len(m) - 2)]
             /\ RelayPort = SubSeq(m, Len(m) - 1, Len(m))
    <3>1. CASE req.cmd = 3
      BY <1>3, <3>1, BndMeans
    <3>2. CASE req.cmd # 3
      BY <1>5, <3>2, ZeroMeans
    <3> QED BY <3>1, <3>2
  <2> HIDE DEF m
  <2>3. /\ egress' \in BOOLEAN /\ (m[2] = 0 <=> egress') /\ (m[2] = 4 <=> fate' = "unreachable")
        /\ fate' \notin {"rejected", "refused"}
    BY <1>5, <1>9, <2>1, <2>2
  <2> QED BY <1>1, <2>1, <2>2, <2>3, EndWith
<1> QED BY <1>2, <1>6, <1>7, <1>8, <1>9

(****************************************************************************)
(* The datagrams of a session                                                *)
(****************************************************************************)

(* What is sent to a destination is not nothing.                             *)
LEMMA SentIsSome ==
  ASSUME NEW d \in Seq(Byte), socks5_udp_parse(d).hlen > 0, Len(d) > socks5_udp_parse(d).hlen
  PROVE  Sent(socks5_udp_parse(d), d) # Nothing
<1> DEFINE h == socks5_udp_parse(d)
           at == AddrAt(d[4])
<1>1. PICK k : Fits(d, k)
  BY ParseOnly
<1>2. /\ h.hlen = at + k + 2 /\ h.atyp = d[4] /\ h.addr = Take(d, at, k) /\ h.port = Take(d, at + k, 2)
  BY <1>1, ParseFits
<1>3. /\ Len(d) \in Nat /\ k \in Nat /\ at \in {4, 5} /\ k <= 255 /\ at + k + 2 <= Len(d) /\ 4 <= Len(d)
  BY <1>1, LenProperties DEF Fits, AddrAt
<1> HIDE DEF h, at
<1>4. /\ at \in Nat /\ at + k \in Nat /\ 2 \in Nat /\ at + k <= Len(d) /\ at + k + 2 \in 0..Len(d)
      /\ 4 \in 1..Len(d)
  BY <1>3
<1>5. d[4] \in Byte
  BY <1>4, ElementOfSeq
<1>6. Take(d, at, k) \in Seq(Byte)
  BY <1>3, <1>4, TakeOf
<1>7. Take(d, at + k, 2) \in Seq(Byte)
  BY <1>3, <1>4, TakeOf
<1>8. From(d, at + k + 2) \in Seq(Byte)
  BY <1>4, FromOf
<1>9. Sent(h, d) = [host |-> [atyp |-> d[4], addr |-> Take(d, at, k)], port |-> Take(d, at + k, 2),
                    data |-> From(d, at + k + 2)]
  BY <1>2 DEF Sent
<1>10. Sent(h, d) \in [host : [atyp : Byte, addr : Seq(Byte)], port : Seq(Byte), data : Seq(Byte)]
  BY <1>5, <1>6, <1>7, <1>8, <1>9
<1>11. Nothing \notin [host : [atyp : Byte, addr : Seq(Byte)], port : Seq(Byte), data : Seq(Byte)]
  BY HandshakeAssumption
<1> QED BY <1>10, <1>11 DEF h

(* A datagram of the LAN is sent to the destination it names exactly if it   *)
(* comes from the host of the client, has a correct header, and has data.    *)
LEMMA UpRight ==
  ASSUME NEW d \in Seq(Byte), NEW from \in SockAddrs, NEW out,
         out = IF socks5_udp_parse(d).hlen > 0 /\ HostOf(from) = HostOf(home.peer)
               THEN RouteOf(socks5_udp_parse(d), d) ELSE Nothing,
         last' = [way |-> "up", from |-> from, bytes |-> d, out |-> out], UNCHANGED home
  PROVE  RoutedRight'
<1> DEFINE h == socks5_udp_parse(d)
           mine == HostOf(from) = HostOf(home.peer)
<1>1. /\ last'.way = "up" /\ last'.from = from /\ last'.bytes = d /\ last'.out = out /\ home' = home
  OBVIOUS
<1>2. ASSUME out # Nothing
      PROVE  /\ mine /\ out.data # <<>> /\ WellFormed(out.host.atyp, out.host.addr)
             /\ d = DatagramFor(out.host, out.port, out.data)
  <2>1. mine /\ out = RouteOf(h, d)
    BY <1>2
  <2> QED BY ONLY <1>2, <2>1, d \in Seq(Byte), RouteSound
<1>3. ASSUME out = Nothing, mine, NEW a \in Asks, NEW n \in 1..Len(d), WellFormed(a.atyp, a.host),
             d = DatagramFor([atyp |-> a.atyp, addr |-> a.host], a.port, SubSeq(d, n, Len(d)))
      PROVE  FALSE
  <2>1. /\ a.atyp \in Byte /\ a.host \in Seq(Byte) /\ a.port \in Byte \X Byte /\ Len(a.host) <= 255
    BY Inputs DEF Requests, Sized
  <2>2. h.hlen > 0 /\ Len(d) > h.hlen
    BY <1>3, <2>1, RouteComplete
  <2>3. out = Sent(h, d)
    BY <1>3, <2>2 DEF RouteOf
  <2> QED BY <1>3, <2>2, <2>3, SentIsSome
<1> HIDE DEF h
<1>4. CASE out # Nothing
  BY <1>1, <1>2, <1>4 DEF RoutedRight
<1>5. CASE out = Nothing
  BY <1>1, <1>3, <1>5 DEF RoutedRight
<1> QED BY <1>4, <1>5

(* A datagram changes nothing but what is known of the datagrams.            *)
LEMMA DatagramStep ==
  ASSUME IInv, pc = "associated",
         UNCHANGED <<auth, changes, inForce, pc, fate, snap, offered, req, egress>>,
         UNCHANGED <<stream, silent, said, outbox, home>>,
         src' \in Senders \union {Nothing}, src' # Nothing => HostOf(src') = HostOf(home.peer),
         RoutedRight'
  PROVE  IInv'
<1>1. TypeOK'
  BY DEF IInv, TypeOK
<1>2. Types'
  BY DEF IInv, Types
<1>3. Greeting' /\ Method' /\ Auth' /\ Requesting'
  BY DEF Greeting, Method, Auth, Requesting
<1>4. Turns'
  BY DEF IInv, Turns, Heard
<1>5. Stages'
  <2>1. pc' \notin Early \union {"connect", "udp"} /\ pc' # "request"
    BY DEF Early
  <2>2. said'.ask # Nothing /\ fate' # "refused"
    BY DEF IInv, Stages, Served
  <2>3. src' # Nothing => HostOf(src') = HostOf(home'.peer)
    OBVIOUS
  <2> QED BY <2>1, <2>2, <2>3 DEF Stages, Early
<1>6. \A c : Admits(c)' <=> Admits(c)
  BY DEF Admits
<1>7. Authorized'
  BY <1>6 DEF IInv, Authorized
<1>8. Understood'
  BY DEF IInv, Understood
<1>9. Told'
  BY ToldKept DEF IInv
<1> QED BY <1>1, <1>2, <1>3, <1>4, <1>5, <1>7, <1>8, <1>9 DEF IInv

(* A datagram of the relay socket (udp_local_event)                          *)
LEMMA LocalStep ==
  ASSUME IInv, udp_local_event
  PROVE  IInv'
<1>1. /\ pc = "associated"
      /\ UNCHANGED <<auth, changes, inForce, pc, fate, snap, offered, req, egress>>
      /\ UNCHANGED <<stream, silent, said, outbox, home>>
  BY DEF udp_local_event, config, thread, client
<1>2. PICK from \in Senders, d \in Datagrams :
        LET h == socks5_udp_parse(d)
            taken == h.hlen > 0 /\ same_ip(from, home.peer)
        IN /\ src' = IF taken THEN from ELSE src
           /\ last' = [way |-> "up", from |-> from, bytes |-> d,
                       out |-> IF taken THEN RouteOf(h, d) ELSE Nothing]
  BY DEF udp_local_event
<1>3. d \in Seq(Byte)
  BY HandshakeAssumption
<1>4. from \in SockAddrs /\ home.peer \in SockAddrs
  BY Addresses DEF IInv, Types
<1>5. same_ip(from, home.peer) <=> HostOf(from) = HostOf(home.peer)
  BY <1>4, SameIp
<1> DEFINE taken == socks5_udp_parse(d).hlen > 0 /\ HostOf(from) = HostOf(home.peer)
           out == IF taken THEN RouteOf(socks5_udp_parse(d), d) ELSE Nothing
<1>6. /\ src' = IF taken THEN from ELSE src
      /\ last' = [way |-> "up", from |-> from, bytes |-> d, out |-> out]
  BY <1>2, <1>5
<1>7. RoutedRight'
  <2>1. out = IF socks5_udp_parse(d).hlen > 0 /\ HostOf(from) = HostOf(home.peer)
              THEN RouteOf(socks5_udp_parse(d), d) ELSE Nothing
    OBVIOUS
  <2> HIDE DEF out, taken
  <2> QED BY <1>1, <1>3, <1>4, <1>6, <2>1, UpRight
<1>8. src' \in Senders \union {Nothing}
  BY <1>6 DEF IInv, TypeOK
<1>9. src' # Nothing => HostOf(src') = HostOf(home.peer)
  BY <1>6 DEF IInv, Stages
<1> QED BY <1>1, <1>7, <1>8, <1>9, DatagramStep

(* A frame of the stream (FrameArrives)                                      *)
LEMMA FrameStep ==
  ASSUME IInv, FrameArrives
  PROVE  IInv'
<1>1. /\ pc = "associated"
      /\ UNCHANGED <<auth, changes, inForce, pc, fate, snap, offered, req, egress>>
      /\ UNCHANGED <<stream, silent, said, outbox, home>>
      /\ src' = src
  BY DEF FrameArrives, config, thread, client
<1>2. PICK d \in Datagrams :
        last' = [way |-> "up", from |-> home.peer, bytes |-> d,
                 out |-> RouteOf(socks5_udp_parse(d), d)]
  BY DEF FrameArrives
<1>3. d \in Seq(Byte)
  BY HandshakeAssumption
<1>4. home.peer \in SockAddrs
  BY Addresses DEF IInv, Types
<1> DEFINE out == RouteOf(socks5_udp_parse(d), d)
<1>5. RoutedRight'
  <2>1. out = IF socks5_udp_parse(d).hlen > 0 /\ HostOf(home.peer) = HostOf(home.peer)
              THEN RouteOf(socks5_udp_parse(d), d) ELSE Nothing
    BY DEF RouteOf
  <2>2. last' = [way |-> "up", from |-> home.peer, bytes |-> d, out |-> out]
    BY <1>2
  <2> HIDE DEF out
  <2> QED BY <1>1, <1>3, <1>4, <2>1, <2>2, UpRight
<1>6. src' \in Senders \union {Nothing} /\ (src' # Nothing => HostOf(src') = HostOf(home.peer))
  BY <1>1 DEF IInv, TypeOK, Stages
<1> QED BY <1>1, <1>5, <1>6, DatagramStep

(* An answer of the 5G side (udp_remote_event)                               *)
LEMMA RemoteStep ==
  ASSUME IInv, udp_remote_event
  PROVE  IInv'
<1>1. /\ pc = "associated"
      /\ UNCHANGED <<auth, changes, inForce, pc, fate, snap, offered, req, egress>>
      /\ UNCHANGED <<stream, silent, said, outbox, home>>
      /\ src' = src
  BY DEF udp_remote_event, config, thread, client
<1>2. PICK o \in Origins, p \in Data :
        LET sa == Plain(o.sa)
            d == socks5_udp_encode(sa.v6, sa.addr, o.port) \o p
            frame == <<Len(d) \div 256, Len(d) % 256>> \o d
        IN last' = [way |-> "down", origin |-> o, data |-> p,
                    to |-> IF req.cmd = 3 THEN src ELSE home.peer,
                    bytes |-> IF req.cmd = 3 THEN d ELSE frame]
  BY DEF udp_remote_event
<1>3. o.sa \in SockAddrs /\ o.port \in Byte \X Byte
  BY Addresses
<1> DEFINE d == DatagramFor(HostOf(o.sa), o.port, p)
           to == IF req.cmd = 3 THEN src ELSE home.peer
           bytes == IF req.cmd = 3 THEN d ELSE <<Len(d) \div 256, Len(d) % 256>> \o d
<1>4. socks5_udp_encode(Plain(o.sa).v6, Plain(o.sa).addr, o.port) \o p = d
  BY <1>3, AnswerMeans
<1> HIDE DEF d
<1>5. last' = [way |-> "down", origin |-> o, data |-> p, to |-> to, bytes |-> bytes]
  BY <1>2, <1>4
<1>6. src' \in Senders \union {Nothing} /\ (src' # Nothing => HostOf(src') = HostOf(home.peer))
  BY <1>1 DEF IInv, TypeOK, Stages
<1>7. to # Nothing => HostOf(to) = HostOf(home.peer)
  BY <1>1, <1>6
<1>8. RoutedRight'
  <2>1. /\ last'.way = "down" /\ last'.origin = o /\ last'.data = p /\ last'.to = to
        /\ last'.bytes = bytes /\ req' = req /\ home' = home
    BY <1>1, <1>5
  <2>2. "down" # "up"
    OBVIOUS
  <2> HIDE DEF to
  <2> QED BY <1>7, <2>1, <2>2 DEF RoutedRight, d
<1> QED BY <1>1, <1>6, <1>8, DatagramStep

(****************************************************************************)
(* The invariant                                                             *)
(****************************************************************************)

(* Before the client has spoken                                              *)
LEMMA Initially == Init => IInv
<1> SUFFICES ASSUME Init PROVE IInv
  OBVIOUS
<1>1. /\ pc = "greeting" /\ fate = "open" /\ req = Nothing /\ egress = FALSE
      /\ stream = <<>> /\ silent = FALSE /\ outbox = <<>> /\ src = Nothing /\ last = Nothing
      /\ said.methods = Nothing /\ said.creds = Nothing /\ said.ask = Nothing
      /\ auth \in {Stored(s) : s \in Settings} /\ changes = 0 /\ inForce = {auth}
  BY DEF Init
<1>2. TypeOK
  <2>1. MaxChanges \in Nat
    BY HandshakeAssumption
  <2>2. 0 \in 0..MaxChanges
    BY <2>1
  <2> QED BY <1>1, <2>2 DEF TypeOK
<1>3. Types
  BY DEF Init, Types
<1>4. Greeting /\ Method /\ Auth /\ Requesting
  BY <1>1 DEF Greeting, Method, Auth, Requesting
<1>5. Turns
  BY <1>1 DEF Turns, Heard
<1>6. Stages
  BY <1>1 DEF Stages, Served
<1>7. Authorized /\ Understood
  BY <1>1 DEF Authorized, Understood
<1>8. Told
  BY <1>1, NotTold
<1>9. RoutedRight
  BY <1>1, NotRouted
<1> QED BY <1>2, <1>3, <1>4, <1>5, <1>6, <1>7, <1>8, <1>9 DEF IInv

(* Nothing happens.                                                          *)
LEMMA StutterStep ==
  ASSUME IInv, UNCHANGED vars
  PROVE  IInv'
<1>1. /\ UNCHANGED <<auth, changes, inForce, pc, fate, snap, offered, req, egress>>
      /\ UNCHANGED <<stream, silent, said, outbox, home, src, last>>
  BY DEF vars, config, thread, client, relay
<1>2. TypeOK' /\ Types' /\ Greeting' /\ Method' /\ Auth' /\ Requesting'
  BY <1>1 DEF IInv, TypeOK, Types, Greeting, Method, Auth, Requesting
<1>3. Turns' /\ Stages'
  BY <1>1 DEF IInv, Turns, Heard, Stages, Invited
<1>4. \A c : Admits(c)' <=> Admits(c)
  BY <1>1 DEF Admits
<1>5. Authorized' /\ Understood'
  BY <1>1, <1>4 DEF IInv, Authorized, Understood
<1>6. Told' /\ RoutedRight'
  BY <1>1, ToldKept, RoutedKept DEF IInv
<1> QED BY <1>2, <1>3, <1>5, <1>6 DEF IInv

(* What is known of the handshake between any two of its steps: until a      *)
(* message is read, the stream is what the client was invited to send, whole *)
(* or cut off (handle_handshake_fd and its calls of recv).                   *)
THEOREM Inductive == Spec => []IInv
<1>1. Init => IInv
  BY Initially
<1>2. IInv /\ [Next]_vars => IInv'
  <2> SUFFICES ASSUME IInv, [Next]_vars PROVE IInv'
    OBVIOUS
  <2>1. CASE ClientGreets
    BY <2>1, ClientGreetsStep
  <2>2. CASE ClientHurries
    BY <2>2, ClientHurriesStep
  <2>3. CASE ClientAuthenticates
    BY <2>3, ClientAuthenticatesStep
  <2>4. CASE ClientAsks
    BY <2>4, ClientAsksStep
  <2>5. CASE socks5_server_set_auth
    BY <2>5, SetAuthStep
  <2>6. CASE ReadGreeting
    BY <2>6, ReadGreetingStep
  <2>7. CASE SelectMethod
    BY <2>7, SelectMethodStep
  <2>8. CASE do_auth_check
    BY <2>8, AuthCheckStep
  <2>9. CASE ReadRequest
    BY <2>9, ReadRequestStep
  <2>10. CASE Connect
    BY <2>10, ConnectStep
  <2>11. CASE udp_start_session
    BY <2>11, StartStep
  <2>12. CASE udp_local_event
    BY <2>12, LocalStep
  <2>13. CASE FrameArrives
    BY <2>13, FrameStep
  <2>14. CASE udp_remote_event
    BY <2>14, RemoteStep
  <2>15. CASE UNCHANGED vars
    BY <2>15, StutterStep
  <2> QED
    BY <2>1, <2>2, <2>3, <2>4, <2>5, <2>6, <2>7, <2>8, <2>9, <2>10, <2>11, <2>12, <2>13, <2>14,
       <2>15 DEF Next
<1> QED BY <1>1, <1>2, PTL DEF Spec

(* The state of the handshake thread and of its client is what the code      *)
(* declares, in every handshake.                                             *)
THEOREM TypeCorrect == Spec => []TypeOK
<1>1. IInv => TypeOK
  BY DEF IInv
<1> QED BY <1>1, Inductive, PTL

(* Authentication is atomic: a client is let in or refused by one            *)
(* configuration that was in force during its handshake (do_auth_check       *)
(* compares with the copy handle_handshake_fd made under g_auth_lock).       *)
THEOREM AuthenticationIsAtomic == Spec => []Authorized
<1>1. IInv => Authorized
  BY DEF IInv
<1> QED BY <1>1, Inductive, PTL

(* The server acts on what the client asked for, for every message and       *)
(* wherever it is cut off: recv takes exactly the bytes of the handshake,    *)
(* and only a client that breaks the protocol or falls silent is rejected.   *)
THEOREM HandshakeUnderstood == Spec => []Understood
<1>1. IInv => Understood
  BY DEF IInv
<1> QED BY <1>1, Inductive, PTL

(* The client is told at most one answer, and the truth: success exactly if  *)
(* its 5G socket exists, and for 0x03 the address and port of the relay      *)
(* (handle_connect, udp_start_session).                                      *)
THEOREM ClientToldTheTruth == Spec => []Told
<1>1. IInv => Told
  BY DEF IInv
<1> QED BY <1>1, Inductive, PTL

(* Every datagram is sent where its header says, and nobody else's is;       *)
(* every answer goes to the client's host and names its origin               *)
(* (udp_local_event, udp_remote_event, socks5_udp_parse, socks5_udp_encode). *)
THEOREM DatagramsRouted == Spec => []RoutedRight
<1>1. IInv => RoutedRight
  BY DEF IInv
<1> QED BY <1>1, Inductive, PTL
=============================================================================
