-------------------------- MODULE PointerChainProofs --------------------------
(* The chains of the latency measurement, of any length and number. *)
EXTENDS PointerChain, TLAPS

(***************************************************************************)
(* The argument.  B stays a permutation, so the order At, which begins     *)
(* with element 0, meets every element once.  Linking makes each element   *)
(* lead to the next one of the order, because the element that is written  *)
(* has not been written before.  The chase then is at position m of the    *)
(* order in the chains still to be read in this round, and one further in  *)
(* the others.                                                             *)
(***************************************************************************)
Injective(s) == \A x, y \in Indices : s[x] = s[y] => x = y
Onto(s) == \A v \in 1..N : \E x \in Indices : s[x] = v

At(c, s) == IF s = 0 THEN 0 ELSE B[c][s - 1]

Linked(c, n) == \A s \in 0..(n - 1) : C[c][At(c, s)] = At(c, s + 1)
Closed(c) == Linked(c, N) /\ C[c][At(c, N)] = 0

Permutations == \A c \in Chains : Injective(B[c]) /\ Onto(B[c])

Unread == \A c \in Chains : nextp[c] = 0 /\ seen[c] = {}

Building ==
    pc \in {"shuffle", "link"} =>
        /\ Unread
        /\ \A c \in Chains : c < j => Closed(c)
        /\ pc = "link" => p = At(j, i) /\ Linked(j, i)

Progress(c, m) == IF c < j THEN m + 1 ELSE m

ReadUpTo(c, m) ==
    /\ nextp[c] = At(c, m)
    /\ seen[c] = {At(c, s) : s \in 0..(m - 1)}

Reading(m) ==
    /\ j > 1 => m < N
    /\ pc = "done" => m = N /\ j = 1
    /\ \A c \in Chains : ReadUpTo(c, Progress(c, m))

Chasing ==
    pc \in {"chase", "done"} =>
        /\ \A c \in Chains : Closed(c)
        /\ \E m \in 0..N : Reading(m)

IInv == TypeOK /\ Permutations /\ Building /\ Chasing

LEMMA InitIInv == Init => IInv
<1> SUFFICES ASSUME Init PROVE IInv
  OBVIOUS
<1> USE ChainAssumption
<1>1. Filled \in [Indices -> 1..N] /\ Injective(Filled) /\ Onto(Filled)
  <2>1. \A x \in Indices : 1 + x \in 1..N
    BY DEF Indices
  <2>2. Filled \in [Indices -> 1..N]
    BY <2>1 DEF Filled
  <2>3. Injective(Filled)
    BY DEF Injective, Filled, Indices
  <2>4. ASSUME NEW v \in 1..N PROVE \E x \in Indices : Filled[x] = v
    <3>1. v - 1 \in Indices /\ Filled[v - 1] = v
      BY DEF Filled, Indices
    <3> QED
      BY <3>1
  <2> QED
    BY <2>2, <2>3, <2>4 DEF Onto
<1>2. TypeOK
  BY <1>1 DEF Init, TypeOK, Chains, Elements
<1>3. Permutations
  BY <1>1 DEF Init, Permutations
<1>4. Building /\ Chasing
  BY DEF Init, Building, Chasing, Unread, Chains
<1> QED
  BY <1>2, <1>3, <1>4 DEF IInv

(* The order of a chain begins with 0 and meets every element once.         *)
LEMMA OrderOnce ==
    ASSUME TypeOK, Permutations, NEW c \in Chains
    PROVE  /\ \A s \in 0..N : At(c, s) \in Elements /\ (s > 0 => At(c, s) \in 1..N)
           /\ \A s, t \in 0..N : At(c, s) = At(c, t) => s = t
           /\ \A v \in Elements : \E s \in 0..N : At(c, s) = v
<1> USE ChainAssumption
<1>1. \A s \in 1..N : s - 1 \in Indices /\ B[c][s - 1] \in 1..N
  BY DEF TypeOK, Indices
<1>2. \A s \in 0..N : At(c, s) \in Elements /\ (s > 0 => At(c, s) \in 1..N)
  BY <1>1 DEF At, Elements
<1>3. ASSUME NEW s \in 0..N, NEW t \in 0..N, At(c, s) = At(c, t) PROVE s = t
  <2>1. CASE s = 0 \/ t = 0
    BY <1>1, <1>3, <2>1 DEF At
  <2>2. CASE s > 0 /\ t > 0
    <3>1. B[c][s - 1] = B[c][t - 1] /\ s - 1 \in Indices /\ t - 1 \in Indices
      BY <1>1, <1>3, <2>2 DEF At
    <3>2. s - 1 = t - 1
      BY <3>1 DEF Permutations, Injective
    <3> QED
      BY <3>2
  <2> QED
    BY <2>1, <2>2
<1>4. ASSUME NEW v \in Elements PROVE \E s \in 0..N : At(c, s) = v
  <2>1. CASE v = 0
    BY <2>1 DEF At
  <2>2. CASE v \in 1..N
    <3>1. PICK x \in Indices : B[c][x] = v
      BY <2>2 DEF Permutations, Onto
    <3>2. x + 1 \in 0..N /\ x + 1 # 0 /\ (x + 1) - 1 = x
      BY DEF Indices
    <3>3. At(c, x + 1) = v
      BY <3>1, <3>2 DEF At
    <3> QED
      BY <3>2, <3>3
  <2> QED
    BY <2>1, <2>2 DEF Elements
<1> QED
  BY <1>2, <1>3, <1>4

(* Where the chase is in the order tells what it has read.                  *)
LEMMA ReadOnce ==
    ASSUME TypeOK, Permutations, NEW c \in Chains, NEW m \in 0..N, ReadUpTo(c, m)
    PROVE  /\ nextp[c] \notin seen[c]
           /\ m = N => seen[c] = Elements \ {nextp[c]}
<1>1. \A s \in 0..(m - 1) : s \in 0..N /\ s # m
  BY ChainAssumption
<1>2. nextp[c] \notin seen[c]
  BY <1>1, OrderOnce DEF ReadUpTo
<1>3. ASSUME m = N PROVE seen[c] = Elements \ {nextp[c]}
  <2>1. \A s \in 0..(N - 1) : At(c, s) \in Elements /\ At(c, s) # At(c, N)
    BY <1>1, <1>3, OrderOnce
  <2>2. ASSUME NEW v \in Elements, v # At(c, N)
        PROVE  \E s \in 0..(N - 1) : At(c, s) = v
    <3>1. PICK s \in 0..N : At(c, s) = v
      BY OrderOnce
    <3>2. s \in 0..(N - 1)
      BY <2>2, <3>1, ChainAssumption
    <3> QED
      BY <3>1, <3>2
  <2> QED
    BY <1>3, <2>1, <2>2 DEF ReadUpTo
<1> QED
  BY <1>2, <1>3

(* Exchanging two numbers keeps a permutation one.                          *)
LEMMA SwapKeeps ==
    ASSUME NEW s \in [Indices -> 1..N], Injective(s), Onto(s),
           NEW x \in Indices, NEW y \in Indices
    PROVE  /\ Swapped(s, x, y) \in [Indices -> 1..N]
           /\ Injective(Swapped(s, x, y)) /\ Onto(Swapped(s, x, y))
<1> DEFINE t == Swapped(s, x, y)
<1>1. /\ t \in [Indices -> 1..N]
      /\ \A z \in Indices : t[z] = IF z = y THEN s[x] ELSE IF z = x THEN s[y] ELSE s[z]
  BY DEF Swapped
<1>2. Injective(t)
  BY <1>1 DEF Injective
<1>3. ASSUME NEW v \in 1..N PROVE \E z \in Indices : t[z] = v
  <2>1. PICK z \in Indices : s[z] = v
    BY DEF Onto
  <2>2. t[IF z = x THEN y ELSE IF z = y THEN x ELSE z] = v
    BY <1>1, <2>1
  <2> QED
    BY <2>2
<1> QED
  BY <1>1, <1>2, <1>3 DEF Onto

(* Where only B and C of other chains change, a closed chain stays closed.  *)
LEMMA ClosedKept ==
    ASSUME NEW c \in Chains, B'[c] = B[c], C'[c] = C[c], Closed(c)
    PROVE  Closed(c)'
BY DEF Closed, Linked, At

LEMMA ShuffleStep == IInv /\ Shuffle => IInv'
<1> SUFFICES ASSUME IInv, Shuffle PROVE IInv'
  OBVIOUS
<1> USE ChainAssumption DEF IInv
<1>1. PICK r \in Indices : B' = [B EXCEPT ![j] = Swapped(@, i, r)]
  BY DEF Shuffle
<1>2. i \in Indices /\ j \in Chains /\ B[j] \in [Indices -> 1..N]
  BY DEF TypeOK, Shuffle, Indices
<1>3. /\ B'[j] \in [Indices -> 1..N] /\ Injective(B'[j]) /\ Onto(B'[j])
      /\ \A c \in Chains \ {j} : B'[c] = B[c]
  <2>1. B'[j] = Swapped(B[j], i, r)
    BY <1>1, <1>2 DEF TypeOK
  <2>2. \A c \in Chains \ {j} : B'[c] = B[c]
    BY <1>1 DEF TypeOK
  <2> QED
    BY <1>2, <2>1, <2>2, SwapKeeps DEF Permutations
<1>4. Permutations'
  BY <1>3 DEF Permutations, Injective, Onto
<1>5. TypeOK'
  <2>1. i' \in 0..N
    BY DEF Shuffle, TypeOK
  <2>2. B' \in [Chains -> [Indices -> 1..N]]
    BY <1>1, <1>2, <1>3 DEF TypeOK
  <2> QED
    BY <2>1, <2>2 DEF Shuffle, TypeOK
<1>6. Building' /\ Chasing'
  <2>1. \A c \in Chains : c < j => Closed(c)'
    <3> SUFFICES ASSUME NEW c \in Chains, c < j PROVE Closed(c)'
      OBVIOUS
    <3>1. c # j /\ Closed(c)
      BY DEF Building, Shuffle, TypeOK, Chains
    <3>2. B'[c] = B[c] /\ C'[c] = C[c]
      BY <1>3, <3>1 DEF Shuffle
    <3> QED
      BY <3>1, <3>2, ClosedKept
  <2> QED
    BY <2>1 DEF Shuffle, Building, Chasing, Unread
<1> QED
  BY <1>4, <1>5, <1>6

LEMMA ShuffledStep == IInv /\ Shuffled => IInv'
<1> SUFFICES ASSUME IInv, Shuffled PROVE IInv'
  OBVIOUS
<1> USE ChainAssumption DEF IInv
<1>1. TypeOK'
  BY DEF Shuffled, TypeOK, Elements
<1>2. Permutations'
  BY DEF Shuffled, Permutations, Injective, Onto
<1>3. \A c \in Chains : c < j' => Closed(c)'
  BY ClosedKept DEF Shuffled, Building
<1>4. p' = At(j, i)' /\ Linked(j, i)'
  BY DEF Shuffled, At, Linked
<1>5. Building' /\ Chasing'
  BY <1>3, <1>4 DEF Shuffled, Building, Chasing, Unread
<1> QED
  BY <1>1, <1>2, <1>5

(* A write to the element at position n keeps the links before it.          *)
LEMMA LinkKept ==
    ASSUME TypeOK, Permutations, NEW c \in Chains, NEW n \in 0..N, Linked(c, n),
           NEW v, C' = [C EXCEPT ![c][At(c, n)] = v]
    PROVE  /\ C'[c][At(c, n)] = v
           /\ \A s \in 0..(n - 1) : C'[c][At(c, s)] = At(c, s + 1)
           /\ \A d \in Chains \ {c} : C'[d] = C[d]
<1>1. At(c, n) \in Elements /\ C[c] \in [Elements -> Elements \cup {UINT64_MAX}]
  BY OrderOnce DEF TypeOK
<1>2. /\ C'[c][At(c, n)] = v
      /\ \A x \in Elements \ {At(c, n)} : C'[c][x] = C[c][x]
      /\ \A d \in Chains \ {c} : C'[d] = C[d]
  BY <1>1 DEF TypeOK
<1>3. ASSUME NEW s \in 0..(n - 1) PROVE C'[c][At(c, s)] = At(c, s + 1)
  <2>1. s \in 0..N /\ s # n
    BY ChainAssumption
  <2>2. At(c, s) \in Elements \ {At(c, n)}
    BY <2>1, OrderOnce
  <2>3. C[c][At(c, s)] = At(c, s + 1)
    BY DEF Linked
  <2> QED
    BY <1>2, <2>2, <2>3
<1> QED
  BY <1>2, <1>3

LEMMA LinkStep == IInv /\ Link => IInv'
<1> SUFFICES ASSUME IInv, Link PROVE IInv'
  OBVIOUS
<1> USE ChainAssumption DEF IInv
<1>1. /\ j \in Chains /\ i \in 0..N /\ i < N /\ i \in Indices
      /\ p = At(j, i) /\ Linked(j, i) /\ B' = B /\ j' = j /\ i' = i + 1
      /\ C' = [C EXCEPT ![j][p] = B[j][i]] /\ p' = B[j][i]
  BY DEF Link, TypeOK, Building, Indices
<1>2. B[j][i] = At(j, i + 1) /\ B[j][i] \in Elements
  BY <1>1 DEF At, TypeOK, Elements
<1>3. TypeOK'
  <2>1. C' \in [Chains -> [Elements -> Elements \cup {UINT64_MAX}]]
    BY <1>1, <1>2 DEF TypeOK
  <2> QED
    BY <1>1, <1>2, <2>1 DEF Link, TypeOK
<1>4. Permutations'
  BY <1>1 DEF Permutations, Injective, Onto
<1>5. /\ \A s \in 0..i : C'[j][At(j, s)] = At(j, s + 1)
      /\ \A d \in Chains \ {j} : C'[d] = C[d]
  <2>1. C' = [C EXCEPT ![j][At(j, i)] = B[j][i]]
    BY <1>1
  <2>2. /\ C'[j][At(j, i)] = B[j][i]
        /\ \A s \in 0..(i - 1) : C'[j][At(j, s)] = At(j, s + 1)
        /\ \A d \in Chains \ {j} : C'[d] = C[d]
    BY <1>1, <2>1, LinkKept
  <2>3. \A s \in 0..i : s = i \/ s \in 0..(i - 1)
    BY <1>1
  <2> QED
    BY <1>2, <2>2, <2>3
<1>6. p' = At(j, i)' /\ Linked(j, i)'
  <2>1. (i + 1) - 1 = i
    BY <1>1
  <2> QED
    BY <1>1, <1>2, <1>5, <2>1 DEF Linked, At
<1>7. \A c \in Chains : c < j' => Closed(c)'
  <2> SUFFICES ASSUME NEW c \in Chains, c < j PROVE Closed(c)'
    BY <1>1
  <2>1. c # j /\ Closed(c)
    BY <1>1 DEF Building, Link, Chains
  <2> QED
    BY <1>1, <1>5, <2>1, ClosedKept
<1>8. Building' /\ Chasing'
  BY <1>6, <1>7 DEF Link, Building, Chasing, Unread
<1> QED
  BY <1>3, <1>4, <1>8

LEMMA CloseStep == IInv /\ Close => IInv'
<1> SUFFICES ASSUME IInv, Close PROVE IInv'
  OBVIOUS
<1> USE ChainAssumption DEF IInv
<1>1. /\ j \in Chains /\ i = N /\ p = At(j, N) /\ Linked(j, N) /\ B' = B
      /\ C' = [C EXCEPT ![j][At(j, N)] = 0] /\ Unread
  BY DEF Close, TypeOK, Building
<1>2. TypeOK'
  <2>0. 0 \in Elements
    BY DEF Elements
  <2>1. C' \in [Chains -> [Elements -> Elements \cup {UINT64_MAX}]]
    BY <1>1, <2>0 DEF TypeOK
  <2>2. j' \in Chains
    BY <1>1 DEF Close, Chains
  <2>3. pc' \in {"shuffle", "chase"} /\ i' \in 0..N
    BY DEF Close
  <2> QED
    BY <1>1, <2>1, <2>2, <2>3 DEF Close, TypeOK
<1>3. Permutations'
  BY <1>1 DEF Permutations, Injective, Onto
<1>4. /\ C'[j][At(j, N)] = 0
      /\ \A s \in 0..(N - 1) : C'[j][At(j, s)] = At(j, s + 1)
      /\ \A d \in Chains \ {j} : C'[d] = C[d]
  <2>1. N \in 0..N /\ TypeOK /\ Permutations
    OBVIOUS
  <2> QED
    BY <1>1, <2>1, LinkKept
<1>6. \A c \in Chains : c <= j => Closed(c)'
  <2> SUFFICES ASSUME NEW c \in Chains, c <= j PROVE Closed(c)'
    OBVIOUS
  <2>1. CASE c = j
    BY <1>1, <1>4, <2>1 DEF Closed, Linked, At
  <2>2. CASE c # j
    <3>1. c < j
      BY <1>1, <2>2 DEF Chains
    <3>2. Closed(c)
      BY <3>1 DEF Building, Close
    <3> QED
      BY <1>1, <1>4, <2>2, <3>2, ClosedKept
  <2> QED
    BY <2>1, <2>2
<1>7. CASE j = NChains
  <2>1. pc' = "chase" /\ j' = 1 /\ UNCHANGED <<nextp, seen>>
    BY <1>7 DEF Close
  <2>2. \A c \in Chains : Closed(c)'
    BY <1>6, <1>7 DEF Chains
  <2>3. ASSUME NEW c \in Chains PROVE ReadUpTo(c, 0)' /\ Progress(c, 0)' = 0
    BY <1>1, <2>1 DEF ReadUpTo, Progress, Unread, At, Chains
  <2>4. Reading(0)'
    BY <2>1, <2>3 DEF Reading, ReadUpTo, At
  <2> QED
    BY <1>2, <1>3, <2>1, <2>2, <2>4 DEF Building, Chasing
<1>8. CASE j # NChains
  <2>1. pc' = "shuffle" /\ j' = j + 1 /\ UNCHANGED <<nextp, seen>>
    BY <1>8 DEF Close
  <2>2. \A c \in Chains : c < j' => Closed(c)'
    BY <1>1, <1>6, <2>1 DEF Chains
  <2> QED
    BY <1>1, <1>2, <1>3, <2>1, <2>2 DEF Building, Chasing, Unread
<1> QED
  BY <1>7, <1>8

LEMMA ChaseStep == IInv /\ Chase => IInv'
<1> SUFFICES ASSUME IInv, Chase PROVE IInv'
  OBVIOUS
<1> USE ChainAssumption DEF IInv
<1>1. PICK m \in 0..N : Reading(m)
  BY DEF Chase, Chasing
<1>2. j \in Chains /\ B' = B /\ C' = C /\ \A c \in Chains : Closed(c)
  BY DEF Chase, TypeOK, Chasing
<1>3. ReadUpTo(j, m) /\ \A c \in Chains \ {j} : ReadUpTo(c, Progress(c, m))
  <2>1. Progress(j, m) = m
    BY <1>2 DEF Progress, Chains
  <2> QED
    BY <1>1, <1>2, <2>1 DEF Reading
<1>4. m < N
  <2>1. CASE j > 1
    BY <1>1, <2>1 DEF Reading
  <2>2. CASE j = 1
    <3>1. C[1][At(1, m)] # 0 /\ C[1][At(1, N)] = 0
      BY <1>2, <1>3, <2>2 DEF Chase, ReadUpTo, Closed
    <3> QED
      BY <3>1
  <2> QED
    BY <1>2, <2>1, <2>2 DEF Chains
<1>5. C[j][nextp[j]] = At(j, m + 1)
  <2>1. m \in 0..(N - 1)
    BY <1>4
  <2> QED
    BY <1>2, <1>3, <2>1 DEF Closed, Linked, ReadUpTo
<1>6. /\ nextp'[j] = At(j, m + 1)
      /\ seen'[j] = {At(j, s) : s \in 0..(m + 1 - 1)}
      /\ \A c \in Chains \ {j} : nextp'[c] = nextp[c] /\ seen'[c] = seen[c]
  <2>1. /\ nextp'[j] = C[j][nextp[j]] /\ seen'[j] = seen[j] \cup {nextp[j]}
        /\ \A c \in Chains \ {j} : nextp'[c] = nextp[c] /\ seen'[c] = seen[c]
    BY <1>2 DEF Chase, TypeOK
  <2>2. 0..(m + 1 - 1) = 0..(m - 1) \cup {m}
    OBVIOUS
  <2>3. seen[j] = {At(j, s) : s \in 0..(m - 1)} /\ nextp[j] = At(j, m)
    BY <1>3 DEF ReadUpTo
  <2> QED
    BY <1>5, <2>1, <2>2, <2>3
<1>7. TypeOK'
  <2>1. At(j, m + 1) \in Elements
    BY <1>2, <1>4, OrderOnce
  <2>2. nextp' \in [Chains -> Elements]
    BY <1>5, <2>1 DEF Chase, TypeOK
  <2>3. seen' \in [Chains -> SUBSET Elements]
    BY <1>2 DEF Chase, TypeOK
  <2>4. j' \in Chains
    BY <1>2 DEF Chase, Chains
  <2> QED
    BY <2>2, <2>3, <2>4 DEF Chase, TypeOK
<1>8. Permutations' /\ \A c \in Chains : Closed(c)'
  BY <1>2, ClosedKept DEF Permutations, Injective, Onto
<1>9. ASSUME NEW c \in Chains
      PROVE  /\ c <= j => ReadUpTo(c, m + 1)'
             /\ c > j => ReadUpTo(c, m)'
  <2>1. ASSUME c = j PROVE ReadUpTo(c, m + 1)'
    BY <1>2, <1>6, <2>1 DEF ReadUpTo, At
  <2>2. ASSUME NEW n, c # j, ReadUpTo(c, n) PROVE ReadUpTo(c, n)'
    BY <1>2, <1>6, <2>2 DEF ReadUpTo, At
  <2>3. CASE c < j
    BY <1>2, <1>3, <2>2, <2>3 DEF Progress, Chains
  <2>4. CASE c > j
    BY <1>2, <1>3, <2>2, <2>4 DEF Progress, Chains
  <2> QED
    BY <1>2, <2>1, <2>3, <2>4 DEF Chains
<1>10. CASE j = NChains
  <2>1. j' = 1 /\ pc' = "chase" /\ m + 1 \in 0..N
    BY <1>4, <1>10 DEF Chase
  <2>2. ASSUME NEW c \in Chains PROVE ReadUpTo(c, Progress(c, m + 1))'
    <3>1. Progress(c, m + 1)' = m + 1
      BY <2>1 DEF Progress, Chains
    <3>2. c <= j
      BY <1>2, <1>10 DEF Chains
    <3> QED
      BY <1>9, <3>1, <3>2
  <2>3. Reading(m + 1)'
    BY <2>1, <2>2 DEF Reading
  <2> QED
    BY <1>7, <1>8, <2>1, <2>3 DEF Building, Chasing
<1>11. CASE j # NChains
  <2>1. j' = j + 1 /\ pc' = "chase"
    BY <1>11 DEF Chase
  <2>2. ASSUME NEW c \in Chains PROVE ReadUpTo(c, Progress(c, m))'
    <3>1. CASE c <= j
      <4>1. Progress(c, m)' = m + 1
        BY <1>2, <2>1, <3>1 DEF Progress, Chains
      <4> QED
        BY <1>2, <1>9, <3>1, <4>1 DEF Chains
    <3>2. CASE c > j
      <4>1. Progress(c, m)' = m
        BY <1>2, <2>1, <3>2 DEF Progress, Chains
      <4> QED
        BY <1>9, <3>2, <4>1
    <3> QED
      BY <1>2, <3>1, <3>2 DEF Chains
  <2>3. Reading(m)'
    BY <1>4, <2>1, <2>2 DEF Reading
  <2> QED
    BY <1>7, <1>8, <2>1, <2>3 DEF Building, Chasing
<1> QED
  BY <1>10, <1>11

LEMMA EndedStep == IInv /\ Ended => IInv'
<1> SUFFICES ASSUME IInv, Ended PROVE IInv'
  OBVIOUS
<1> USE ChainAssumption DEF IInv
<1>1. PICK m \in 0..N : Reading(m)
  BY DEF Ended, Chasing
<1>2. 1 \in Chains /\ j = 1 /\ Progress(1, m) = m
  BY DEF Ended, Chains, Progress
<1>3. m = N
  <2>1. ASSUME m < N PROVE FALSE
    <3>1. m \in 0..(N - 1) /\ nextp[1] = At(1, m)
      BY <1>1, <1>2, <2>1 DEF Reading, ReadUpTo
    <3>2. C[1][nextp[1]] = At(1, m + 1)
      BY <1>2, <3>1 DEF Ended, Chasing, Closed, Linked
    <3>3. At(1, m + 1) \in 1..N
      BY <1>2, <2>1, OrderOnce
    <3> QED
      BY <3>2, <3>3 DEF Ended
  <2> QED
    BY <2>1
<1>4. Reading(m)'
  BY <1>1, <1>3 DEF Ended, Reading, ReadUpTo, Progress, At
<1>5. TypeOK' /\ Permutations'
  BY DEF Ended, TypeOK, Permutations, Injective, Onto
<1>6. \A c \in Chains : Closed(c)'
  BY ClosedKept DEF Ended, Chasing
<1> QED
  BY <1>4, <1>5, <1>6 DEF Ended, Building, Chasing

LEMMA Inductive == Spec => []IInv
<1>1. IInv /\ UNCHANGED vars => IInv'
  <2> SUFFICES ASSUME IInv, UNCHANGED vars PROVE IInv'
    OBVIOUS
  <2> USE DEF IInv, vars
  <2>1. TypeOK' /\ Permutations'
    BY DEF TypeOK, Permutations, Injective, Onto
  <2>2. Building'
    BY DEF Building, Unread, Closed, Linked, At
  <2>3. Chasing'
    BY DEF Chasing, Reading, ReadUpTo, Progress, Closed, Linked, At
  <2> QED
    BY <2>1, <2>2, <2>3
<1>2. IInv /\ [Next]_vars => IInv'
  BY <1>1, ShuffleStep, ShuffledStep, LinkStep, CloseStep, ChaseStep, EndedStep DEF Next
<1> QED
  BY InitIInv, <1>2, PTL DEF Spec

(* The indices and values stay in the chains (measure_lat.c:172).           *)
THEOREM TypeCorrect == Spec => []TypeOK
<1>1. IInv => TypeOK
  BY DEF IInv
<1> QED
  BY Inductive, <1>1, PTL

(* However the numbers were shuffled, the chase reads every element of      *)
(* every chain exactly once, for any number and length of the chains        *)
(* (measure_lat.c:142 and 237).                                             *)
THEOREM ReadsEveryElementOnce == Spec => []EveryElementOnce
<1>1. IInv => EveryElementOnce
  <2> SUFFICES ASSUME IInv, pc \in {"chase", "done"}
               PROVE  \A c \in Chains :
                        /\ nextp[c] \notin seen[c]
                        /\ pc = "done" => seen[c] = Elements \ {nextp[c]}
    BY DEF EveryElementOnce
  <2> USE ChainAssumption DEF IInv
  <2>1. PICK m \in 0..N : Reading(m)
    BY DEF Chasing
  <2>2. SUFFICES ASSUME NEW c \in Chains
                 PROVE  /\ nextp[c] \notin seen[c]
                        /\ pc = "done" => seen[c] = Elements \ {nextp[c]}
    OBVIOUS
  <2>3. Progress(c, m) \in 0..N /\ ReadUpTo(c, Progress(c, m))
    <3>1. c < j => j > 1
      BY DEF TypeOK, Chains
    <3> QED
      BY <2>1, <3>1 DEF Reading, Progress
  <2>4. pc = "done" => Progress(c, m) = N
    BY <2>1 DEF Reading, Progress, Chains
  <2> QED
    BY <2>3, <2>4, ReadOnce
<1> QED
  BY Inductive, <1>1, PTL
=============================================================================
