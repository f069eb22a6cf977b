---------------------------- MODULE EnigmaProofs ----------------------------
(***************************************************************************)
(* Proofs about the wheels of SharedMem, as operators and at work: for all  *)
(* wheels, reflectors and messages.                                        *)
(***************************************************************************)
EXTENDS SharedMem, TLAPS

LEMMA Modulo ==
  ASSUME NEW n \in Nat \ {0}, NEW x \in 0 .. n + n - 1
  PROVE  x % n = IF x < n THEN x ELSE x - n
OBVIOUS

(* Turning on and turning back by i.                                         *)
LEMMA Turns ==
  ASSUME NEW i \in Index, NEW x \in Index
  PROVE  LET on(y) == (i + y) % WHEEL_SIZE
             back(y) == (y + WHEEL_SIZE - i) % WHEEL_SIZE
         IN  on(x) \in Index /\ back(x) \in Index /\ on(back(x)) = x /\ back(on(x)) = x
<1> DEFINE n == WHEEL_SIZE
<1>0. n \in Nat \ {0} /\ i \in 0 .. n - 1 /\ x \in 0 .. n - 1 /\ Index = 0 .. n - 1
  BY EnigmaAssumption DEF Index
<1> HIDE DEF n
<1> DEFINE on(y) == IF i + y < n THEN i + y ELSE i + y - n
           back(y) == IF y + n - i < n THEN y + n - i ELSE y - i
<1>1. ASSUME NEW y \in 0 .. n - 1
      PROVE  (i + y) % n = on(y) /\ (y + n - i) % n = back(y)
  <2> DEFINE s == i + y
             t == y + n - i
  <2>1. s \in 0 .. n + n - 1 /\ t \in 0 .. n + n - 1
    BY <1>0
  <2> HIDE DEF s, t
  <2>2. s % n = IF s < n THEN s ELSE s - n
    BY <1>0, <2>1, Modulo, Zenon
  <2>3. t % n = IF t < n THEN t ELSE t - n
    BY <1>0, <2>1, Modulo, Zenon
  <2> USE DEF s, t
  <2>4. (i + y) % n = on(y)
    BY <1>0, <2>2
  <2>5. (y + n - i) % n = IF y + n - i < n THEN y + n - i ELSE y + n - i - n
    BY <1>0, <2>3
  <2>6. y + n - i - n = y - i
    BY <1>0
  <2> QED BY <2>4, <2>5, <2>6
<1>2. on(x) \in 0 .. n - 1 /\ back(x) \in 0 .. n - 1 /\ on(back(x)) = x /\ back(on(x)) = x
  BY <1>0
<1> HIDE DEF on, back
<1>3. (i + x) % n = on(x) /\ (x + n - i) % n = back(x)
  BY <1>0, <1>1
<1>4. (i + back(x)) % n = x /\ (on(x) + n - i) % n = x
  BY <1>1, <1>2
<1> QED BY <1>0, <1>2, <1>3, <1>4 DEF n

(* The way back through a wheel undoes the way forth, and conversely.        *)
LEMMA RevWheel ==
  ASSUME NEW w, IsWheel(w)
  PROVE  /\ calc_rev_wheel(w) \in [Index -> Index]
         /\ \A c \in Index : calc_rev_wheel(w)[w[c]] = c /\ w[calc_rev_wheel(w)[c]] = c
<1> DEFINE r == calc_rev_wheel(w)
<1>1. \A c \in Index : r[c] \in Index /\ w[r[c]] = c
  BY DEF calc_rev_wheel, IsWheel
<1>2. r \in [Index -> Index]
  BY <1>1 DEF calc_rev_wheel
<1>3. \A c \in Index : r[w[c]] = c
  BY <1>1, <1>2 DEF IsWheel
<1> QED BY <1>1, <1>2, <1>3

(* Two wheels that undo each other do so at every position.                  *)
LEMMA ThroughBack ==
  ASSUME NEW w \in [Index -> Index], NEW v \in [Index -> Index],
         \A c \in Index : v[w[c]] = c,
         NEW i \in Index, NEW c \in Index
  PROVE  Through(w, i, c) \in Index /\ Through(v, i, Through(w, i, c)) = c
<1> DEFINE n == WHEEL_SIZE
           on(x) == (i + x) % n
           back(x) == (x + n - i) % n
<1>1. \A x \in Index : on(x) \in Index /\ back(x) \in Index /\ on(back(x)) = x /\ back(on(x)) = x
  BY Turns
<1> HIDE DEF on, back
<1>2. on(c) \in Index /\ w[on(c)] \in Index /\ v[w[on(c)]] = on(c) /\ back(on(c)) = c
  BY <1>1
<1>3. back(w[on(c)]) \in Index /\ on(back(w[on(c)])) = w[on(c)]
  BY <1>1, <1>2
<1>4. Through(w, i, c) = back(w[on(c)])
  BY DEF Through, on, back
<1>5. Through(v, i, back(w[on(c)])) = back(v[on(back(w[on(c)]))])
  BY DEF Through, on, back
<1> QED BY <1>2, <1>3, <1>4, <1>5

LEMMA WheelThrough ==
  ASSUME NEW w, IsWheel(w), NEW i \in Index, NEW c \in Index
  PROVE  /\ Through(w, i, c) \in Index /\ Through(calc_rev_wheel(w), i, c) \in Index
         /\ Through(calc_rev_wheel(w), i, Through(w, i, c)) = c
         /\ Through(w, i, Through(calc_rev_wheel(w), i, c)) = c
<1>1. w \in [Index -> Index]
  BY DEF IsWheel
<1> QED BY <1>1, RevWheel, ThroughBack

(* Back undoes Forth, and conversely: one wheel after the other.             *)
LEMMA ForthBack ==
  ASSUME NEW iw \in Position, NEW c \in Index
  PROVE  /\ Forth(iw, c) \in Index /\ Back(iw, c) \in Index
         /\ Back(iw, Forth(iw, c)) = c /\ Forth(iw, Back(iw, c)) = c
<1>0. iw[1] \in Index /\ iw[2] \in Index /\ iw[3] \in Index
  BY DEF Position
<1>1. IsWheel(W1) /\ IsWheel(W2) /\ IsWheel(W3)
  BY EnigmaAssumption
<1> HIDE DEF Index
<1>2. Forth(iw, c) \in Index /\ Back(iw, Forth(iw, c)) = c
  <2> DEFINE a == Through(W1, iw[1], c)
             b == Through(W2, iw[2], a)
             d == Through(W3, iw[3], b)
  <2>1. a \in Index /\ Through(W1R, iw[1], a) = c
    BY <1>0, <1>1, WheelThrough DEF W1R
  <2> HIDE DEF a
  <2>2. b \in Index /\ Through(W2R, iw[2], b) = a
    BY <1>0, <1>1, <2>1, WheelThrough DEF W2R
  <2> HIDE DEF b
  <2>3. d \in Index /\ Through(W3R, iw[3], d) = b
    BY <1>0, <1>1, <2>2, WheelThrough DEF W3R
  <2> QED BY <2>1, <2>2, <2>3 DEF a, b, Forth, Back
<1>3. Back(iw, c) \in Index /\ Forth(iw, Back(iw, c)) = c
  <2> DEFINE a == Through(W3R, iw[3], c)
             b == Through(W2R, iw[2], a)
             d == Through(W1R, iw[1], b)
  <2>1. a \in Index /\ Through(W3, iw[3], a) = c
    BY <1>0, <1>1, WheelThrough DEF W3R
  <2> HIDE DEF a
  <2>2. b \in Index /\ Through(W2, iw[2], b) = a
    BY <1>0, <1>1, <2>1, WheelThrough DEF W2R
  <2> HIDE DEF b
  <2>3. d \in Index /\ Through(W1, iw[1], d) = b
    BY <1>0, <1>1, <2>2, WheelThrough DEF W1R
  <2> QED BY <2>1, <2>2, <2>3 DEF a, b, Forth, Back
<1> QED BY <1>2, <1>3

LEMMA TurnsStayInRange == ASSUME NEW iw \in Position PROVE update_wheel_index(iw) \in Position
<1>1. /\ WHEEL_SIZE \in Nat \ {0} /\ iw[1] \in 0 .. WHEEL_SIZE - 1
      /\ iw[2] \in 0 .. WHEEL_SIZE - 1 /\ iw[3] \in 0 .. WHEEL_SIZE - 1
  BY EnigmaAssumption DEF Position, Index
<1>2. (iw[3] + 1) % WHEEL_SIZE \in 0 .. WHEEL_SIZE - 1
  BY <1>1
<1> QED BY <1>1, <1>2 DEF update_wheel_index, Position, Index

(* The wheels stay within their arrays for ever, however many letters and    *)
(* messages enc() encodes.                                                 *)
WheelsInRange == IW \in Position

THEOREM WheelsStayInRange == Spec => []WheelsInRange
<1>1. Init => WheelsInRange
  BY EnigmaAssumption DEF Init, WheelsInRange, Position, Index
<1>2. WheelsInRange /\ [Next]_vars => WheelsInRange'
  <2> SUFFICES ASSUME WheelsInRange, [Next]_vars PROVE WheelsInRange'
    OBVIOUS
  <2>1. CASE EncRead
    <3>1. Reset \in Position
      BY EnigmaAssumption DEF Reset, Position, Index
    <3>2. IW' = IW \/ IW' = Reset
      BY <2>1 DEF EncRead, encoder
    <3> QED BY <3>1, <3>2 DEF WheelsInRange
  <2>2. CASE EncEncode
    <3>1. IW' = IW \/ IW' = update_wheel_index(IW)
      BY <2>2 DEF EncEncode, encoder
    <3> QED BY <3>1, TurnsStayInRange DEF WheelsInRange
  <2>3. CASE UNCHANGED IW
    BY <2>3 DEF WheelsInRange
  <2>4. ASSUME NEW t, NEW here, NEW there, Take(t, here, there) \/ Give(t, here, there)
        PROVE  UNCHANGED IW
    BY <2>4 DEF Take, Give, encoder
  <2>5. ASSUME NEW t, NEW there, Expire(t, there)
        PROVE  UNCHANGED IW
    BY <2>5 DEF Expire, encoder
  <2>6. ASSUME NEW here, NEW there, NEW message, PtWrite(here, there, message)
        PROVE  UNCHANGED IW
    BY <2>6 DEF PtWrite, encoder
  <2>7. CASE main
    BY <2>3, <2>7 DEF main, encoder
  <2>8. CASE enc
    <3>1. CASE EncWrite
      BY <2>3, <3>1 DEF EncWrite, encoder
    <3> QED BY <2>1, <2>2, <2>3, <2>4, <2>5, <2>8, <3>1, Zenon DEF enc
  <2>9. CASE pt
    <3>1. CASE PtSleep
      BY <2>3, <3>1 DEF PtSleep, encoder
    <3> QED BY <2>3, <2>4, <2>5, <2>6, <2>9, <3>1, Zenon DEF pt
  <2>10. CASE ct
    <3>1. CASE CtRead
      BY <2>3, <3>1 DEF CtRead, encoder
    <3> QED BY <2>3, <2>4, <2>10, <3>1, Zenon DEF ct
  <2>11. CASE UNCHANGED vars
    BY <2>3, <2>11 DEF vars, encoder
  <2> QED BY <2>7, <2>8, <2>9, <2>10, <2>11, Zenon DEF Next
<1> QED BY <1>1, <1>2, PTL DEF Spec

(* enig_enc deciphers what it enciphers, at every position the wheels reach, *)
(* for all wheels that calc_rev_wheel can invert and all reflectors.       *)
THEOREM Deciphers == Spec => []SelfInverse
<1>1. WheelsInRange => SelfInverse
  <2> SUFFICES ASSUME WheelsInRange, NEW c \in Index PROVE enig_enc(IW, enig_enc(IW, c)) = c
    BY DEF SelfInverse
  <2>1. IW \in Position
    BY DEF WheelsInRange
  <2> DEFINE f == Forth(IW, c)
  <2>2. f \in Index /\ Back(IW, f) = c
    BY <2>1, ForthBack
  <2>3. R[f] \in Index /\ R[R[f]] = f
    BY <2>2, EnigmaAssumption
  <2>4. Forth(IW, Back(IW, R[f])) = R[f]
    BY <2>1, <2>3, ForthBack
  <2> QED BY <2>2, <2>3, <2>4 DEF enig_enc
<1> QED BY <1>1, WheelsStayInRange, PTL
=============================================================================
