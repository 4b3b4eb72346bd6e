------------------------ MODULE FragmentTransfer_proofs -----------------------
(***************************************************************************)
(* A string that is sent and received in pieces arrives whole, for every   *)
(* length, every sizes of the sections and of the pieces, and however the  *)
(* two sides interleave; and fragments that pass the check join to it,     *)
(* whatever happened to them before.                                       *)
(***************************************************************************)
EXTENDS FragmentTransfer, ZcborState_proofs, WellFoundedInduction

-----------------------------------------------------------------------------
(* The message, byte by byte, and who has how much of it.                  *)

MessageAt(p) ==
    IF p = 0 THEN [kind |-> "list", arg |-> 2, index |-> 1]
    ELSE IF p = 1 THEN [kind |-> "value", arg |-> 1, index |-> 1]
    ELSE IF p < HeadLen(total) THEN [kind |-> "tstr", arg |-> total, index |-> p - 1]
    ELSE [kind |-> "data", arg |-> 0, index |-> p - HeadLen(total) + 1]

(* How many bytes the sender put on the wire, and the receiver took off.   *)
Shipped == out.z.base + (IF out.does = "ended" THEN out.z.state.payload ELSE 0)
Taken   == in.z.base + Len(in.section)

(* A sequence holds the bytes of the message from position p on.           *)
Holds(bytes, p) == \A i \in 1 .. Len(bytes) : bytes[i] = MessageAt(p + i - 1)

(* The first p bytes of the memory hold those from position base on.       *)
Section(mem, base, p) == \A i \in 0 .. p - 1 : mem[i] = MessageAt(base + i)

(* What a state inside the string of the transfer has: it knows where the  *)
(* string began, and its payload pointer is done bytes into it.            *)
InString(z, done) ==
    /\ z.state.inside_frag_str /\ ~ z.state.inside_cbor_bstr
    /\ z.state.str_total_len = total
    /\ z.state.frag_offset = z.base - HeadLen(total)
    /\ z.base + z.state.payload = HeadLen(total) + done
    /\ done \in 0 .. total
    /\ z.state.payload <= z.state.payload_end
    /\ Len(z.backup_list) = 1

SenderInv ==
    /\ out = [z |-> out.z, mem |-> out.mem, fed |-> out.fed, does |-> out.does]
    /\ out.does \in {"begin", "feed", "ended"}
    /\ out.does = "begin" =>
        \E room \in Rooms : room > HeadLen(total) /\ out.z = NewState(room, 0)
    /\ out.does = "feed" =>
        /\ InString(out.z, out.fed)
        /\ out.z.state.elem_count = 2
        /\ out.z.state.payload_end \in Rooms
        /\ Section(out.mem, out.z.base, out.z.state.payload)
    /\ out.does = "ended" => Shipped = HeadLen(total) + total /\ out.fed = total

WireInv == Len(wire) = Shipped - Taken /\ Holds(wire, Taken)

(* A fragment holds what the string has at its offset, or nothing.         *)
Genuine(f) ==
    \/ f = NoFragment
    \/ /\ f.present /\ f.total_len = total
       /\ f.value = Data(f.offset, Len(f.value))

InOrder(fs) ==
    \A i \in DOMAIN fs :
        /\ fs[i].present /\ fs[i].total_len = total
        /\ fs[i].offset = Preceding(fs, i)
        /\ Preceding(fs, i + 1) <= total

ReceiverInv ==
    /\ in = [z |-> in.z, section |-> in.section, does |-> in.does]
    /\ in.does \in {"begin", "read", "ended"}
    /\ in.does = "begin" =>
        in.z = NewState(0, LargeElemCount) /\ in.section = << >> /\ fragments = << >>
    /\ in.does = "read" =>
        /\ InString(in.z, Got)
        /\ in.z.state.elem_count = 0
        /\ ~ in.z.state.decode_state.indefinite_length_array
        /\ in.z.state.payload_end = Len(in.section)
        /\ Holds(in.section, in.z.base)
    /\ in.does = "ended" /\ faults = 0 => Got = total

FragmentsInv ==
    /\ \A i \in DOMAIN fragments : Genuine(fragments[i])
    /\ faults = 0 => InOrder(fragments)
    /\ faults > 0 => in.does = "ended"

IInv == TypeOK /\ SenderInv /\ WireInv /\ ReceiverInv /\ FragmentsInv

-----------------------------------------------------------------------------
(* Induction over the natural numbers, with a set for the property: such a *)
(* set is all of them, or the least number outside would follow one inside.*)
Inductive(T) == T \subseteq Nat /\ 0 \in T /\ \A k \in T : k + 1 \in T

(* An inductive set holds every number.                                    *)
LEMMA Induction ==
    ASSUME NEW T, Inductive(T)
    PROVE  T = Nat
  <1> DEFINE R == {ss \in Nat \X Nat : ss[1] < ss[2]}
             D == Nat \ T
  <1> USE DEF Inductive
  <1>1. IsWellFoundedOn(R, Nat)
    BY ONLY NatLessThanWellFounded DEF OpToRel
  <1>2. SUFFICES ASSUME D # {} PROVE FALSE
    OBVIOUS
  <1>3. PICK x \in D : \A y \in D : ~ (<<y, x>> \in R)
    <2>1. D \subseteq Nat
      OBVIOUS
    <2> HIDE DEF R, D
    <2> QED BY <1>1, <1>2, <2>1, WFMin
  <1>4. x \in Nat /\ x # 0 /\ x - 1 \in Nat
    OBVIOUS
  <1>5. x - 1 \notin D
    <2>1. <<x - 1, x>> \in Nat \X Nat /\ x - 1 < x
      BY <1>4
    <2>2. <<x - 1, x>> \in R
      BY <2>1
    <2> HIDE DEF R, D
    <2> QED BY <1>3, <2>2
  <1> QED BY <1>4, <1>5

(* The recursion that LengthOf stands for: f sums up the lengths of the    *)
(* fragments in each set of the first n.                                   *)
SizeAt(fs, i) == Len(fs[i].value)

SumsOf(f, fs, n) ==
    f = [S \in SUBSET (1 .. n) |->
            IF S = {} THEN 0 ELSE f[S \ {Max(S)}] + SizeAt(fs, Max(S))]

(* A fragment of a collection has a length.                                *)
LEMMA Sizes ==
    \A fs \in Seq(FragmentType) : \A i \in 1 .. Len(fs) :
        SizeAt(fs, i) \in Nat /\ SizeAt(fs, i) = Len(fs[i].value)
  <1> SUFFICES ASSUME NEW fs \in Seq(FragmentType), NEW i \in 1 .. Len(fs)
               PROVE  SizeAt(fs, i) \in Nat /\ SizeAt(fs, i) = Len(fs[i].value)
    OBVIOUS
  <1>1. fs[i] \in FragmentType
    OBVIOUS
  <1>2. fs[i].value \in Seq(Byte)
    BY <1>1 DEF FragmentType
  <1>3. Len(fs[i].value) \in Nat
    BY <1>2
  <1> QED BY <1>3 DEF SizeAt

(* The largest element of a set.                                           *)
LEMMA MaxIs ==
    ASSUME NEW S \in SUBSET Nat, NEW m \in S, \A i \in S : i <= m
    PROVE  Max(S) = m
  <1>1. \A y \in S : m >= y
    OBVIOUS
  <1>2. ASSUME NEW x \in S, \A y \in S : x >= y PROVE x = m
    <2>1. x >= m /\ m >= x /\ x \in Nat /\ m \in Nat
      BY <1>2, <1>1
    <2> QED BY <2>1
  <1>3. \E x \in S : \A y \in S : x >= y
    BY <1>1
  <1> QED BY <1>2, <1>3 DEF Max

(* There is such a sum of every collection.                                *)
LEMMA SumsExist ==
    ASSUME NEW n \in Nat, NEW fs \in Seq(FragmentType), n <= Len(fs)
    PROVE  \E f : SumsOf(f, fs, n)
  <1> DEFINE P(k) == k <= n => \E f : SumsOf(f, fs, k)
             T == {k \in Nat : P(k)}
  <1>1. 0 \in T
    <2> DEFINE f == [S \in SUBSET (1 .. 0) |-> 0]
    <2>1. SUBSET (1 .. 0) = {{}}
      OBVIOUS
    <2>2. \A S \in SUBSET (1 .. 0) : S = {}
      BY <2>1
    <2>3. SumsOf(f, fs, 0)
      BY <2>2 DEF SumsOf
    <2> QED BY <2>3
  <1>2. ASSUME NEW k \in T PROVE k + 1 \in T
    <2> SUFFICES ASSUME k + 1 <= n PROVE \E g : SumsOf(g, fs, k + 1)
      OBVIOUS
    <2>1. PICK f : SumsOf(f, fs, k)
      OBVIOUS
    <2> DEFINE g == [S \in SUBSET (1 .. k + 1) |->
                        IF k + 1 \in S THEN f[S \ {k + 1}] + SizeAt(fs, k + 1) ELSE f[S]]
               h == [S \in SUBSET (1 .. k + 1) |->
                        IF S = {} THEN 0 ELSE g[S \ {Max(S)}] + SizeAt(fs, Max(S))]
    <2>2. ASSUME NEW S \in SUBSET (1 .. k + 1) PROVE g[S] = h[S]
      <3>1. CASE k + 1 \in S
        <4>1. Max(S) = k + 1
          BY <3>1, MaxIs
        <4>2. S \ {k + 1} \in SUBSET (1 .. k) /\ S \ {k + 1} \in SUBSET (1 .. k + 1)
              /\ k + 1 \notin S \ {k + 1}
          OBVIOUS
        <4>3. g[S \ {k + 1}] = f[S \ {k + 1}]
          BY <4>2
        <4>4. g[S] = f[S \ {k + 1}] + SizeAt(fs, k + 1)
          BY <3>1
        <4>5. h[S] = g[S \ {Max(S)}] + SizeAt(fs, Max(S))
          BY <3>1
        <4> HIDE DEF g, h
        <4> QED BY <4>1, <4>3, <4>4, <4>5
      <3>2. CASE k + 1 \notin S
        <4>1. S \in SUBSET (1 .. k)
          BY <3>2
        <4>2. g[S] = f[S]
          BY <3>2
        <4>3. f[S] = IF S = {} THEN 0 ELSE f[S \ {Max(S)}] + SizeAt(fs, Max(S))
          BY <2>1, <4>1 DEF SumsOf
        <4>4. g[S \ {Max(S)}] = f[S \ {Max(S)}]
          <5>1. S \ {Max(S)} \in SUBSET (1 .. k + 1) /\ k + 1 \notin S \ {Max(S)}
            BY <3>2
          <5> QED BY <5>1
        <4>5. h[S] = IF S = {} THEN 0 ELSE g[S \ {Max(S)}] + SizeAt(fs, Max(S))
          OBVIOUS
        <4> HIDE DEF g, h
        <4> QED BY <4>2, <4>3, <4>4, <4>5
      <3> QED BY <3>1, <3>2
    <2>3. g = h
      BY <2>2
    <2>4. SumsOf(g, fs, k + 1)
      <3> HIDE DEF g
      <3> QED BY <2>3 DEF SumsOf
    <2> QED BY <2>4
  <1>3. T = Nat
    <2> HIDE DEF T
    <2>1. T \subseteq Nat
      BY DEF T
    <2>2. Inductive(T)
      BY <1>1, <1>2, <2>1 DEF Inductive
    <2> QED BY <2>2, Induction
  <1>4. P(n)
    <2>1. n \in T
      BY ONLY <1>3, n \in Nat
    <2> QED BY <2>1
  <1> QED BY <1>4

(* What such a sum adds at the end of a prefix.                            *)
LEMMA SumStep ==
    \A f : \A n, k \in Nat : \A fs \in Seq(FragmentType) :
        n <= Len(fs) /\ SumsOf(f, fs, n) /\ k + 1 <= n => f[1 .. k + 1] = f[1 .. k] + SizeAt(fs, k + 1)
  <1> SUFFICES ASSUME NEW n \in Nat, NEW fs \in Seq(FragmentType), n <= Len(fs), NEW f, SumsOf(f, fs, n), NEW k \in Nat, k + 1 <= n
               PROVE  f[1 .. k + 1] = f[1 .. k] + SizeAt(fs, k + 1)
    OBVIOUS
  <1> DEFINE S == 1 .. k + 1
  <1>1. S \in SUBSET (1 .. n) /\ k + 1 \in S /\ S \in SUBSET Nat
    OBVIOUS
  <1>2. Max(S) = k + 1
    <2>1. k + 1 \in S /\ \A i \in S : i <= k + 1
      OBVIOUS
    <2> HIDE DEF S
    <2> QED BY <1>1, <2>1, MaxIs
  <1>3. S \ {k + 1} = 1 .. k
    OBVIOUS
  <1>4. f[S] = f[S \ {Max(S)}] + SizeAt(fs, Max(S))
    <2> HIDE DEF S
    <2> QED BY <1>1 DEF SumsOf
  <1> QED BY <1>2, <1>3, <1>4

BeginAlike(fs, n, f, gs, m, g, j) ==
    /\ n \in Nat /\ fs \in Seq(FragmentType) /\ n <= Len(fs) /\ SumsOf(f, fs, n)
    /\ m \in Nat /\ gs \in Seq(FragmentType) /\ m <= Len(gs) /\ SumsOf(g, gs, m)
    /\ j \in Nat /\ j <= n /\ j <= m /\ \A i \in 1 .. j : fs[i] = gs[i]

(* Two such sums, of collections that begin alike, agree on the beginning. *)
LEMMA SumsAgree ==
    ASSUME NEW fs, NEW n, NEW f, NEW gs, NEW m, NEW g, NEW j, BeginAlike(fs, n, f, gs, m, g, j)
    PROVE  \A k \in 0 .. j : f[1 .. k] = g[1 .. k] /\ f[1 .. k] \in Nat
  <1>0. /\ n \in Nat /\ fs \in Seq(FragmentType) /\ n <= Len(fs) /\ SumsOf(f, fs, n)
        /\ m \in Nat /\ gs \in Seq(FragmentType) /\ m <= Len(gs) /\ SumsOf(g, gs, m)
        /\ j \in Nat /\ j <= n /\ j <= m /\ \A i \in 1 .. j : fs[i] = gs[i]
    BY DEF BeginAlike
  <1> DEFINE P(k) == k <= j => f[1 .. k] = g[1 .. k] /\ f[1 .. k] \in Nat
             T == {k \in Nat : P(k)}
  <1>1. 0 \in T
    <2>1. (1 .. 0) \in SUBSET (1 .. n) /\ (1 .. 0) \in SUBSET (1 .. m) /\ (1 .. 0) = {}
      BY <1>0
    <2>2. f[1 .. 0] = 0 /\ g[1 .. 0] = 0
      BY <1>0, <2>1 DEF SumsOf
    <2> QED BY <2>2
  <1>2. ASSUME NEW k \in T PROVE k + 1 \in T
    <2> SUFFICES ASSUME k + 1 <= j PROVE f[1 .. k + 1] = g[1 .. k + 1] /\ f[1 .. k + 1] \in Nat
      OBVIOUS
    <2>0. k \in Nat /\ P(k)
      OBVIOUS
    <2>1. f[1 .. k] = g[1 .. k] /\ f[1 .. k] \in Nat
      <3>1. k <= j
        BY <1>0, <2>0
      <3> QED BY <2>0, <3>1
    <2>2. f[1 .. k + 1] = f[1 .. k] + SizeAt(fs, k + 1)
      <3>1. k + 1 <= n /\ k \in Nat
        BY <1>0
      <3> HIDE DEF P, T
      <3> QED BY <1>0, <3>1, SumStep
    <2>3. g[1 .. k + 1] = g[1 .. k] + SizeAt(gs, k + 1)
      <3>1. k + 1 <= m /\ k \in Nat
        BY <1>0
      <3> HIDE DEF P, T
      <3> QED BY <1>0, <3>1, SumStep
    <2>4. SizeAt(fs, k + 1) = SizeAt(gs, k + 1) /\ SizeAt(fs, k + 1) \in Nat
      <3>1. k + 1 \in 1 .. j /\ k + 1 \in 1 .. Len(fs)
        BY <1>0
      <3>2. fs[k + 1] = gs[k + 1]
        BY <1>0, <3>1
      <3> QED BY <1>0, <3>1, <3>2, Sizes DEF SizeAt
    <2> QED BY <2>1, <2>2, <2>3, <2>4
  <1>3. T = Nat
    <2> HIDE DEF T
    <2>1. T \subseteq Nat
      BY DEF T
    <2>2. Inductive(T)
      BY <1>1, <1>2, <2>1 DEF Inductive
    <2> QED BY <2>2, Induction
  <1>4. ASSUME NEW k \in 0 .. j PROVE f[1 .. k] = g[1 .. k] /\ f[1 .. k] \in Nat
    <2>1. k \in Nat /\ k <= j
      BY <1>0
    <2>2. k \in T
      BY ONLY <1>3, <2>1
    <2>3. P(k)
      BY <2>2
    <2> QED BY <2>1, <2>3
  <1> QED BY <1>4

(* The length of a collection is such a sum of all of it.                  *)
LEMMA LengthIsSum ==
    ASSUME NEW fs \in Seq(FragmentType)
    PROVE  \E f : SumsOf(f, fs, Len(fs)) /\ LengthOf(fs) = f[1 .. Len(fs)]
  <1> DEFINE iter == CHOOSE f : f = [s \in SUBSET DOMAIN fs |->
                        IF s = {} THEN 0 ELSE f[s \ {Max(s)}] + Len(fs[Max(s)].value)]
  <1>1. LengthOf(fs) = iter[DOMAIN fs]
    BY DEF LengthOf, FoldLeft, MapThenFoldSet
  <1>2. DOMAIN fs = 1 .. Len(fs) /\ Len(fs) \in Nat
    OBVIOUS
  <1>3. \E f : SumsOf(f, fs, Len(fs))
    <2>1. Len(fs) <= Len(fs)
      BY <1>2
    <2> QED BY <1>2, <2>1, SumsExist
  <1>4. SumsOf(iter, fs, Len(fs))
    <2>1. \E f : f = [s \in SUBSET DOMAIN fs |->
                IF s = {} THEN 0 ELSE f[s \ {Max(s)}] + Len(fs[Max(s)].value)]
      BY <1>2, <1>3 DEF SumsOf, SizeAt
    <2>2. iter = [s \in SUBSET DOMAIN fs |->
                IF s = {} THEN 0 ELSE iter[s \ {Max(s)}] + Len(fs[Max(s)].value)]
      BY <2>1
    <2> HIDE DEF iter
    <2> QED BY <1>2, <2>2 DEF SumsOf, SizeAt
  <1> HIDE DEF iter
  <1> QED BY <1>1, <1>2, <1>4

(* Where a fragment begins is the sum of those before it.                  *)
LEMMA PrecedingIsSum ==
    ASSUME NEW fs \in Seq(FragmentType), NEW f, SumsOf(f, fs, Len(fs)),
           NEW k \in 0 .. Len(fs)
    PROVE  Preceding(fs, k + 1) = f[1 .. k] /\ f[1 .. k] \in Nat
  <1> DEFINE gs == SubSeq(fs, 1, k)
  <1>1. gs \in Seq(FragmentType) /\ Len(gs) = k /\ \A i \in 1 .. k : gs[i] = fs[i]
    OBVIOUS
  <1>2. Preceding(fs, k + 1) = LengthOf(gs)
    <2>1. k + 1 - 1 = k
      OBVIOUS
    <2> QED BY <2>1 DEF Preceding
  <1> HIDE DEF gs
  <1>3. PICK g : SumsOf(g, gs, Len(gs)) /\ LengthOf(gs) = g[1 .. Len(gs)]
    BY <1>1, LengthIsSum
  <1>4. k \in Nat /\ k <= Len(fs) /\ k <= k /\ Len(fs) \in Nat /\ Len(fs) <= Len(fs)
    OBVIOUS
  <1>5. k \in 0 .. k /\ \A i \in 1 .. k : fs[i] = gs[i]
    BY <1>1, <1>4
  <1>6. k <= Len(gs) /\ SumsOf(g, gs, k) /\ LengthOf(gs) = g[1 .. k]
    <2>1. Len(gs) = k
      BY <1>1
    <2>2. k <= Len(gs)
      BY ONLY <1>4, <2>1
    <2>3. SumsOf(g, gs, k)
      BY ONLY <1>3, <2>1, Zenon
    <2>4. LengthOf(gs) = g[1 .. k]
      BY ONLY <1>3, <2>1, Zenon
    <2> QED BY ONLY <2>2, <2>3, <2>4
  <1>7. BeginAlike(fs, Len(fs), f, gs, k, g, k)
    BY <1>1, <1>4, <1>5, <1>6 DEF BeginAlike
  <1>8. f[1 .. k] = g[1 .. k] /\ f[1 .. k] \in Nat
    BY <1>5, <1>7, SumsAgree
  <1> QED BY <1>2, <1>6, <1>8

(* Where the fragments of a collection begin.                              *)
LEMMA Begins ==
    ASSUME NEW fs \in Seq(FragmentType)
    PROVE  /\ Preceding(fs, 1) = 0
           /\ \A k \in 0 .. Len(fs) : Preceding(fs, k + 1) \in Nat
           /\ \A k \in 1 .. Len(fs) :
                 Preceding(fs, k + 1) = Preceding(fs, k) + Len(fs[k].value)
           /\ LengthOf(fs) = Preceding(fs, Len(fs) + 1)
  <1>1. PICK f : SumsOf(f, fs, Len(fs)) /\ LengthOf(fs) = f[1 .. Len(fs)]
    BY LengthIsSum
  <1>2. Len(fs) \in Nat
    OBVIOUS
  <1>3. \A k \in 0 .. Len(fs) : Preceding(fs, k + 1) = f[1 .. k] /\ f[1 .. k] \in Nat
    BY <1>1, PrecedingIsSum
  <1>4. Preceding(fs, 1) = 0
    <2>1. 0 \in 0 .. Len(fs) /\ (1 .. 0) \in SUBSET (1 .. Len(fs)) /\ (1 .. 0) = {}
      BY <1>2
    <2>2. f[1 .. 0] = 0
      BY <1>1, <2>1 DEF SumsOf
    <2>3. Preceding(fs, 0 + 1) = f[1 .. 0]
      BY <1>3, <2>1
    <2>4. 0 + 1 = 1
      OBVIOUS
    <2> QED BY <2>2, <2>3, <2>4
  <1>5. ASSUME NEW k \in 1 .. Len(fs)
        PROVE  Preceding(fs, k + 1) = Preceding(fs, k) + Len(fs[k].value)
    <2> DEFINE j == k - 1
    <2>1. j \in Nat /\ j + 1 = k /\ j + 1 <= Len(fs) /\ j \in 0 .. Len(fs) /\ k \in 0 .. Len(fs)
      BY <1>2
    <2> HIDE DEF j
    <2>2. f[1 .. j + 1] = f[1 .. j] + SizeAt(fs, j + 1)
      <3>1. Len(fs) <= Len(fs)
        BY <1>2
      <3> QED BY <1>1, <1>2, <2>1, <3>1, SumStep
    <2>3. Preceding(fs, j + 1) = f[1 .. j] /\ Preceding(fs, k + 1) = f[1 .. k]
      BY <1>3, <2>1
    <2> QED BY <2>1, <2>2, <2>3 DEF SizeAt
  <1>6. LengthOf(fs) = Preceding(fs, Len(fs) + 1)
    <2>1. Len(fs) \in 0 .. Len(fs)
      BY <1>2
    <2> QED BY <1>1, <1>3, <2>1
  <1>7. \A k \in 0 .. Len(fs) : Preceding(fs, k + 1) \in Nat
    BY <1>3
  <1> QED BY <1>4, <1>5, <1>6, <1>7

(* One fragment more.                                                      *)
LEMMA OneMore ==
    ASSUME NEW fs \in Seq(FragmentType), NEW f \in FragmentType
    PROVE  /\ Append(fs, f) \in Seq(FragmentType) /\ Len(Append(fs, f)) = Len(fs) + 1
           /\ \A k \in 0 .. Len(fs) : Preceding(Append(fs, f), k + 1) = Preceding(fs, k + 1)
           /\ LengthOf(Append(fs, f)) = LengthOf(fs) + Len(f.value)
           /\ LengthOf(fs) \in Nat
  <1> DEFINE gs == Append(fs, f)
             n == Len(fs)
  <1>1. gs \in Seq(FragmentType) /\ Len(gs) = n + 1 /\ gs[n + 1] = f /\ n \in Nat
    OBVIOUS
  <1>2. ASSUME NEW k \in 0 .. n PROVE Preceding(gs, k + 1) = Preceding(fs, k + 1)
    <2>1. k + 1 - 1 = k
      OBVIOUS
    <2>2. SubSeq(gs, 1, k) = SubSeq(fs, 1, k)
      <3>1. SubSeq(gs, 1, k) \in Seq(FragmentType) /\ SubSeq(fs, 1, k) \in Seq(FragmentType)
        OBVIOUS
      <3>2. Len(SubSeq(gs, 1, k)) = k /\ Len(SubSeq(fs, 1, k)) = k
        OBVIOUS
      <3>3. \A i \in 1 .. k : SubSeq(gs, 1, k)[i] = SubSeq(fs, 1, k)[i]
        OBVIOUS
      <3> QED BY <3>1, <3>2, <3>3
    <2> HIDE DEF gs
    <2> DEFINE j == k + 1
    <2>3. Preceding(gs, j) = LengthOf(SubSeq(gs, 1, j - 1))
          /\ Preceding(fs, j) = LengthOf(SubSeq(fs, 1, j - 1))
      BY DEF Preceding
    <2>4. j - 1 = k
      BY <2>1
    <2>5. Preceding(gs, j) = Preceding(fs, j)
      <3> HIDE DEF j
      <3> QED BY <2>2, <2>3, <2>4
    <2> QED BY <2>5
  <1>3. n \in 0 .. n /\ n + 1 \in 1 .. Len(gs)
    BY <1>1
  <1>4. LengthOf(gs) = Preceding(gs, n + 1 + 1)
    BY <1>1, Begins
  <1>5. Preceding(gs, n + 1 + 1) = Preceding(gs, n + 1) + Len(gs[n + 1].value)
    BY <1>1, <1>3, Begins
  <1>6. LengthOf(fs) = Preceding(fs, n + 1) /\ Preceding(fs, n + 1) \in Nat
    BY <1>3, Begins
  <1>7. Preceding(gs, n + 1) = Preceding(fs, n + 1)
    BY <1>2, <1>3
  <1>8. LengthOf(gs) = LengthOf(fs) + Len(f.value)
    <2> HIDE DEF gs, n
    <2> QED BY <1>1, <1>4, <1>5, <1>6, <1>7
  <1> QED BY <1>1, <1>2, <1>6, <1>8
-----------------------------------------------------------------------------
(* The contents of the string, and fragments that follow each other.       *)

DataByte(p) == [kind |-> "data", arg |-> 0, index |-> p]

(* The bytes of the data, by position.                                     *)
LEMMA DataIs ==
    ASSUME NEW from \in Nat, NEW len \in Nat
    PROVE  /\ Data(from, len) \in Seq(Byte) /\ Len(Data(from, len)) = len
           /\ \A i \in 1 .. len : Data(from, len)[i] = DataByte(from + i)
  <1>1. \A i \in 1 .. len : DataByte(from + i) \in Byte
    BY DEF Byte, Kinds, DataByte
  <1>2. Data(from, len) \in [1 .. len -> Byte]
    BY <1>1 DEF Data, DataByte
  <1>3. Data(from, len) \in Seq(Byte) /\ Len(Data(from, len)) = len
    BY <1>2
  <1> QED BY <1>3 DEF Data, DataByte

(* Data that continues where other data ends.                              *)
LEMMA DataFollows ==
    ASSUME NEW from \in Nat, NEW a \in Nat, NEW b \in Nat
    PROVE  Data(from, a) \o Data(from + a, b) = Data(from, a + b)
  <1> DEFINE s == Data(from, a)
             t == Data(from + a, b)
             u == Data(from, a + b)
  <1>0. from + a \in Nat /\ a + b \in Nat
    OBVIOUS
  <1>1. s \in Seq(Byte) /\ Len(s) = a
        /\ \A i \in 1 .. a : s[i] = DataByte(from + i)
    BY DataIs
  <1>2. t \in Seq(Byte) /\ Len(t) = b
        /\ \A i \in 1 .. b : t[i] = DataByte(from + a + i)
    BY <1>0, DataIs
  <1>3. u \in Seq(Byte) /\ Len(u) = a + b
        /\ \A i \in 1 .. a + b : u[i] = DataByte(from + i)
    BY <1>0, DataIs
  <1> HIDE DEF s, t, u
  <1>4. s \o t \in Seq(Byte) /\ Len(s \o t) = a + b
    BY <1>1, <1>2
  <1>5. ASSUME NEW i \in 1 .. a + b PROVE (s \o t)[i] = u[i]
    <2>1. CASE i <= a
      <3>1. i \in 1 .. a /\ (s \o t)[i] = s[i]
        BY <1>1, <1>2, <2>1
      <3> QED BY <1>1, <1>3, <3>1
    <2>2. CASE i > a
      <3>1. i - a \in 1 .. b /\ (s \o t)[i] = t[i - a] /\ from + a + (i - a) = from + i
        BY <1>1, <1>2, <2>2
      <3>2. t[i - a] = DataByte(from + a + (i - a))
        BY <1>2, <3>1
      <3>3. u[i] = DataByte(from + i)
        BY <1>3
      <3>4. DataByte(from + a + (i - a)) = DataByte(from + i)
        BY <3>1
      <3> QED BY <3>1, <3>2, <3>3, <3>4
    <2>3. i <= a \/ i > a
      OBVIOUS
    <2> QED BY <2>1, <2>2, <2>3
  <1>6. s \o t = u
    BY <1>3, <1>4, <1>5
  <1> QED BY <1>6 DEF s, t, u

(* Fragments each of which has what the string has where it begins.        *)
Contiguous(fs) ==
    \A i \in 1 .. Len(fs) : fs[i].value = Data(Preceding(fs, i), Len(fs[i].value))

(* Fragments that hold the data of where they begin, in order, join to the *)
(* data of all their lengths.                                              *)
LEMMA Joined ==
    ASSUME NEW fs \in Seq(FragmentType), Contiguous(fs)
    PROVE  FlattenSeq([i \in DOMAIN fs |-> fs[i].value]) = Data(0, LengthOf(fs))
  <1> DEFINE n == Len(fs)
             seqs == [i \in DOMAIN fs |-> fs[i].value]
             flatten == CHOOSE f : f = [i \in 1 .. Len(seqs) |->
                                        IF i = 1 THEN seqs[i] ELSE f[i - 1] \o seqs[i]]
             g == [i \in 1 .. n |-> Data(0, Preceding(fs, i + 1))]
  <1>1. n \in Nat /\ DOMAIN fs = 1 .. n
    OBVIOUS
  <1>2. Len(seqs) = n /\ DOMAIN seqs = 1 .. n /\ \A i \in 1 .. n : seqs[i] = fs[i].value
    OBVIOUS
  <1>3. LengthOf(fs) = Preceding(fs, n + 1) /\ Preceding(fs, 1) = 0
    BY Begins
  <1>4. CASE n = 0
    <2>1. seqs = << >> /\ LengthOf(fs) = 0
      <3>1. 0 + 1 = 1
        OBVIOUS
      <3>2. LengthOf(fs) = 0
        BY <1>3, <1>4, <3>1
      <3> QED BY <1>2, <1>4, <3>2
    <2>2. FlattenSeq(seqs) = seqs
      <3> HIDE DEF seqs
      <3> QED BY <1>2, <1>4 DEF FlattenSeq
    <2>3. Data(0, 0) = << >>
      BY DEF Data
    <2> QED BY <2>1, <2>2, <2>3
  <1>5. CASE n # 0
    <2>1. FlattenSeq(seqs) = flatten[n]
      <3> HIDE DEF seqs
      <3> QED BY <1>2, <1>5 DEF FlattenSeq
    <2>2. ASSUME NEW i \in 1 .. n
          PROVE  g[i] = IF i = 1 THEN seqs[i] ELSE g[i - 1] \o seqs[i]
      <3>1. seqs[i] = Data(Preceding(fs, i), Len(fs[i].value))
        BY <1>2 DEF Contiguous
      <3>2. Preceding(fs, i + 1) = Preceding(fs, i) + Len(fs[i].value)
        BY Begins
      <3>3. Preceding(fs, i) \in Nat
        <4>1. i - 1 \in 0 .. Len(fs) /\ i - 1 + 1 = i
          BY <1>1
        <4>2. Preceding(fs, i - 1 + 1) \in Nat
          BY <4>1, Begins
        <4> QED BY <4>1, <4>2
      <3>4. Len(fs[i].value) \in Nat
        BY Sizes
      <3>5. g[i] = Data(0, Preceding(fs, i) + Len(fs[i].value))
        BY <3>2
      <3>6. CASE i = 1
        <4>1. Preceding(fs, i) = 0 /\ 0 + Len(fs[i].value) = Len(fs[i].value)
          BY <1>3, <3>4, <3>6
        <4> HIDE DEF g, seqs
        <4> QED BY <3>1, <3>5, <3>6, <4>1
      <3>7. CASE i # 1
        <4>1. i - 1 \in 1 .. n /\ i - 1 + 1 = i
          BY <1>1, <3>7
        <4>2. g[i - 1] = Data(0, Preceding(fs, i))
          <5>1. g[i - 1] = Data(0, Preceding(fs, i - 1 + 1))
            BY <4>1
          <5> HIDE DEF g
          <5> QED BY <4>1, <5>1
        <4>3. Data(0, Preceding(fs, i)) \o Data(0 + Preceding(fs, i), Len(fs[i].value))
              = Data(0, Preceding(fs, i) + Len(fs[i].value))
          <5>1. 0 \in Nat
            OBVIOUS
          <5> QED BY <3>3, <3>4, <5>1, DataFollows
        <4>4. 0 + Preceding(fs, i) = Preceding(fs, i)
          BY <3>3
        <4> HIDE DEF g, seqs
        <4> QED BY <3>1, <3>5, <3>7, <4>2, <4>3, <4>4
      <3> QED BY <3>6, <3>7
    <2>3. g = [i \in 1 .. Len(seqs) |-> IF i = 1 THEN seqs[i] ELSE g[i - 1] \o seqs[i]]
      <3>1. g = [i \in 1 .. n |-> g[i]]
        OBVIOUS
      <3> HIDE DEF g, seqs
      <3> QED BY <1>2, <2>2, <3>1
    <2>4. \A i \in 1 .. n : flatten[i] = IF i = 1 THEN seqs[i] ELSE flatten[i - 1] \o seqs[i]
      <3> HIDE DEF g, seqs
      <3>1. flatten = [i \in 1 .. Len(seqs) |->
                        IF i = 1 THEN seqs[i] ELSE flatten[i - 1] \o seqs[i]]
        BY <2>3
      <3> HIDE DEF flatten
      <3>2. flatten = [i \in 1 .. n |->
                        IF i = 1 THEN seqs[i] ELSE flatten[i - 1] \o seqs[i]]
        BY <1>2, <3>1
      <3> QED BY <3>2
    <2> DEFINE P(k) == k \in 1 .. n => flatten[k] = g[k]
               T == {k \in Nat : P(k)}
    <2> HIDE DEF g, seqs, flatten
    <2>5. 0 \in T
      OBVIOUS
    <2>6. ASSUME NEW k \in T PROVE k + 1 \in T
      <3> SUFFICES ASSUME k + 1 \in 1 .. n PROVE flatten[k + 1] = g[k + 1]
        OBVIOUS
      <3>1. k \in Nat /\ P(k)
        OBVIOUS
      <3>2. CASE k = 0
        <4>1. k + 1 = 1
          BY <3>2
        <4> QED BY <2>2, <2>4, <4>1
      <3>3. CASE k # 0
        <4> DEFINE j == k + 1
        <4>1. k \in 1 .. n /\ j \in 1 .. n /\ j # 1 /\ j - 1 = k
          BY <1>1, <3>1, <3>3
        <4>2. flatten[k] = g[k]
          <5> HIDE DEF T
          <5> QED BY <3>1, <4>1
        <4> HIDE DEF j
        <4>3. flatten[j] = flatten[j - 1] \o seqs[j]
          BY <2>4, <4>1
        <4>4. g[j] = g[j - 1] \o seqs[j]
          BY <2>2, <4>1
        <4>5. flatten[j] = g[j]
          BY <4>1, <4>2, <4>3, <4>4
        <4> QED BY <4>5 DEF j
      <3> QED BY <3>2, <3>3
    <2>7. T = Nat
      <3> HIDE DEF T
      <3>1. T \subseteq Nat
        BY DEF T
      <3>2. Inductive(T)
        BY <2>5, <2>6, <3>1 DEF Inductive
      <3> QED BY <3>2, Induction
    <2>8. flatten[n] = g[n]
      <3>1. n \in T /\ n \in 1 .. n
        BY ONLY <1>1, <1>5, <2>7
      <3> QED BY <3>1
    <2>9. g[n] = Data(0, Preceding(fs, n + 1))
      BY <1>1, <1>5 DEF g
    <2> QED BY <1>3, <2>1, <2>8, <2>9 DEF seqs
  <1> QED BY <1>4, <1>5
(* A set of numbers below a bound has a greatest.                          *)
LEMMA Greatest ==
    \A n \in Nat : \A S \in SUBSET (0 .. n) : S # {} => \E m \in S : \A k \in S : k <= m
  <1> DEFINE P(n) == \A S \in SUBSET (0 .. n) : S # {} => \E m \in S : \A k \in S : k <= m
             T == {n \in Nat : P(n)}
  <1>1. 0 \in T
    <2> SUFFICES ASSUME NEW S \in SUBSET (0 .. 0), S # {}
                 PROVE  \E m \in S : \A k \in S : k <= m
      OBVIOUS
    <2>1. PICK m \in S : TRUE
      OBVIOUS
    <2>2. \A k \in S : k = 0
      OBVIOUS
    <2> QED BY <2>1, <2>2
  <1>2. ASSUME NEW n \in T PROVE n + 1 \in T
    <2> SUFFICES ASSUME NEW S \in SUBSET (0 .. n + 1), S # {}
                 PROVE  \E m \in S : \A k \in S : k <= m
      OBVIOUS
    <2>1. CASE n + 1 \in S
      BY <2>1
    <2>2. CASE n + 1 \notin S
      <3>1. S \in SUBSET (0 .. n)
        BY <2>2
      <3> QED BY <3>1
    <2> QED BY <2>1, <2>2
  <1>3. T = Nat
    <2> HIDE DEF T
    <2>1. T \subseteq Nat
      BY DEF T
    <2>2. Inductive(T)
      BY <1>1, <1>2, <2>1 DEF Inductive
    <2> QED BY <2>2, Induction
  <1>4. ASSUME NEW n \in Nat PROVE P(n)
    <2>1. n \in T
      BY ONLY <1>3, n \in Nat
    <2> QED BY <2>1
  <1> QED BY <1>4

(* Such fragments are joined in a buffer that can hold them and in no      *)
(* smaller one.                                                            *)
LEMMA Spliced ==
    ASSUME NEW fs \in Seq(FragmentType), Contiguous(fs), NEW len \in Nat
    PROVE  LET r == SpliceStringFragments(fs, len)
           IN  IF len < LengthOf(fs) THEN ~ r.ok ELSE r.ok /\ r.result = Data(0, LengthOf(fs))
  <1> DEFINE fitting == {n \in 0 .. Len(fs) : Preceding(fs, n + 1) <= len}
             best == CHOOSE n \in fitting : \A k \in fitting : k <= n
             r == SpliceStringFragments(fs, len)
  <1>1. Len(fs) \in Nat /\ fitting \in SUBSET (0 .. Len(fs))
    OBVIOUS
  <1>2. 0 \in fitting
    <2>1. Preceding(fs, 0 + 1) = 0
      <3>1. 0 + 1 = 1
        OBVIOUS
      <3> QED BY <3>1, Begins
    <2> QED BY <1>1, <2>1
  <1>3. best \in fitting /\ \A k \in fitting : k <= best
    <2>1. \E n \in fitting : \A k \in fitting : k <= n
      <3> HIDE DEF fitting
      <3> QED BY <1>1, <1>2, Greatest
    <2> HIDE DEF fitting
    <2> QED BY <2>1
  <1>4. LengthOf(fs) = Preceding(fs, Len(fs) + 1)
    BY Begins
  <1>5. r.ok = (SubSeq(fs, 1, best) = fs)
    BY DEF SpliceStringFragments
  <1>6. CASE len < LengthOf(fs)
    <2>1. best # Len(fs)
      <3>1. Preceding(fs, best + 1) <= len /\ best \in 0 .. Len(fs)
        <4> HIDE DEF best
        <4> QED BY <1>3
      <3>2. Preceding(fs, best + 1) \in Nat
        <4> HIDE DEF best
        <4> QED BY <3>1, Begins
      <3> HIDE DEF best, fitting
      <3> QED BY <1>4, <1>6, <3>1, <3>2
    <2>2. Len(SubSeq(fs, 1, best)) = best
      <3> HIDE DEF best
      <3> QED BY <1>3
    <2> HIDE DEF best, r
    <2> QED BY <1>5, <1>6, <2>1, <2>2 DEF r
  <1>7. CASE ~ (len < LengthOf(fs))
    <2>1. Len(fs) \in fitting
      <3>1. Len(fs) \in 0 .. Len(fs)
        BY <1>1
      <3>2. Preceding(fs, Len(fs) + 1) \in Nat
        BY <3>1, Begins
      <3> QED BY <1>4, <1>7, <3>1, <3>2
    <2>2. best = Len(fs)
      <3>1. best \in 0 .. Len(fs) /\ Len(fs) <= best
        <4> HIDE DEF best
        <4> QED BY <1>1, <1>3, <2>1
      <3> HIDE DEF best
      <3> QED BY <1>1, <3>1
    <2>3. SubSeq(fs, 1, Len(fs)) = fs
      OBVIOUS
    <2>4. SubSeq(fs, 1, best) = fs
      <3> HIDE DEF best
      <3> QED BY <2>2, <2>3
    <2>5. r.result = FlattenSeq([i \in DOMAIN fs |-> fs[i].value])
      <3>1. r.result = FlattenSeq([i \in DOMAIN SubSeq(fs, 1, best) |->
                                        SubSeq(fs, 1, best)[i].value])
        BY DEF SpliceStringFragments
      <3> HIDE DEF best, r
      <3> QED BY <2>4, <3>1
    <2>6. r.result = Data(0, LengthOf(fs))
      <3> HIDE DEF r
      <3> QED BY <2>5, Joined
    <2> HIDE DEF best, r
    <2> QED BY <1>5, <1>7, <2>4, <2>6 DEF r
  <1> QED BY <1>6, <1>7

(* Fragments of the string that pass the check are all of it, in order.    *)
LEMMA ValidAreWhole ==
    ASSUME NEW fs \in Seq(FragmentType), \A i \in DOMAIN fs : Genuine(fs[i]),
           ValidStringFragments(fs), fs # << >>
    PROVE  Contiguous(fs) /\ LengthOf(fs) = total
  <1>1. Len(fs) \in Nat /\ DOMAIN fs = 1 .. Len(fs) /\ 1 \in DOMAIN fs
    OBVIOUS
  <1>2. ASSUME NEW i \in DOMAIN fs
        PROVE  fs[i].total_len = total /\ fs[i].value = Data(Preceding(fs, i), Len(fs[i].value))
    <2>1. fs[i].present /\ fs[i].offset = Preceding(fs, i)
      BY DEF ValidStringFragments
    <2>2. fs[i] # NoFragment
      BY <2>1 DEF NoFragment
    <2>3. fs[i].total_len = total /\ fs[i].value = Data(fs[i].offset, Len(fs[i].value))
      BY <2>2 DEF Genuine
    <2> QED BY <2>1, <2>3
  <1>3. LengthOf(fs) = fs[1].total_len
    BY DEF ValidStringFragments
  <1> QED BY <1>1, <1>2, <1>3 DEF Contiguous

(* Fragments in order pass the check when they have the whole length.      *)
LEMMA InOrderValid ==
    ASSUME NEW fs \in Seq(FragmentType), InOrder(fs)
    PROVE  ValidStringFragments(fs) <=> (fs # << >> => LengthOf(fs) = total)
  <1>1. fs # << >> => 1 \in DOMAIN fs
    OBVIOUS
  <1>2. fs # << >> => fs[1].total_len = total
    BY <1>1 DEF InOrder
  <1>3. ASSUME NEW i \in DOMAIN fs
        PROVE  /\ fs[i].offset = Preceding(fs, i)
               /\ fs[i].present
               /\ fs[i].total_len = fs[1].total_len
               /\ Preceding(fs, i + 1) <= fs[1].total_len
    <2>1. fs # << >>
      OBVIOUS
    <2> QED BY <1>2, <2>1 DEF InOrder
  <1> QED BY <1>2, <1>3 DEF ValidStringFragments

-----------------------------------------------------------------------------
(* The properties from the invariant.                                      *)

(* Fragments that pass the check join to the whole string, or are none.    *)
LEMMA JoinFromInvariant == TypeOK /\ FragmentsInv => ValidJoinWholeOrNothing
  <1> SUFFICES ASSUME TypeOK, FragmentsInv, ValidStringFragments(fragments),
                      NEW len \in 0 .. total + 1
               PROVE  LET r == SpliceStringFragments(fragments, len)
                      IN  /\ r.ok <=> fragments = << >> \/ len >= total
                          /\ r.ok => r.result = IF fragments = << >> THEN << >>
                                                                   ELSE Data(0, total)
    BY DEF ValidJoinWholeOrNothing
  <1> DEFINE r == SpliceStringFragments(fragments, len)
  <1>1. fragments \in Seq(FragmentType) /\ \A i \in DOMAIN fragments : Genuine(fragments[i])
    BY DEF TypeOK, FragmentsInv
  <1>2. total \in Nat /\ len \in Nat /\ r.ok \in BOOLEAN
    BY TransferAssumption DEF TypeOK, SpliceStringFragments
  <1>3. ASSUME Contiguous(fragments)
        PROVE  IF len < LengthOf(fragments)
               THEN ~ r.ok
               ELSE r.ok /\ r.result = Data(0, LengthOf(fragments))
    BY <1>1, <1>2, <1>3, Spliced
  <1> HIDE DEF r
  <1>4. CASE fragments = << >>
    <2>1. Contiguous(fragments)
      BY <1>4 DEF Contiguous
    <2>2. LengthOf(fragments) = 0 /\ ~ (len < 0)
      <3>1. Len(fragments) + 1 = 1
        BY <1>4
      <3> QED BY <1>1, <1>2, <3>1, Begins
    <2>3. Data(0, 0) = << >>
      BY DEF Data
    <2>4. r.ok /\ r.result = << >>
      BY <1>3, <2>1, <2>2, <2>3
    <2> QED BY <1>4, <2>4 DEF r
  <1>5. CASE fragments # << >>
    <2>1. Contiguous(fragments) /\ LengthOf(fragments) = total
      BY <1>1, <1>5, ValidAreWhole
    <2>2. IF len >= total THEN r.ok /\ r.result = Data(0, total) ELSE ~ r.ok
      BY <1>2, <1>3, <2>1
    <2> QED BY <1>5, <2>2 DEF r
  <1> QED BY <1>4, <1>5

(* The flag of the last fragment says that the fragments are complete.     *)
LEMMA LastFromInvariant == TypeOK /\ FragmentsInv => LastFragmentCompletes
  <1> SUFFICES ASSUME TypeOK, FragmentsInv, fragments # << >>, faults = 0
               PROVE  IsLastFragment(Last(fragments)) <=> ValidStringFragments(fragments)
    BY DEF LastFragmentCompletes
  <1> DEFINE n == Len(fragments)
  <1>1. fragments \in Seq(FragmentType) /\ InOrder(fragments)
    BY DEF TypeOK, FragmentsInv
  <1>2. n \in 1 .. Len(fragments) /\ n \in DOMAIN fragments
    BY <1>1
  <1>3. Preceding(fragments, n + 1) = Preceding(fragments, n) + Len(fragments[n].value)
        /\ LengthOf(fragments) = Preceding(fragments, n + 1)
    BY <1>1, <1>2, Begins
  <1>4. fragments[n].offset = Preceding(fragments, n) /\ fragments[n].total_len = total
    BY <1>1, <1>2 DEF InOrder
  <1>5. IsLastFragment(Last(fragments)) <=> total = LengthOf(fragments)
    BY <1>3, <1>4 DEF IsLastFragment, Last
  <1>6. ValidStringFragments(fragments) <=> LengthOf(fragments) = total
    BY <1>1, InOrderValid
  <1> QED BY <1>5, <1>6

(* The string is delivered whole.                                          *)
LEMMA DeliveredFromInvariant ==
    TypeOK /\ SenderInv /\ ReceiverInv /\ FragmentsInv => DeliveredWhole
  <1> SUFFICES ASSUME TypeOK, SenderInv, ReceiverInv, FragmentsInv PROVE DeliveredWhole
    OBVIOUS
  <1>1. out.does # "failed" /\ in.does # "failed"
    BY DEF SenderInv, ReceiverInv
  <1>2. ASSUME in.does = "ended", faults = 0
        PROVE  /\ ValidStringFragments(fragments)
               /\ SpliceStringFragments(fragments, total).result = Data(0, total)
    <2>1. fragments \in Seq(FragmentType) /\ InOrder(fragments) /\ LengthOf(fragments) = total
      BY <1>2 DEF TypeOK, FragmentsInv, ReceiverInv, Got
    <2>2. ValidStringFragments(fragments)
      BY <2>1, InOrderValid
    <2>3. Contiguous(fragments)
      <3>1. ASSUME NEW i \in 1 .. Len(fragments)
            PROVE  fragments[i].value = Data(Preceding(fragments, i), Len(fragments[i].value))
        <4>1. i \in DOMAIN fragments
          BY <2>1
        <4>2. fragments[i].present /\ fragments[i].offset = Preceding(fragments, i)
          BY <2>1, <4>1 DEF InOrder
        <4>3. fragments[i] # NoFragment
          BY <4>2 DEF NoFragment
        <4>4. Genuine(fragments[i])
          BY <4>1 DEF FragmentsInv
        <4> QED BY <4>2, <4>3, <4>4 DEF Genuine
      <3> QED BY <3>1 DEF Contiguous
    <2>4. total \in Nat /\ ~ (total < total)
      BY TransferAssumption, MaxElemCountAssumption DEF TypeOK
    <2>5. LET r == SpliceStringFragments(fragments, total)
          IN  IF total < LengthOf(fragments) THEN ~ r.ok
              ELSE r.ok /\ r.result = Data(0, LengthOf(fragments))
      BY <2>1, <2>3, <2>4, Spliced
    <2> QED BY <2>1, <2>2, <2>4, <2>5
  <1> QED BY <1>1, <1>2 DEF DeliveredWhole
-----------------------------------------------------------------------------
(* The message.                                                            *)

(* The memory of the sender can hold any section.                          *)
LEMMA OffsetsHold ==
    /\ \A r \in Rooms : \A i \in 0 .. r - 1 : i \in Offsets
    /\ Offsets \subseteq Nat
    /\ Rooms \subseteq Nat
  <1> DEFINE largest == CHOOSE r \in Rooms : \A s \in Rooms : s <= r
  <1>1. largest \in Rooms /\ \A s \in Rooms : s <= largest
    BY TransferAssumption
  <1>2. Rooms \subseteq Nat
    BY TransferAssumption
  <1>3. Offsets = 0 .. largest - 1
    BY DEF Offsets
  <1> HIDE DEF largest
  <1>4. ASSUME NEW r \in Rooms, NEW i \in 0 .. r - 1 PROVE i \in Offsets
    <2>1. r <= largest /\ r \in Nat /\ largest \in Nat
      BY <1>1, <1>2
    <2> QED BY <1>3, <2>1
  <1>5. Offsets \subseteq Nat
    BY <1>1, <1>2, <1>3
  <1> QED BY <1>2, <1>4, <1>5

(* A header is of one of five lengths.                                     *)
LEMMA HeaderLenIs == \A v : HeaderLen(v) \in {1, 2, 3, 5, 9}
  BY DEF HeaderLen

(* How the bytes before the contents compare with the sizes.               *)
LEMMA HeadFacts ==
    total \in Totals =>
        /\ total \in Nat /\ total <= MaxElemCount
        /\ HeaderLen(total) \in Nat /\ HeaderLen(total) >= 1
        /\ HeadLen(total) \in Nat /\ HeadLen(total) = 2 + HeaderLen(total)
        /\ HeadLen(total) <= MaxChunk
  <1> SUFFICES ASSUME total \in Totals
               PROVE  /\ total \in Nat /\ total <= MaxElemCount
                      /\ HeaderLen(total) \in Nat /\ HeaderLen(total) >= 1
                      /\ HeadLen(total) \in Nat /\ HeadLen(total) = 2 + HeaderLen(total)
                      /\ HeadLen(total) <= MaxChunk
    OBVIOUS
  <1>1. total \in Nat /\ total <= MaxElemCount /\ HeadLen(total) <= MaxChunk
    BY TransferAssumption, MaxElemCountAssumption
  <1>2. HeaderLen(total) \in Nat /\ HeaderLen(total) >= 1
    BY HeaderLenIs
  <1>3. HeadLen(total) = 2 + HeaderLen(total)
    BY DEF HeadLen
  <1> QED BY <1>1, <1>2, <1>3

(* The message is made of bytes.                                           *)
LEMMA MessageIsBytes == total \in Totals => \A p \in Nat : MessageAt(p) \in Byte
  <1> SUFFICES ASSUME total \in Totals, NEW p \in Nat PROVE MessageAt(p) \in Byte
    OBVIOUS
  <1> DEFINE h == HeadLen(total)
  <1>1. total \in Nat /\ h \in Nat /\ h >= 3
    BY HeadFacts
  <1> HIDE DEF h
  <1>2. CASE p = 0
    BY <1>2 DEF MessageAt, Byte, Kinds
  <1>3. CASE p = 1
    BY <1>3 DEF MessageAt, Byte, Kinds
  <1>4. CASE p # 0 /\ p # 1 /\ p < h
    <2>1. p - 1 \in Nat
      BY <1>4
    <2> QED BY <1>1, <1>4, <2>1 DEF MessageAt, Byte, Kinds, h
  <1>5. CASE p # 0 /\ p # 1 /\ ~ (p < h)
    <2>1. p - h + 1 \in Nat
      BY <1>1, <1>5
    <2> QED BY <1>1, <1>5, <2>1 DEF MessageAt, Byte, Kinds, h
  <1> QED BY <1>2, <1>3, <1>4, <1>5

(* The contents of the string in the message.                              *)
LEMMA MessageData ==
    total \in Totals =>
        \A q \in Nat : MessageAt(HeadLen(total) + q) = DataByte(q + 1)
  <1> SUFFICES ASSUME total \in Totals, NEW q \in Nat
               PROVE  MessageAt(HeadLen(total) + q) = DataByte(q + 1)
    OBVIOUS
  <1> DEFINE h == HeadLen(total)
             p == h + q
  <1>1. h \in Nat /\ h >= 3
    BY HeadFacts
  <1> HIDE DEF h
  <1>2. p # 0 /\ p # 1 /\ ~ (p < h) /\ p - h + 1 = q + 1
    BY <1>1
  <1> HIDE DEF p
  <1>3. MessageAt(p) = DataByte(p - h + 1)
    BY <1>2 DEF MessageAt, DataByte, h
  <1> QED BY <1>2, <1>3 DEF p, h

(* Writing the next bytes of the message behind those in the section.      *)
LEMMA SectionGrows ==
    ASSUME NEW mem \in [Offsets -> Byte], NEW base \in Nat, NEW p \in Nat,
           Section(mem, base, p),
           NEW bytes \in Seq(Byte),
           \A j \in 1 .. Len(bytes) : bytes[j] = MessageAt(base + p + j - 1),
           NEW room \in Rooms, p + Len(bytes) <= room
    PROVE  /\ Write(mem, p, bytes) \in [Offsets -> Byte]
           /\ Section(Write(mem, p, bytes), base, p + Len(bytes))
  <1> DEFINE n == Len(bytes)
             w == Write(mem, p, bytes)
  <1>1. n \in Nat /\ \A j \in 1 .. n : bytes[j] \in Byte
    OBVIOUS
  <1>2. room \in Nat /\ Offsets \subseteq Nat /\ \A i \in 0 .. room - 1 : i \in Offsets
    BY OffsetsHold
  <1>3. w = [i \in Offsets |-> IF i \in p .. p + n - 1 THEN bytes[i - p + 1] ELSE mem[i]]
    BY DEF Write
  <1> HIDE DEF n, w
  <1>4. ASSUME NEW i \in Offsets PROVE w[i] \in Byte
    <2>1. CASE i \in p .. p + n - 1
      <3>1. i - p + 1 \in 1 .. n
        BY <1>1, <2>1
      <3> QED BY <1>1, <1>3, <2>1, <3>1
    <2>2. CASE i \notin p .. p + n - 1
      BY <1>3, <2>2
    <2> QED BY <2>1, <2>2
  <1>5. w \in [Offsets -> Byte]
    BY <1>3, <1>4
  <1>6. ASSUME NEW i \in 0 .. p + n - 1 PROVE w[i] = MessageAt(base + i)
    <2>1. i \in Offsets
      <3>1. i \in 0 .. room - 1
        BY <1>1, <1>2 DEF n
      <3> QED BY <1>2, <3>1
    <2>2. CASE i < p
      <3>1. i \in 0 .. p - 1 /\ i \notin p .. p + n - 1
        BY <1>1, <2>2
      <3> QED BY <1>3, <2>1, <3>1 DEF Section
    <2>3. CASE ~ (i < p)
      <3>1. i \in p .. p + n - 1 /\ i - p + 1 \in 1 .. n /\ base + p + (i - p + 1) - 1 = base + i
        BY <1>1, <2>3
      <3>2. w[i] = bytes[i - p + 1]
        BY <1>3, <2>1, <3>1
      <3>3. bytes[i - p + 1] = MessageAt(base + p + (i - p + 1) - 1)
        BY <3>1 DEF n
      <3> QED BY <3>1, <3>2, <3>3
    <2> QED BY <2>2, <2>3
  <1>7. Section(w, base, p + n)
    <2>1. \A i \in 0 .. (p + n) - 1 : w[i] = MessageAt(base + i)
      <3>1. 0 .. (p + n) - 1 = 0 .. p + n - 1
        BY <1>1 DEF n
      <3> QED BY <1>6, <3>1
    <2> QED BY ONLY <2>1 DEF Section
  <1> QED BY <1>5, <1>7 DEF n, w

(* The bytes of a section, as the sender ships them.                       *)
LEMMA WrittenHolds ==
    ASSUME NEW mem \in [Offsets -> Byte], NEW base \in Nat, NEW p \in Nat,
           Section(mem, base, p), NEW room \in Rooms, p <= room
    PROVE  LET bytes == [i \in 1 .. p |-> mem[i - 1]]
           IN  bytes \in Seq(Byte) /\ Len(bytes) = p /\ Holds(bytes, base)
  <1> DEFINE bytes == [i \in 1 .. p |-> mem[i - 1]]
  <1>1. ASSUME NEW i \in 1 .. p PROVE mem[i - 1] \in Byte /\ mem[i - 1] = MessageAt(base + i - 1)
    <2>1. room \in Nat
      BY OffsetsHold
    <2>2. i - 1 \in 0 .. room - 1 /\ i - 1 \in 0 .. p - 1 /\ base + (i - 1) = base + i - 1
      BY <2>1
    <2>3. i - 1 \in Offsets
      BY <2>2, OffsetsHold
    <2>4. mem[i - 1] = MessageAt(base + (i - 1))
      BY <2>2 DEF Section
    <2> QED BY <2>2, <2>3, <2>4
  <1>2. bytes \in Seq(Byte) /\ Len(bytes) = p
    BY <1>1
  <1>3. Holds(bytes, base)
    <2>1. \A i \in 1 .. p : bytes[i] = MessageAt(base + i - 1)
      BY <1>1
    <2> HIDE DEF bytes
    <2> QED BY <1>2, <2>1 DEF Holds
  <1> QED BY <1>2, <1>3
-----------------------------------------------------------------------------
(* The sender.                                                             *)

(* A state at position p of a first section of room bytes, before the      *)
(* string, with n elements counted and the backup of the list.             *)
Opened(z, room, p, n) ==
    /\ z \in Context /\ z.base = 0
    /\ z.state.payload = p /\ z.state.payload_end = room /\ z.state.elem_count = n
    /\ ~ z.state.inside_frag_str /\ ~ z.state.inside_cbor_bstr
    /\ Len(z.backup_list) = 1

(* A value put.                                                            *)
LEMMA ValuePut ==
    ASSUME NEW z, NEW m, NEW room \in Nat, NEW p \in Nat, NEW n \in Nat, Opened(z, room, p, n),
           n < MaxElemCount, NEW kind, NEW arg, NEW len \in Nat, p + len <= room
    PROVE  LET r == ValueEncodeLen(z, m, kind, arg, len)
           IN  r.ok /\ r.mem = Write(m, p, Bytes(kind, arg, len)) /\ Opened(r.z, room, p + len, n + 1)
  <1> DEFINE s == [z.state EXCEPT !.payload = @ + len, !.elem_count = Incremented(@)]
             d == [z EXCEPT !.state = s]
             w == Write(m, p, Bytes(kind, arg, len))
             r == ValueEncodeLen(z, m, kind, arg, len)
  <1>1. z \in Context /\ z.state \in State /\ z.state.payload = p /\ z.state.payload_end = room
        /\ z.state.elem_count = n /\ ~ z.state.inside_frag_str
    BY ContextFields DEF Opened
  <1>2. Incremented(n) = n + 1 /\ n + 1 \in 0 .. MaxElemCount
    BY MaxElemCountAssumption DEF Incremented
  <1>3. s \in State /\ s.payload = p + len /\ s.elem_count = n + 1 /\ s.payload_end = room
        /\ s.inside_frag_str = z.state.inside_frag_str
        /\ s.inside_cbor_bstr = z.state.inside_cbor_bstr
    <2> DEFINE q == p + len
               k == n + 1
               t == [z.state EXCEPT !.payload = q, !.elem_count = k]
    <2>1. q \in Nat /\ k \in 0 .. MaxElemCount
      BY <1>2
    <2>2. s = t
      BY <1>1, <1>2
    <2> HIDE DEF q, k, s
    <2>3. t \in State
      BY <1>1, <2>1 DEF State
    <2>4. t.payload = q /\ t.elem_count = k /\ t.payload_end = z.state.payload_end
          /\ t.inside_frag_str = z.state.inside_frag_str
          /\ t.inside_cbor_bstr = z.state.inside_cbor_bstr
      BY <1>1 DEF State
    <2> HIDE DEF t
    <2> QED BY <1>1, <2>2, <2>3, <2>4 DEF q, k
  <1>4. Counted(Advanced(z, len)) = d
    BY <1>1 DEF Counted, Advanced, Context, State
  <1>5. r = Wrote(Counted(Advanced(z, len)), Write(m, z.state.payload, Bytes(kind, arg, len)))
    BY <1>1 DEF ValueEncodeLen
  <1>6. r = Wrote(d, w)
    <2> HIDE DEF d, r
    <2> QED BY <1>1, <1>4, <1>5
  <1>7. r.ok /\ r.mem = w /\ r.z = d
    <2> HIDE DEF d, r, w
    <2> QED BY <1>6 DEF Wrote
  <1>8. Opened(d, room, p + len, n + 1)
    <2>1. d \in Context /\ d.base = z.base /\ d.state = s /\ d.backup_list = z.backup_list
      <3> HIDE DEF s
      <3> QED BY <1>1, <1>3 DEF Context
    <2> HIDE DEF s, d
    <2> QED BY <1>3, <2>1 DEF Opened
  <1> HIDE DEF r, d, w
  <1>9. r.ok /\ r.mem = w /\ Opened(r.z, room, p + len, n + 1)
    BY <1>7, <1>8
  <1> QED BY <1>9 DEF r, w

(* Where the headers are in the message.                                   *)
LEMMA HeadBytes ==
    total \in Totals =>
        /\ Bytes("list", 2, 1) = <<MessageAt(0)>> /\ Bytes("value", 1, 1) = <<MessageAt(1)>>
        /\ \A j \in 1 .. HeaderLen(total) :
            Bytes("tstr", total, HeaderLen(total))[j] = MessageAt(2 + j - 1)
        /\ Bytes("tstr", total, HeaderLen(total)) \in Seq(Byte)
        /\ Len(Bytes("tstr", total, HeaderLen(total))) = HeaderLen(total)
  <1> SUFFICES ASSUME total \in Totals
      PROVE
        /\ Bytes("list", 2, 1) = <<MessageAt(0)>> /\ Bytes("value", 1, 1) = <<MessageAt(1)>>
        /\ \A j \in 1 .. HeaderLen(total) :
            Bytes("tstr", total, HeaderLen(total))[j] = MessageAt(2 + j - 1)
        /\ Bytes("tstr", total, HeaderLen(total)) \in Seq(Byte)
        /\ Len(Bytes("tstr", total, HeaderLen(total))) = HeaderLen(total)
    OBVIOUS
  <1>1. Bytes("list", 2, 1) = <<MessageAt(0)>>
    <2>1. MessageAt(0) = [kind |-> "list", arg |-> 2, index |-> 1]
      BY DEF MessageAt
    <2>2. Bytes("list", 2, 1) = [i \in 1 .. 1 |-> [kind |-> "list", arg |-> 2, index |-> i]]
      BY DEF Bytes
    <2> QED BY <2>1, <2>2
  <1>2. Bytes("value", 1, 1) = <<MessageAt(1)>>
    <2>1. MessageAt(1) = [kind |-> "value", arg |-> 1, index |-> 1]
      BY DEF MessageAt
    <2>2. Bytes("value", 1, 1) = [i \in 1 .. 1 |-> [kind |-> "value", arg |-> 1, index |-> i]]
      BY DEF Bytes
    <2> QED BY <2>1, <2>2
  <1> DEFINE h == HeaderLen(total)
             bytes == Bytes("tstr", total, h)
  <1>3. h \in Nat /\ HeadLen(total) = 2 + h /\ total \in Nat
    BY HeadFacts
  <1> HIDE DEF h
  <1>4. ASSUME NEW j \in 1 .. h PROVE bytes[j] = MessageAt(2 + j - 1) /\ MessageAt(2 + j - 1) \in Byte
    <2> DEFINE p == 2 + j - 1
    <2>1. p \in Nat /\ p # 0 /\ p # 1 /\ p < HeadLen(total) /\ p - 1 = j
      BY <1>3
    <2> HIDE DEF p
    <2>2. MessageAt(p) = [kind |-> "tstr", arg |-> total, index |-> j]
      BY <2>1 DEF MessageAt
    <2>3. bytes[j] = [kind |-> "tstr", arg |-> total, index |-> j]
      BY DEF Bytes
    <2>4. MessageAt(p) \in Byte
      BY <2>1, MessageIsBytes
    <2>5. bytes[j] = MessageAt(p)
      BY <2>2, <2>3
    <2> QED BY <2>4, <2>5 DEF p
  <1>5. bytes = [j \in 1 .. h |-> bytes[j]]
    BY DEF Bytes
  <1> HIDE DEF bytes
  <1>6. bytes \in Seq(Byte) /\ Len(bytes) = h
    BY <1>3, <1>4, <1>5
  <1> QED BY <1>1, <1>2, <1>4, <1>6 DEF bytes, h
(* The list is begun: its backup is taken, and its header does not count.  *)
LEMMA ListBegun ==
    ASSUME NEW room \in Nat, room >= 1, NEW m
    PROVE  LET r == ListMapStartEncode(NewState(room, 0), m, "list", 2)
           IN  r.ok /\ r.mem = Write(m, 0, Bytes("list", 2, 1)) /\ Opened(r.z, room, 1, 0)
  <1> DEFINE z == NewState(room, 0)
             b == NewBackup(z, 0)
             v == ValueEncodeLen(b.z, m, "list", 2, 1)
             r == ListMapStartEncode(z, m, "list", 2)
  <1>1. b.ok /\ Opened(b.z, room, 0, 0)
    <2> DEFINE s == [z.state EXCEPT !.payload_moved = FALSE]
               t == [s EXCEPT !.elem_count = 0]
    <2>1. z.state \in State /\ z.state.payload = 0 /\ z.state.payload_end = room
          /\ ~ z.state.inside_frag_str /\ ~ z.state.inside_cbor_bstr
          /\ z.backup_list = << >> /\ z.base = 0 /\ z.section = 0
      BY MaxElemCountAssumption DEF NewState, State, DecodeState
    <2>2. z \in Context
      BY <2>1 DEF NewState, Context
    <2> HIDE DEF z
    <2>3. s \in State /\ s.payload = 0 /\ s.payload_end = room
          /\ ~ s.inside_frag_str /\ ~ s.inside_cbor_bstr
      BY <2>1 DEF State
    <2>4. t \in State /\ t.payload = 0 /\ t.payload_end = room /\ t.elem_count = 0
          /\ ~ t.inside_frag_str /\ ~ t.inside_cbor_bstr
      <3> HIDE DEF s
      <3> QED BY <2>3, MaxElemCountAssumption DEF State
    <2> DEFINE d == [z EXCEPT !.state = t, !.backup_list = Append(@, s)]
    <2>5. b = Done(d)
      <3>1. ~ (Len(z.backup_list) >= NumBackups)
        BY <2>1, TransferAssumption, NumBackupsAssumption
      <3> QED BY <3>1 DEF NewBackup
    <2> HIDE DEF s, t
    <2>6. d.state = t /\ d.backup_list = <<s>> /\ d.base = 0 /\ d.section = 0 /\ d \in Context
      <3> DEFINE list == Append(z.backup_list, s)
      <3>1. list = <<s>> /\ list \in Seq(State) /\ Len(list) = 1
        BY <2>1, <2>3
      <3>2. d = [z EXCEPT !.state = t, !.backup_list = list]
        BY <2>2 DEF Context
      <3> HIDE DEF list, d
      <3>3. d \in Context /\ d.state = t /\ d.backup_list = list
            /\ d.base = z.base /\ d.section = z.section
        BY <2>2, <2>4, <3>1, <3>2 DEF Context
      <3> QED BY <2>1, <3>1, <3>3
    <2> HIDE DEF d, b
    <2>7. b.ok /\ b.z = d
      BY <2>5 DEF Done
    <2> QED BY <2>4, <2>6, <2>7 DEF Opened
  <1>2. HeaderLen(2) = 1
    BY TransferAssumption, ThresholdsAssumption DEF HeaderLen
  <1>3. v.ok /\ v.mem = Write(m, 0, Bytes("list", 2, 1)) /\ Opened(v.z, room, 1, 1)
    <2> HIDE DEF b
    <2> DEFINE kind == "list"
               arg == 2
    <2>1. 0 + 1 <= room /\ 0 \in Nat /\ 1 \in Nat /\ 0 < MaxElemCount /\ 0 + 1 = 1
      BY MaxElemCountAssumption
    <2> HIDE DEF kind, arg
    <2>2. LET w == ValueEncodeLen(b.z, m, kind, arg, 1)
          IN  w.ok /\ w.mem = Write(m, 0, Bytes(kind, arg, 1)) /\ Opened(w.z, room, 0 + 1, 0 + 1)
      BY <1>1, <2>1, ValuePut
    <2> QED BY <2>1, <2>2 DEF kind, arg
  <1>4. r = Wrote(Uncounted(v.z), v.mem)
    <2>1. v = ValueEncode(b.z, m, "list", 2)
      BY <1>2 DEF ValueEncode
    <2> HIDE DEF v
    <2> QED BY <1>1, <1>3, <2>1 DEF ListMapStartEncode
  <1>5. Opened(Uncounted(v.z), room, 1, 0)
    <2> HIDE DEF v
    <2> DEFINE y == v.z
               s == [y.state EXCEPT !.elem_count = 0]
               d == [y EXCEPT !.state = s]
    <2>1. y \in Context /\ y.state \in State /\ y.state.elem_count = 1 /\ y.base = 0
          /\ y.state.payload = 1 /\ y.state.payload_end = room
          /\ ~ y.state.inside_frag_str /\ ~ y.state.inside_cbor_bstr /\ Len(y.backup_list) = 1
      BY <1>3, ContextFields DEF Opened
    <2> HIDE DEF y
    <2>2. s \in State /\ s.payload = 1 /\ s.payload_end = room /\ s.elem_count = 0
          /\ ~ s.inside_frag_str /\ ~ s.inside_cbor_bstr
      BY <2>1, MaxElemCountAssumption DEF State
    <2>3. Uncounted(y) = d
      <3>1. Decremented(y.state.elem_count) = 0
        BY <2>1 DEF Decremented
      <3> QED BY <2>1, <3>1 DEF Uncounted, Context, State
    <2> HIDE DEF s
    <2>4. d \in Context /\ d.base = 0 /\ d.state = s /\ d.backup_list = y.backup_list
      BY <2>1, <2>2 DEF Context
    <2> HIDE DEF d
    <2>5. Opened(d, room, 1, 0)
      BY <2>1, <2>2, <2>4 DEF Opened
    <2> QED BY <2>3, <2>5 DEF y
  <1> HIDE DEF v, r
  <1>6. r.ok /\ r.mem = v.mem /\ r.z = Uncounted(v.z)
    BY <1>4 DEF Wrote
  <1>7. r.ok /\ r.mem = Write(m, 0, Bytes("list", 2, 1)) /\ Opened(r.z, room, 1, 0)
    BY <1>3, <1>5, <1>6
  <1> QED BY <1>7 DEF r, z

(* The string is begun: its header is the last before the contents.        *)
Begun(z, room) ==
    /\ z \in Context /\ InString(z, 0) /\ z.base = 0
    /\ z.state.payload = HeadLen(total) /\ z.state.payload_end = room

(* The sender writes the header of the string after that of the value.     *)
LEMMA StringBegun ==
    ASSUME total \in Totals, NEW z, NEW m, NEW room \in Nat, HeadLen(total) <= room,
           Opened(z, room, 2, 1)
    PROVE  LET r == FragmentsStartEncode(z, m, "tstr", total, FALSE)
           IN  /\ r.ok /\ r.mem = Write(m, 2, Bytes("tstr", total, HeaderLen(total)))
               /\ Begun(r.z, room) /\ r.z.state.elem_count = 2
  <1> DEFINE h == HeaderLen(total)
             v == ValueEncodeLen(z, m, "tstr", total, h)
             r == FragmentsStartEncode(z, m, "tstr", total, FALSE)
  <1>1. h \in Nat /\ h >= 1 /\ HeadLen(total) = 2 + h /\ total \in Nat
    BY HeadFacts
  <1> HIDE DEF h
  <1>2. v.ok /\ v.mem = Write(m, 2, Bytes("tstr", total, h)) /\ Opened(v.z, room, 2 + h, 2)
    <2> DEFINE kind == "tstr"
               two == 2
               one == 1
    <2>1. two + h <= room /\ one < MaxElemCount /\ one + 1 = two /\ two \in Nat /\ one \in Nat
      BY <1>1, MaxElemCountAssumption
    <2>2. Opened(z, room, two, one)
      OBVIOUS
    <2> HIDE DEF kind, two, one
    <2>3. LET w == ValueEncodeLen(z, m, kind, total, h)
          IN  w.ok /\ w.mem = Write(m, two, Bytes(kind, total, h))
              /\ Opened(w.z, room, two + h, one + 1)
      BY <1>1, <2>1, <2>2, ValuePut
    <2>4. Opened(v.z, room, two + h, two)
      BY <2>1, <2>3 DEF kind
    <2> QED BY <2>3, <2>4 DEF kind, two
  <1> DEFINE s == [v.z.state EXCEPT !.frag_offset = 0 - v.z.state.payload,
                                    !.str_total_len = total, !.inside_frag_str = TRUE]
             d == [v.z EXCEPT !.state = s]
  <1>3. r = Wrote(d, v.mem)
    <2>1. Done(z).ok /\ Done(z).z = z
      BY DEF Done
    <2>2. ValueEncode(z, m, "tstr", total) = v
      BY DEF ValueEncode, h
    <2>3. ~ (Room(z.state) <= 0) /\ ~ z.state.inside_cbor_bstr
      BY <1>1 DEF Opened, Room
    <2> HIDE DEF v
    <2> QED BY <1>2, <2>1, <2>2, <2>3 DEF FragmentsStartEncode
  <1> HIDE DEF r
  <1>4. Begun(d, room) /\ d.state.elem_count = 2
    <2> HIDE DEF v
    <2> DEFINE y == v.z
               p == 2 + h
    <2>1. y \in Context /\ y.state \in State /\ y.state.elem_count = 2 /\ y.base = 0
          /\ y.state.payload = p /\ y.state.payload_end = room
          /\ ~ y.state.inside_cbor_bstr /\ Len(y.backup_list) = 1
      BY <1>2, ContextFields DEF Opened
    <2>2. 0 - p \in Int /\ p = HeadLen(total) /\ p <= room /\ p \in Nat
      BY <1>1
    <2> HIDE DEF y, p
    <2> DEFINE t == [y.state EXCEPT !.frag_offset = 0 - p,
                                    !.str_total_len = total, !.inside_frag_str = TRUE]
    <2>3. s = t
      BY <2>1 DEF y
    <2>4. t \in State
      BY <1>1, <2>1, <2>2 DEF State
    <2>5. t.frag_offset = 0 - p /\ t.str_total_len = total /\ t.inside_frag_str
          /\ ~ t.inside_cbor_bstr /\ t.payload = p /\ t.payload_end = room /\ t.elem_count = 2
      BY <2>1 DEF State
    <2> HIDE DEF s, t
    <2>6. d.state = t /\ d.base = 0 /\ d.backup_list = y.backup_list /\ d \in Context
      BY <2>1, <2>3, <2>4 DEF Context, y
    <2> HIDE DEF d
    <2>7. InString(d, 0)
      <3>1. 0 \in 0 .. total /\ 0 + p = HeadLen(total) + 0 /\ 0 - p = 0 - HeadLen(total)
        BY <1>1, <2>2
      <3> QED BY <2>1, <2>2, <2>5, <2>6, <3>1 DEF InString
    <2> QED BY <2>2, <2>5, <2>6, <2>7 DEF Begun
  <1> HIDE DEF d, v
  <1>5. r.ok /\ r.mem = v.mem /\ r.z = d
    BY <1>3 DEF Wrote
  <1>6. r.ok /\ r.mem = Write(m, 2, Bytes("tstr", total, h)) /\ Begun(r.z, room)
        /\ r.z.state.elem_count = 2
    BY <1>2, <1>4, <1>5
  <1> QED BY <1>6 DEF r, h
(* The message does not change.                                            *)
LEMMA SameMessage ==
    total' = total =>
        /\ \A z, n : InString(z, n)' <=> InString(z, n)
        /\ \A s, n : Holds(s, n)' <=> Holds(s, n)
        /\ \A m, n, p : Section(m, n, p)' <=> Section(m, n, p)
        /\ \A f : Genuine(f)' <=> Genuine(f)
        /\ \A fs : InOrder(fs)' <=> InOrder(fs)
  BY DEF InString, Holds, Section, Genuine, InOrder, MessageAt

(* A step of the sender leaves the receiver and the fragments alone.       *)
LEMMA SenderFrame ==
    /\ IInv /\ UNCHANGED <<total, in, fragments, faults>>
    /\ out'.z \in Context /\ out'.mem \in [Offsets -> Byte] /\ out'.fed \in 0 .. total
    /\ wire' \in Seq(Byte) /\ SenderInv' /\ WireInv'
    => IInv'
  <1> SUFFICES ASSUME IInv, UNCHANGED <<total, in, fragments, faults>>,
                      out'.z \in Context, out'.mem \in [Offsets -> Byte], out'.fed \in 0 .. total,
                      wire' \in Seq(Byte), SenderInv', WireInv'
               PROVE  IInv'
    OBVIOUS
  <1>1. TypeOK'
    BY DEF IInv, TypeOK
  <1>2. ReceiverInv'
    <2>1. Got' = Got
      BY DEF Got
    <2> QED BY <2>1, SameMessage DEF IInv, ReceiverInv
  <1>3. FragmentsInv'
    BY SameMessage DEF IInv, FragmentsInv
  <1> QED BY <1>1, <1>2, <1>3 DEF IInv

(* The sender has written all before the contents, or has not begun.       *)
LEMMA SendBeginStep == IInv /\ SendBegin => IInv'
  <1> SUFFICES ASSUME IInv, SendBegin PROVE IInv'
    OBVIOUS
  <1> DEFINE h == HeaderLen(total)
             list   == ListMapStartEncode(out.z, out.mem, "list", 2)
             member == ValueEncodeLen(list.z, list.mem, "value", 1, 1)
             string == FragmentsStartEncode(member.z, member.mem, "tstr", total, FALSE)
  <1>1. total \in Totals /\ out.mem \in [Offsets -> Byte] /\ wire \in Seq(Byte) /\ out.does = "begin"
    BY DEF IInv, TypeOK, SendBegin
  <1>2. h \in Nat /\ h >= 1 /\ HeadLen(total) = 2 + h /\ total \in Nat /\ HeadLen(total) \in Nat
    BY <1>1, HeadFacts
  <1>3. PICK room \in Rooms : room > HeadLen(total) /\ out.z = NewState(room, 0)
    BY <1>1 DEF IInv, SenderInv
  <1>4. room \in Nat /\ room >= 1 /\ 1 <= room /\ 1 + 1 <= room /\ 2 + h <= room /\ HeadLen(total) <= room
    BY <1>2, <1>3, OffsetsHold
  <1>5. list.ok /\ list.mem = Write(out.mem, 0, Bytes("list", 2, 1)) /\ Opened(list.z, room, 1, 0)
    BY <1>3, <1>4, ListBegun
  <1>6. member.ok /\ member.mem = Write(list.mem, 1, Bytes("value", 1, 1)) /\ Opened(member.z, room, 2, 1)
    <2> DEFINE kind == "value"
               one == 1
               none == 0
    <2>1. one + one <= room /\ one \in Nat /\ none \in Nat /\ none < MaxElemCount /\ none + one = one
          /\ one + one = 2
      BY <1>4, MaxElemCountAssumption
    <2> HIDE DEF list
    <2>2. Opened(list.z, room, one, none)
      BY <1>5
    <2>3. member = ValueEncodeLen(list.z, list.mem, kind, one, one)
      OBVIOUS
    <2> HIDE DEF member
    <2>4. /\ member.ok /\ member.mem = Write(list.mem, one, Bytes(kind, one, one))
          /\ Opened(member.z, room, one + one, none + one)
      <3> HIDE DEF kind, one, none
      <3> QED BY <1>4, <2>1, <2>2, <2>3, ValuePut
    <2> QED BY <2>1, <2>4
  <1>7. /\ string.ok /\ string.mem = Write(member.mem, 2, Bytes("tstr", total, h))
        /\ Begun(string.z, room) /\ string.z.state.elem_count = 2
    <2> HIDE DEF list, member
    <2> QED BY <1>1, <1>4, <1>6, StringBegun
  <1>8. out' = [z |-> string.z, mem |-> string.mem, fed |-> 0, does |-> "feed"]
        /\ UNCHANGED <<total, in, fragments, faults, wire>>
    <2>1. Sent(string, 0, "feed") /\ UNCHANGED <<total, in, fragments, faults, wire>>
      <3>1. Sent(IF ~ list.ok THEN list ELSE IF ~ member.ok THEN member ELSE string, 0, "feed")
            /\ UNCHANGED <<total, in, fragments, faults, wire>>
        BY DEF SendBegin, Sender
      <3> HIDE DEF list, member, string
      <3> QED BY <1>5, <1>6, <3>1
    <2> HIDE DEF list, member, string
    <2> QED BY <1>7, <2>1 DEF Sent
  <1> HIDE DEF list, member, string
  <1>9. /\ string.mem \in [Offsets -> Byte]
        /\ Section(string.mem, 0, 2 + h)
    <2>1. Section(out.mem, 0, 0)
      BY DEF Section
    <2>2. MessageAt(0) \in Byte /\ MessageAt(1) \in Byte
      BY <1>1, MessageIsBytes
    <2>3. list.mem \in [Offsets -> Byte] /\ Section(list.mem, 0, 1)
      <3> DEFINE bytes == Bytes("list", 2, 1)
      <3>1. bytes = <<MessageAt(0)>>
        BY <1>1, HeadBytes
      <3> HIDE DEF bytes
      <3>2. bytes \in Seq(Byte) /\ Len(bytes) = 1 /\ \A j \in 1 .. 1 : bytes[j] = MessageAt(0 + 0 + j - 1)
        BY <2>2, <3>1
      <3>3. 0 + Len(bytes) <= room /\ 0 \in Nat /\ 0 + Len(bytes) = 1
        BY <1>4, <3>2
      <3>4. \A j \in 1 .. Len(bytes) : bytes[j] = MessageAt(0 + 0 + j - 1)
        BY <3>2
      <3>5. Write(out.mem, 0, bytes) \in [Offsets -> Byte]
            /\ Section(Write(out.mem, 0, bytes), 0, 0 + Len(bytes))
        BY <1>1, <2>1, <3>2, <3>3, <3>4, SectionGrows
      <3> QED BY <1>5, <3>3, <3>5 DEF bytes
    <2>4. member.mem \in [Offsets -> Byte] /\ Section(member.mem, 0, 2)
      <3> DEFINE bytes == Bytes("value", 1, 1)
      <3>1. bytes = <<MessageAt(1)>>
        BY <1>1, HeadBytes
      <3> HIDE DEF bytes
      <3>2. bytes \in Seq(Byte) /\ Len(bytes) = 1 /\ \A j \in 1 .. 1 : bytes[j] = MessageAt(0 + 1 + j - 1)
        BY <2>2, <3>1
      <3>3. 1 + Len(bytes) <= room /\ 0 \in Nat /\ 1 \in Nat /\ 1 + Len(bytes) = 2
        BY <1>4, <3>2
      <3>4. \A j \in 1 .. Len(bytes) : bytes[j] = MessageAt(0 + 1 + j - 1)
        BY <3>2
      <3>5. Write(list.mem, 1, bytes) \in [Offsets -> Byte]
            /\ Section(Write(list.mem, 1, bytes), 0, 1 + Len(bytes))
        BY <2>3, <3>2, <3>3, <3>4, SectionGrows
      <3> QED BY <1>6, <3>3, <3>5 DEF bytes
    <2> DEFINE bytes == Bytes("tstr", total, h)
    <2>5. bytes \in Seq(Byte) /\ Len(bytes) = h /\ \A j \in 1 .. h : bytes[j] = MessageAt(2 + j - 1)
      BY <1>1, HeadBytes
    <2> HIDE DEF bytes
    <2>6. 0 \in Nat /\ 2 \in Nat /\ 0 + 2 = 2 /\ 2 + Len(bytes) <= room
      BY <1>4, <2>5
    <2>7. \A j \in 1 .. Len(bytes) : bytes[j] = MessageAt(0 + 2 + j - 1)
      BY <2>5, <2>6
    <2>8. Write(member.mem, 2, bytes) \in [Offsets -> Byte]
          /\ Section(Write(member.mem, 2, bytes), 0, 2 + Len(bytes))
      BY <2>4, <2>5, <2>6, <2>7, SectionGrows
    <2> QED BY <1>7, <2>5, <2>8 DEF bytes
  <1>10. out'.does = "feed" /\ out'.z = string.z /\ out'.mem = string.mem /\ out'.fed = 0
    BY <1>8
  <1>11. SenderInv'
    <2>1. InString(string.z, 0) /\ Section(string.mem, 0, 2 + h) /\ string.z.base = 0
          /\ string.z.state.payload = 2 + h /\ string.z.state.payload_end = room
      BY <1>2, <1>7, <1>9 DEF Begun
    <2>2. InString(out.z, out.fed)'
      BY <1>8, <1>10, <2>1, SameMessage
    <2>3. Section(out.mem, out.z.base, out.z.state.payload)'
      BY <1>8, <1>10, <2>1, SameMessage
    <2> QED BY <1>3, <1>7, <1>8, <1>10, <2>1, <2>2, <2>3 DEF SenderInv
  <1>12. WireInv'
    <2>1. Shipped' = 0 /\ Shipped = 0 /\ Taken' = Taken
      BY <1>1, <1>3, <1>7, <1>8, <1>10 DEF Shipped, Taken, Begun, NewState
    <2> QED BY <1>8, <2>1, SameMessage DEF WireInv, IInv
  <1>13. string.z \in Context /\ 0 \in 0 .. total
    BY <1>2, <1>7 DEF Begun
  <1> QED BY <1>1, <1>8, <1>9, <1>10, <1>11, <1>12, <1>13, SenderFrame
(* Where the state is in the string, as the functions see it.              *)
LEMMA StringPlace ==
    ASSUME total \in Totals, NEW z \in Context, NEW done, InString(z, done)
    PROVE  /\ StringOffset(z.state) = done /\ StringError(z.state) = "SUCCESS"
           /\ StringRemainder(z.state) = total - done
           /\ done \in Nat /\ done <= total
  <1> DEFINE s == z.state
             h == HeadLen(total)
  <1>1. s \in State /\ z.base \in Nat
    BY ContextFields
  <1>2. s.payload \in Nat /\ s.frag_offset \in Int
    BY <1>1 DEF State
  <1>3. h \in Nat /\ total \in Nat
    BY HeadFacts
  <1>4. s.inside_frag_str /\ s.str_total_len = total /\ s.frag_offset = z.base - h
        /\ z.base + s.payload = h + done /\ done \in 0 .. total
    BY DEF InString
  <1>5. StringOffset(s) = s.payload + s.frag_offset /\ StringTotal(s) = total
    BY <1>4 DEF StringOffset, StringTotal
  <1> HIDE DEF s, h
  <1>6. StringOffset(s) = done
    <2> DEFINE x == s.payload
               y == s.frag_offset
               b == z.base
    <2>1. x \in Nat /\ b \in Nat /\ y = b - h /\ b + x = h + done /\ done \in Nat
          /\ StringOffset(s) = x + y
      BY <1>1, <1>2, <1>3, <1>4, <1>5
    <2> HIDE DEF x, y, b
    <2> QED BY <1>3, <2>1
  <1>7. StringError(s) = "SUCCESS"
    BY <1>4, <1>5, <1>6 DEF StringError
  <1>8. StringRemainder(s) = total - done
    BY <1>5, <1>6 DEF StringRemainder
  <1>9. done \in Nat /\ done <= total
    BY <1>3, <1>4
  <1> QED BY <1>6, <1>7, <1>8, <1>9 DEF s

(* A piece of the string is passed.                                        *)
LEMMA StringPassed ==
    ASSUME total \in Totals, NEW z \in Context, NEW done, InString(z, done), NEW n \in Nat,
           done + n <= total, z.state.payload + n <= z.state.payload_end
    PROVE  LET d == [z EXCEPT !.state.payload = @ + n]
           IN  /\ d \in Context /\ InString(d, done + n) /\ d.base = z.base
               /\ d.state = [z.state EXCEPT !.payload = @ + n]
               /\ d.state.payload = z.state.payload + n /\ d.state.payload_end = z.state.payload_end
               /\ d.state.elem_count = z.state.elem_count
               /\ d.state.decode_state = z.state.decode_state
  <1> DEFINE p == z.state.payload
             q == p + n
             s == [z.state EXCEPT !.payload = q]
             d == [z EXCEPT !.state.payload = @ + n]
  <1>1. z.state \in State /\ z.base \in Nat
    BY ContextFields
  <1>2. p \in Nat /\ z.state.payload_end \in Nat
    BY <1>1 DEF State
  <1>3. q \in Nat /\ total \in Nat /\ HeadLen(total) \in Nat
    BY <1>2, HeadFacts
  <1>4. d = [z EXCEPT !.state = s] /\ s = [z.state EXCEPT !.payload = @ + n]
    BY DEF Context
  <1> HIDE DEF q
  <1>5. s \in State
    BY <1>1, <1>3 DEF State
  <1>6. s.payload = q /\ s.payload_end = z.state.payload_end /\ s.elem_count = z.state.elem_count
        /\ s.decode_state = z.state.decode_state /\ s.inside_frag_str = z.state.inside_frag_str
        /\ s.inside_cbor_bstr = z.state.inside_cbor_bstr
        /\ s.str_total_len = z.state.str_total_len /\ s.frag_offset = z.state.frag_offset
    BY <1>1 DEF State
  <1> HIDE DEF s, d
  <1>7. d \in Context /\ d.state = s /\ d.base = z.base /\ d.backup_list = z.backup_list
    BY <1>4, <1>5 DEF Context
  <1>8. q = p + n
    BY DEF q
  <1>9. InString(d, done + n)
    <2>1. done \in 0 .. total /\ z.base + p = HeadLen(total) + done
      BY DEF InString
    <2>2. done + n \in 0 .. total /\ z.base + q = HeadLen(total) + (done + n)
          /\ q <= z.state.payload_end
      BY <1>1, <1>2, <1>3, <1>8, <2>1
    <2> HIDE DEF p
    <2> QED BY <1>6, <1>7, <2>2 DEF InString
  <1> QED BY <1>4, <1>6, <1>7, <1>8, <1>9 DEF d

(* The next section, with the string continued.                            *)
LEMMA StringContinued ==
    ASSUME total \in Totals, NEW z \in Context, NEW done, InString(z, done), NEW len \in Nat
    PROVE  LET d == UpdateState(z, len)
           IN  /\ d \in Context /\ InString(d, done) /\ d.base = z.base + z.state.payload
               /\ d.state.payload = 0 /\ d.state.payload_end = len
               /\ d.state.elem_count = z.state.elem_count
               /\ d.state.decode_state = z.state.decode_state
  <1> DEFINE p == z.state.payload
             fo == z.state.frag_offset_cbor + p
             s == EnterSection(z.state, len, p)
             d == UpdateState(z, len)
  <1>1. z.state \in State /\ z.base \in Nat
    BY ContextFields
  <1>2. p \in Nat /\ z.state.frag_offset \in Int /\ z.state.frag_offset_cbor \in Int
    BY <1>1 DEF State
  <1>3. total \in Nat /\ HeadLen(total) \in Nat
    BY HeadFacts
  <1>4. d \in Context /\ Len(d.backup_list) = Len(z.backup_list)
    BY UpdateStateEffect
  <1>5. d.state = s /\ d.base = z.base + p
    BY DEF UpdateState
  <1> HIDE DEF d
  <1>6. ~ z.state.inside_cbor_bstr
    BY DEF InString
  <1>7. s = [z.state EXCEPT !.payload = 0, !.payload_end = len, !.frag_offset = @ + p,
                            !.frag_offset_cbor = fo]
    BY <1>6 DEF EnterSection
  <1>8. s.payload = 0 /\ s.payload_end = len /\ s.elem_count = z.state.elem_count
        /\ s.decode_state = z.state.decode_state /\ s.inside_frag_str = z.state.inside_frag_str
        /\ s.inside_cbor_bstr = z.state.inside_cbor_bstr
        /\ s.str_total_len = z.state.str_total_len /\ s.frag_offset = z.state.frag_offset + p
    <2> HIDE DEF s, fo
    <2> QED BY <1>1, <1>7 DEF State
  <1> HIDE DEF s
  <1>9. InString(d, done)
    <2>1. done \in 0 .. total /\ z.base + p = HeadLen(total) + done
          /\ z.state.frag_offset = z.base - HeadLen(total)
      BY DEF InString
    <2>2. z.base + p + 0 = HeadLen(total) + done /\ 0 <= len
          /\ z.state.frag_offset + p = (z.base + p) - HeadLen(total)
      BY <1>1, <1>2, <1>3, <2>1
    <2> HIDE DEF p
    <2> QED BY <1>4, <1>5, <1>8, <2>1, <2>2 DEF InString
  <1> QED BY <1>4, <1>5, <1>8, <1>9 DEF d

(* What is shipped comes behind what is on the wire.                       *)
LEMMA WireGrows ==
    ASSUME NEW w \in Seq(Byte), NEW bytes \in Seq(Byte), NEW from \in Nat,
           Holds(w, from), Holds(bytes, from + Len(w))
    PROVE  /\ w \o bytes \in Seq(Byte) /\ Len(w \o bytes) = Len(w) + Len(bytes)
           /\ Holds(w \o bytes, from)
  <1> DEFINE a == Len(w)
             b == Len(bytes)
             u == w \o bytes
  <1>1. a \in Nat /\ b \in Nat /\ u \in Seq(Byte) /\ Len(u) = a + b
    OBVIOUS
  <1>2. ASSUME NEW i \in 1 .. a + b PROVE u[i] = MessageAt(from + i - 1)
    <2>1. CASE i <= a
      <3>1. i \in 1 .. a /\ u[i] = w[i]
        BY <1>1, <2>1
      <3> QED BY <3>1 DEF Holds
    <2>2. CASE ~ (i <= a)
      <3>1. i - a \in 1 .. b /\ u[i] = bytes[i - a] /\ from + a + (i - a) - 1 = from + i - 1
        BY <1>1, <2>2
      <3>2. bytes[i - a] = MessageAt(from + a + (i - a) - 1)
        BY <3>1 DEF Holds
      <3> QED BY <3>1, <3>2
    <2> QED BY <2>1, <2>2
  <1> HIDE DEF u
  <1>3. Holds(u, from)
    BY <1>1, <1>2 DEF Holds
  <1> QED BY <1>1, <1>3 DEF u
(* What the sender knows while it is inside the string.                    *)
LEMMA Feeding ==
    IInv /\ out.does = "feed" =>
        /\ total \in Totals /\ total \in Nat /\ HeadLen(total) \in Nat
        /\ out.z \in Context /\ out.z.base \in Nat /\ out.z.state \in State
        /\ out.z.state.payload \in Nat /\ out.z.state.payload_end \in Nat
        /\ out.z.state.payload_end \in Rooms /\ out.z.state.payload <= out.z.state.payload_end
        /\ out.z.base + out.z.state.payload = HeadLen(total) + out.fed
        /\ out.fed \in Nat /\ out.fed <= total
        /\ InString(out.z, out.fed) /\ out.z.state.elem_count = 2
        /\ Section(out.mem, out.z.base, out.z.state.payload)
        /\ out.mem \in [Offsets -> Byte]
        /\ wire \in Seq(Byte) /\ Holds(wire, Taken) /\ Taken \in Nat
        /\ Taken + Len(wire) = out.z.base
  <1> SUFFICES ASSUME IInv, out.does = "feed"
               PROVE
        /\ total \in Totals /\ total \in Nat /\ HeadLen(total) \in Nat
        /\ out.z \in Context /\ out.z.base \in Nat /\ out.z.state \in State
        /\ out.z.state.payload \in Nat /\ out.z.state.payload_end \in Nat
        /\ out.z.state.payload_end \in Rooms /\ out.z.state.payload <= out.z.state.payload_end
        /\ out.z.base + out.z.state.payload = HeadLen(total) + out.fed
        /\ out.fed \in Nat /\ out.fed <= total
        /\ InString(out.z, out.fed) /\ out.z.state.elem_count = 2
        /\ Section(out.mem, out.z.base, out.z.state.payload)
        /\ out.mem \in [Offsets -> Byte]
        /\ wire \in Seq(Byte) /\ Holds(wire, Taken) /\ Taken \in Nat
        /\ Taken + Len(wire) = out.z.base
    OBVIOUS
  <1>1. total \in Totals /\ out.z \in Context /\ out.mem \in [Offsets -> Byte]
        /\ out.fed \in 0 .. total /\ in.z \in Context /\ in.section \in Seq(Byte)
        /\ wire \in Seq(Byte)
    BY DEF IInv, TypeOK
  <1>2. total \in Nat /\ HeadLen(total) \in Nat
    BY <1>1, HeadFacts
  <1>3. out.z.base \in Nat /\ out.z.state \in State
    BY <1>1, ContextFields
  <1>4. out.z.state.payload \in Nat /\ out.z.state.payload_end \in Nat
    BY <1>3 DEF State
  <1>5. InString(out.z, out.fed) /\ out.z.state.elem_count = 2
        /\ out.z.state.payload_end \in Rooms
        /\ Section(out.mem, out.z.base, out.z.state.payload)
    BY DEF IInv, SenderInv
  <1>6. out.z.state.payload <= out.z.state.payload_end
        /\ out.z.base + out.z.state.payload = HeadLen(total) + out.fed
    BY <1>5 DEF InString
  <1>7. Taken \in Nat
    <2>1. in.z.base \in Nat /\ Len(in.section) \in Nat
      BY <1>1, ContextFields
    <2> QED BY <2>1 DEF Taken
  <1>8. Len(wire) = Shipped - Taken /\ Holds(wire, Taken)
    BY DEF IInv, WireInv
  <1>9. Shipped = out.z.base
    BY <1>3 DEF Shipped
  <1>10. Taken + Len(wire) = out.z.base
    BY <1>1, <1>3, <1>7, <1>8, <1>9
  <1> QED BY <1>1, <1>2, <1>3, <1>4, <1>5, <1>6, <1>7, <1>8, <1>10

(* A piece of the file goes into the section, or what fits of it.          *)
LEMMA FeedStep == IInv /\ Feed => IInv' /\ out'.fed > out.fed
  <1> SUFFICES ASSUME IInv, Feed PROVE IInv' /\ out'.fed > out.fed
    OBVIOUS
  <1> DEFINE z == out.z
             p == z.state.payload
             room == z.state.payload_end
             fed == out.fed
             h == HeadLen(total)
  <1>1. /\ out.does = "feed" /\ fed < total /\ p < room
        /\ UNCHANGED <<total, in, fragments, faults, wire>>
    BY DEF Feed, Sender
  <1>2. /\ total \in Totals /\ total \in Nat /\ h \in Nat
        /\ z \in Context /\ z.base \in Nat /\ p \in Nat /\ room \in Nat /\ room \in Rooms
        /\ z.base + p = h + fed /\ fed \in Nat /\ fed <= total
        /\ InString(z, fed) /\ z.state.elem_count = 2
        /\ Section(out.mem, z.base, p) /\ out.mem \in [Offsets -> Byte]
    BY <1>1, Feeding
  <1>3. PICK len \in 1 .. Least(MaxRead, total - fed) :
            LET r == FragmentEncode(z, out.mem, fed, len)
            IN  Sent(r, fed + (r.z.state.payload - p), "feed")
    BY DEF Feed
  <1> DEFINE n == Least(room - p, len)
             bytes == Data(fed, n)
             d == [z EXCEPT !.state.payload = @ + n]
             w == Write(out.mem, p, bytes)
             r == FragmentEncode(z, out.mem, fed, len)
  <1>4. len \in Nat /\ len >= 1 /\ len <= total - fed
    BY <1>2, <1>3, TransferAssumption DEF Least
  <1>5. n \in Nat /\ n >= 1 /\ n <= len /\ n <= room - p /\ fed + n <= total /\ p + n <= room
    BY <1>1, <1>2, <1>4 DEF Least
  <1>6. r.ok /\ r.z = d /\ r.mem = w
    <2>1. StringError(z.state) = "SUCCESS" /\ StringRemainder(z.state) = total - fed
      BY <1>2, StringPlace
    <2>2. ~ (Room(z.state) <= 0) /\ ~ (len > StringRemainder(z.state))
      BY <1>1, <1>2, <1>4, <2>1 DEF Room
    <2>3. z.state.inside_frag_str
      BY <1>2 DEF InString
    <2>4. r = Wrote(d, w)
      BY <2>1, <2>2, <2>3 DEF FragmentEncode, Room, Advanced
    <2> HIDE DEF r, d, w
    <2> QED BY <2>4 DEF Wrote
  <1> HIDE DEF n
  <1>7. d \in Context /\ InString(d, fed + n) /\ d.base = z.base /\ d.state.payload = p + n
        /\ d.state.payload_end = room /\ d.state.elem_count = 2
    <2>1. total \in Totals /\ z \in Context /\ InString(z, fed) /\ n \in Nat
          /\ fed + n <= total /\ z.state.payload + n <= z.state.payload_end
          /\ z.state.elem_count = 2
      BY <1>2, <1>5
    <2> HIDE DEF z, fed
    <2>2. /\ d \in Context /\ InString(d, fed + n) /\ d.base = z.base
          /\ d.state.payload = z.state.payload + n /\ d.state.payload_end = z.state.payload_end
          /\ d.state.elem_count = z.state.elem_count
      BY <2>1, StringPassed
    <2> QED BY <2>1, <2>2
  <1> HIDE DEF d, r
  <1>8. w \in [Offsets -> Byte] /\ Section(w, z.base, p + n)
    <2>1. bytes \in Seq(Byte) /\ Len(bytes) = n
          /\ \A j \in 1 .. n : bytes[j] = DataByte(fed + j)
      BY <1>2, <1>5, DataIs
    <2> HIDE DEF bytes
    <2>2. \A j \in 1 .. Len(bytes) : bytes[j] = MessageAt(z.base + p + j - 1)
      <3> SUFFICES ASSUME NEW j \in 1 .. n PROVE bytes[j] = MessageAt(z.base + p + j - 1)
        BY <2>1
      <3>1. bytes[j] = DataByte(fed + j)
        BY <2>1
      <3> DEFINE q == fed + j - 1
      <3>2. q \in Nat /\ q + 1 = fed + j /\ h + q = z.base + p + j - 1
        BY <1>2, <1>5
      <3> HIDE DEF q, h
      <3>3. MessageAt(h + q) = DataByte(q + 1)
        BY <1>2, <3>2, MessageData DEF h
      <3> QED BY <3>1, <3>2, <3>3
    <2>3. p + Len(bytes) <= room
      BY <1>5, <2>1
    <2> QED BY <1>2, <2>1, <2>2, <2>3, SectionGrows
  <1> HIDE DEF w
  <1>9. out' = [z |-> d, mem |-> w, fed |-> fed + n, does |-> "feed"]
    <2>1. out' = [z |-> d, mem |-> w, fed |-> fed + (d.state.payload - p), does |-> "feed"]
      BY <1>3, <1>6 DEF Sent, r
    <2>2. fed + (d.state.payload - p) = fed + n
      BY <1>2, <1>5, <1>7
    <2> QED BY <2>1, <2>2
  <1>10. out'.z = d /\ out'.mem = w /\ out'.fed = fed + n /\ out'.does = "feed"
    BY <1>9
  <1>11. SenderInv'
    <2>1. InString(out.z, out.fed)' /\ Section(out.mem, out.z.base, out.z.state.payload)'
      BY <1>1, <1>7, <1>8, <1>10, SameMessage
    <2> QED BY <1>2, <1>7, <1>9, <1>10, <2>1 DEF SenderInv
  <1>12. WireInv'
    <2>1. Shipped' = Shipped /\ Taken' = Taken
      BY <1>1, <1>7, <1>10 DEF Shipped, Taken
    <2> QED BY <1>1, <2>1, SameMessage DEF WireInv, IInv
  <1>13. fed + n \in 0 .. total /\ wire' \in Seq(Byte)
    <2>1. wire' \in Seq(Byte)
      BY <1>1 DEF IInv, TypeOK
    <2>2. total \in Nat /\ fed \in Nat /\ n \in Nat /\ fed + n <= total
      BY <1>2, <1>5
    <2> HIDE DEF fed
    <2>3. fed + n \in 0 .. total
      BY ONLY <2>2
    <2> QED BY <2>1, <2>3
  <1>14. IInv'
    BY <1>1, <1>7, <1>8, <1>10, <1>11, <1>12, <1>13, SenderFrame
  <1>15. fed + n > fed
    BY <1>2, <1>5
  <1> QED BY <1>10, <1>14, <1>15

(* The section is put behind the wire.                                     *)
LEMMA Ships ==
    IInv /\ out.does = "feed" =>
        /\ wire \o Written \in Seq(Byte)
        /\ Taken + Len(wire \o Written) = out.z.base + out.z.state.payload
        /\ Holds(wire \o Written, Taken)
  <1> SUFFICES ASSUME IInv, out.does = "feed"
               PROVE  /\ wire \o Written \in Seq(Byte)
                      /\ Taken + Len(wire \o Written) = out.z.base + out.z.state.payload
                      /\ Holds(wire \o Written, Taken)
    OBVIOUS
  <1> DEFINE base == out.z.base
             p == out.z.state.payload
             mem == out.mem
             t == Taken
             room == out.z.state.payload_end
  <1>1. /\ base \in Nat /\ p \in Nat /\ room \in Rooms /\ p <= room
        /\ Section(mem, base, p) /\ mem \in [Offsets -> Byte]
        /\ wire \in Seq(Byte) /\ Holds(wire, t) /\ t \in Nat /\ t + Len(wire) = base
    BY Feeding
  <1>2. Written = [i \in 1 .. p |-> mem[i - 1]]
    BY DEF Written
  <1> HIDE DEF base, p, mem, t, room
  <1>3. Written \in Seq(Byte) /\ Len(Written) = p /\ Holds(Written, base)
    BY <1>1, <1>2, WrittenHolds
  <1>4. wire \o Written \in Seq(Byte) /\ Len(wire \o Written) = Len(wire) + Len(Written)
        /\ Holds(wire \o Written, t)
    BY <1>1, <1>3, WireGrows
  <1>5. Len(wire) \in Nat
    BY <1>1
  <1>6. t + Len(wire \o Written) = base + p
    BY <1>1, <1>3, <1>4, <1>5
  <1> QED BY <1>4, <1>6 DEF base, p, t

(* A full section goes on the wire, and the sender is where it was.        *)
LEMMA ShipStep == IInv /\ Ship => IInv'
  <1> SUFFICES ASSUME IInv, Ship PROVE IInv'
    OBVIOUS
  <1> DEFINE z == out.z
             fed == out.fed
  <1>1. out.does = "feed" /\ wire' = wire \o Written /\ UNCHANGED <<total, in, fragments, faults>>
    BY DEF Ship, Sender
  <1>2. /\ total \in Totals /\ z \in Context /\ z.base \in Nat /\ z.state.payload \in Nat
        /\ InString(z, fed) /\ z.state.elem_count = 2 /\ fed \in 0 .. total
    BY <1>1, Feeding DEF IInv, TypeOK
  <1>3. PICK room \in Rooms : out' = [out EXCEPT !.z = UpdateState(@, room), !.mem = Blank]
    BY DEF Ship
  <1> DEFINE d == UpdateState(z, room)
  <1>4. room \in Nat
    BY OffsetsHold
  <1>5. /\ d \in Context /\ InString(d, fed) /\ d.base = z.base + z.state.payload
        /\ d.state.payload = 0 /\ d.state.payload_end = room /\ d.state.elem_count = 2
    BY <1>2, <1>4, StringContinued
  <1> HIDE DEF d
  <1>6. out'.z = d /\ out'.mem = Blank /\ out'.fed = fed /\ out'.does = "feed"
    <2>1. out' = [out EXCEPT !.z = d, !.mem = Blank]
      BY <1>3 DEF d
    <2> QED BY <1>1, <2>1 DEF IInv, SenderInv
  <1>7. Blank \in [Offsets -> Byte] /\ Section(Blank, d.base, 0)
    <2>1. Unwritten \in Byte
      BY DEF Unwritten, Byte, Kinds
    <2> QED BY <2>1 DEF Blank, Section
  <1>8. SenderInv'
    <2>1. InString(out.z, out.fed)' /\ Section(out.mem, out.z.base, out.z.state.payload)'
      BY <1>1, <1>5, <1>6, <1>7, SameMessage
    <2>2. out' = [z |-> out'.z, mem |-> out'.mem, fed |-> out'.fed, does |-> out'.does]
      BY <1>3 DEF IInv, SenderInv
    <2> QED BY <1>5, <1>6, <2>1, <2>2 DEF SenderInv
  <1>9. wire' \in Seq(Byte) /\ WireInv'
    <2>1. wire' \in Seq(Byte) /\ Taken + Len(wire') = d.base /\ Holds(wire', Taken)
      BY <1>1, <1>5, Ships
    <2>2. Shipped' = d.base /\ Taken' = Taken
      BY <1>1, <1>2, <1>5, <1>6 DEF Shipped, Taken
    <2>3. Taken \in Nat /\ Len(wire') \in Nat
      BY <1>1, <2>1, Feeding
    <2>4. Len(wire') = Shipped' - Taken'
      BY <2>1, <2>2, <2>3
    <2>5. Holds(wire, Taken)'
      BY <1>1, <2>1, <2>2, SameMessage
    <2> QED BY <2>1, <2>4, <2>5 DEF WireInv
  <1> QED BY <1>1, <1>2, <1>5, <1>6, <1>7, <1>8, <1>9, SenderFrame

(* The last section goes on the wire, and with it the whole message.       *)
LEMMA SendEndStep == IInv /\ SendEnd => IInv'
  <1> SUFFICES ASSUME IInv, SendEnd PROVE IInv'
    OBVIOUS
  <1> DEFINE z == out.z
             string == FragmentsEndEncode(out.z, out.mem)
             list   == ListMapEndEncode(string.z, string.mem, "list", 2)
  <1>1. /\ out.does = "feed" /\ out.fed = total /\ wire' = wire \o Written
        /\ UNCHANGED <<total, in, fragments, faults>>
    BY DEF SendEnd, Sender
  <1>2. /\ total \in Totals /\ total \in Nat /\ z \in Context /\ z.state \in State
        /\ z.base \in Nat /\ z.state.payload \in Nat
        /\ z.base + z.state.payload = HeadLen(total) + total
        /\ InString(z, total) /\ z.state.elem_count = 2 /\ out.mem \in [Offsets -> Byte]
    BY <1>1, Feeding
  <1> DEFINE s == [z.state EXCEPT !.inside_frag_str = FALSE]
             c == [z EXCEPT !.state = s]
  <1>3. string.ok /\ string.z = c /\ string.mem = out.mem
    <2>1. StringError(z.state) = "SUCCESS" /\ StringRemainder(z.state) = total - total
      BY <1>2, StringPlace
    <2>2. StringRemainder(z.state) = 0
      BY <1>2, <2>1
    <2>3. z.state.inside_frag_str
      BY <1>2 DEF InString
    <2>4. c = [z EXCEPT !.state.inside_frag_str = FALSE]
      BY <1>2 DEF Context
    <2>5. string = Wrote(c, out.mem)
      <3> HIDE DEF c
      <3> QED BY <2>1, <2>2, <2>3, <2>4 DEF FragmentsEndEncode
    <2> HIDE DEF string, c
    <2> QED BY <2>5 DEF Wrote
  <1>4. /\ c \in Context /\ c.state.elem_count = 2 /\ c.base = z.base
        /\ c.state.payload = z.state.payload /\ c.backup_list = z.backup_list
        /\ c.backup_list # << >>
    <2>1. s \in State /\ s.elem_count = 2 /\ s.payload = z.state.payload
      BY <1>2 DEF State
    <2> HIDE DEF s
    <2>2. c \in Context /\ c.state = s /\ c.base = z.base /\ c.backup_list = z.backup_list
      BY <1>2, <2>1 DEF Context
    <2>3. z.backup_list # << >>
      <3>1. Len(z.backup_list) = 1
        BY <1>2 DEF InString
      <3>2. Len(<< >>) = 0
        OBVIOUS
      <3> QED BY ONLY <3>1, <3>2
    <2> HIDE DEF c
    <2> QED BY <2>1, <2>2, <2>3
  <1> HIDE DEF c, string
  <1> DEFINE kept == ProcessBackup(c, {"RESTORE", "CONSUME", "KEEP_PAYLOAD"})
             d == Counted(kept.z)
  <1>5. kept.ok /\ kept.z \in Context /\ kept.z.base = z.base
        /\ kept.z.state.payload = z.state.payload
    <2> DEFINE r == ProcessBackup(c, ResumeFlags)
               b == Top(c.backup_list)
    <2>1. r.ok = TRUE /\ Pulled(c, r.z) /\ r.z.state = [b EXCEPT !.payload = c.state.payload]
      BY <1>4, ResumeEffect
    <2>2. b \in State
      <3>1. c.backup_list \in Seq(State)
        BY <1>4, ContextFields
      <3> QED BY <1>4, <3>1 DEF Top
    <2>3. kept = r
      BY DEF ResumeFlags
    <2> HIDE DEF r, b, kept
    <2>4. r.z.state.payload = c.state.payload
      BY <2>1, <2>2 DEF State
    <2> QED BY <1>4, <2>1, <2>3, <2>4 DEF Pulled
  <1> HIDE DEF kept
  <1>6. list.ok /\ list.z = d /\ list.mem = out.mem
    <2>1. ListCount(c, "list") = 2
      BY <1>4 DEF ListCount
    <2>2. ListMapEndEncode(c, out.mem, "list", 2) = Wrote(d, out.mem)
      <3> HIDE DEF d
      <3> QED BY <1>5, <2>1 DEF ListMapEndEncode, kept, d
    <2>3. list = Wrote(d, out.mem)
      BY <1>3, <2>2
    <2> HIDE DEF list, d
    <2> QED BY <2>3 DEF Wrote
  <1>7. d \in Context /\ d.base = z.base /\ d.state.payload = z.state.payload
    <2> DEFINE y == kept.z
               k == Incremented(y.state.elem_count)
               t == [y.state EXCEPT !.elem_count = k]
    <2>1. y \in Context /\ y.state \in State /\ y.base = z.base /\ y.state.payload = z.state.payload
      BY <1>5, ContextFields
    <2> HIDE DEF y
    <2>2. k \in 0 .. MaxElemCount
      <3>1. y.state.elem_count \in 0 .. MaxElemCount
        BY <2>1 DEF State
      <3> QED BY <3>1, MaxElemCountAssumption DEF Incremented
    <2>3. d = [y EXCEPT !.state = t]
      BY DEF Counted, y
    <2> HIDE DEF k, d
    <2>4. t \in State /\ t.payload = y.state.payload
      BY <2>1, <2>2 DEF State
    <2> HIDE DEF t
    <2> QED BY <2>1, <2>3, <2>4 DEF Context
  <1> HIDE DEF list, d
  <1>8. out' = [z |-> d, mem |-> out.mem, fed |-> total, does |-> "ended"]
    <2>1. Sent(list, total, "ended")
      <3>1. Sent(IF string.ok THEN list ELSE string, total, "ended")
        BY DEF SendEnd, string, list
      <3> QED BY <1>3, <3>1
    <2> QED BY <1>6, <2>1 DEF Sent
  <1>9. out'.z = d /\ out'.mem = out.mem /\ out'.fed = total /\ out'.does = "ended"
    BY <1>8
  <1>10. Shipped' = HeadLen(total) + total
    BY <1>2, <1>7, <1>9 DEF Shipped
  <1>11. SenderInv'
    <2>1. HeadLen(total)' = HeadLen(total)
      BY <1>1
    <2> QED BY <1>1, <1>8, <1>9, <1>10, <2>1 DEF SenderInv
  <1>12. wire' \in Seq(Byte) /\ WireInv'
    <2>1. wire' \in Seq(Byte) /\ Taken + Len(wire') = HeadLen(total) + total /\ Holds(wire', Taken)
      BY <1>1, <1>2, Ships
    <2>2. Taken' = Taken
      BY <1>1 DEF Taken
    <2>3. Taken \in Nat /\ Len(wire') \in Nat
      BY <1>1, <2>1, Feeding
    <2>4. Len(wire') = Shipped' - Taken'
      BY <1>10, <2>1, <2>2, <2>3
    <2>5. Holds(wire, Taken)'
      BY <1>1, <2>1, <2>2, SameMessage
    <2> QED BY <2>1, <2>4, <2>5 DEF WireInv
  <1>13. total \in 0 .. total
    BY <1>2
  <1> QED BY <1>1, <1>2, <1>7, <1>9, <1>11, <1>12, <1>13, SenderFrame

-----------------------------------------------------------------------------
(* The receiver.                                                           *)

(* A step of the receiver leaves the sender alone.                         *)
LEMMA ReceiverFrame ==
    /\ IInv /\ UNCHANGED <<total, out, faults>>
    /\ in'.z \in Context /\ in'.section \in Seq(Byte) /\ wire' \in Seq(Byte)
    /\ fragments' \in Seq(FragmentType)
    /\ WireInv' /\ ReceiverInv' /\ FragmentsInv'
    => IInv'
  <1> SUFFICES ASSUME IInv, UNCHANGED <<total, out, faults>>,
                      in'.z \in Context, in'.section \in Seq(Byte), wire' \in Seq(Byte),
                      fragments' \in Seq(FragmentType), WireInv', ReceiverInv', FragmentsInv'
               PROVE  IInv'
    OBVIOUS
  <1>1. TypeOK'
    BY DEF IInv, TypeOK
  <1>2. SenderInv'
    <2>1. Shipped' = Shipped /\ HeadLen(total)' = HeadLen(total)
      BY DEF Shipped
    <2> QED BY <2>1, SameMessage DEF IInv, SenderInv
  <1> QED BY <1>1, <1>2 DEF IInv

(* What is taken off the wire, and what stays.                             *)
LEMMA WireTaken ==
    ASSUME NEW w \in Seq(Byte), NEW from \in Nat, Holds(w, from), NEW len \in 0 .. Len(w)
    PROVE  LET piece == SubSeq(w, 1, len)
               rest  == SubSeq(w, len + 1, Len(w))
           IN  /\ piece \in Seq(Byte) /\ Len(piece) = len /\ Holds(piece, from)
               /\ rest \in Seq(Byte) /\ Len(rest) = Len(w) - len /\ Holds(rest, from + len)
  <1> DEFINE piece == SubSeq(w, 1, len)
             rest  == SubSeq(w, len + 1, Len(w))
             n == Len(w) - len
  <1>1. n \in Nat /\ Len(w) \in Nat /\ len \in Nat
    OBVIOUS
  <1>2. piece \in Seq(Byte) /\ Len(piece) = len /\ \A i \in 1 .. len : piece[i] = w[i]
    OBVIOUS
  <1>3. rest \in Seq(Byte) /\ Len(rest) = n /\ \A i \in 1 .. n : rest[i] = w[len + i]
    OBVIOUS
  <1> HIDE DEF piece, rest
  <1>4. Holds(piece, from)
    <2>1. \A i \in 1 .. len : i \in 1 .. Len(w)
      BY <1>1
    <2> QED BY <1>2, <2>1 DEF Holds
  <1>5. Holds(rest, from + len)
    <2> SUFFICES ASSUME NEW i \in 1 .. n PROVE rest[i] = MessageAt(from + len + i - 1)
      BY <1>3 DEF Holds
    <2>1. len + i \in 1 .. Len(w) /\ from + (len + i) - 1 = from + len + i - 1
      BY <1>1
    <2>2. w[len + i] = MessageAt(from + (len + i) - 1)
      BY <2>1 DEF Holds
    <2> QED BY <1>3, <2>1, <2>2
  <1> QED BY <1>2, <1>3, <1>4, <1>5 DEF piece, rest

(* A byte stream that the receiver takes a piece from stays in order.      *)
LEMMA TakingPiece ==
    ASSUME IInv, NEW len \in 1 .. Len(wire), Take(len), total' = total, out' = out,
           in'.section = Piece(len), in'.z.base = Taken
    PROVE  /\ WireInv' /\ wire' \in Seq(Byte)
           /\ Piece(len) \in Seq(Byte) /\ Len(Piece(len)) = len /\ Holds(Piece(len), Taken)
  <1>1. wire \in Seq(Byte) /\ in.z \in Context /\ in.section \in Seq(Byte) /\ out.z \in Context
    BY DEF IInv, TypeOK
  <1>2. Taken \in Nat /\ Holds(wire, Taken) /\ Len(wire) = Shipped - Taken /\ Len(wire) \in Nat
    <2>1. in.z.base \in Nat /\ Len(in.section) \in Nat /\ Len(wire) \in Nat
      BY <1>1, ContextFields
    <2> QED BY <2>1 DEF Taken, IInv, WireInv
  <1>3. Shipped \in Int
    <2>1. out.z.base \in Nat /\ out.z.state \in State
      BY <1>1, ContextFields
    <2>2. out.z.state.payload \in Nat
      BY <2>1 DEF State
    <2> QED BY <2>1, <2>2 DEF Shipped
  <1> DEFINE t == Taken
             sh == Shipped
  <1>4. len \in 0 .. Len(wire) /\ len \in Nat
    BY <1>2
  <1>5. /\ Piece(len) \in Seq(Byte) /\ Len(Piece(len)) = len /\ Holds(Piece(len), t)
        /\ wire' \in Seq(Byte) /\ Len(wire') = Len(wire) - len /\ Holds(wire', t + len)
    <2> HIDE DEF t
    <2>1. LET piece == SubSeq(wire, 1, len)
              rest  == SubSeq(wire, len + 1, Len(wire))
          IN  /\ piece \in Seq(Byte) /\ Len(piece) = len /\ Holds(piece, t)
              /\ rest \in Seq(Byte) /\ Len(rest) = Len(wire) - len /\ Holds(rest, t + len)
      BY <1>1, <1>2, <1>4, WireTaken DEF t
    <2> QED BY <2>1 DEF Piece, Take
  <1>6. Taken' = t + len /\ Shipped' = sh
    BY <1>5 DEF Taken, Shipped
  <1> HIDE DEF t, sh
  <1>7. Len(wire') = Shipped' - Taken'
    BY <1>2, <1>3, <1>4, <1>5, <1>6 DEF t, sh
  <1>8. Holds(wire, Taken)'
    BY <1>5, <1>6, SameMessage
  <1> QED BY <1>5, <1>7, <1>8 DEF WireInv, t
(* A receiver's state at position p of a first section, before the string. *)
Reading(z, room, p, n) ==
    Opened(z, room, p, n) /\ ~ z.state.decode_state.indefinite_length_array

(* A header read.                                                          *)
LEMMA HeaderRead ==
    ASSUME NEW z, NEW room \in Nat, NEW p \in Nat, NEW n \in Nat, Reading(z, room, p, n + 1),
           n + 1 <= MaxElemCount, NEW h \in Nat, h >= 1, p + h <= room
    PROVE  ValueExtract(z, h).ok /\ Reading(ValueExtract(z, h).z, room, p + h, n)
  <1> DEFINE q == p + h
             t == [z.state EXCEPT !.payload = q, !.elem_count = n]
             d == [z EXCEPT !.state = t]
             r == ValueExtract(z, h)
  <1>1. /\ z \in Context /\ z.state \in State /\ z.base = 0 /\ z.state.payload = p
        /\ z.state.payload_end = room /\ z.state.elem_count = n + 1
        /\ ~ z.state.inside_frag_str /\ ~ z.state.inside_cbor_bstr /\ Len(z.backup_list) = 1
        /\ ~ z.state.decode_state.indefinite_length_array
    BY ContextFields DEF Reading, Opened
  <1>2. q \in Nat /\ n \in 0 .. MaxElemCount /\ n + 1 - 1 = n /\ n + 1 # 0
        /\ ~ (p >= room) /\ ~ (p + h > room)
    BY MaxElemCountAssumption
  <1>3. Without(z.state, h) = t
    <2>1. z.state.elem_count - 1 = n /\ z.state.payload + h = q
      BY <1>1, <1>2
    <2>2. Without(z.state, h) = [z.state EXCEPT !.payload = z.state.payload + h,
                                                !.elem_count = z.state.elem_count - 1]
      BY DEF Without
    <2> HIDE DEF q
    <2> QED BY ONLY <2>1, <2>2
  <1>4. r = Done([z EXCEPT !.state = Without(z.state, h)])
    BY <1>1, <1>2 DEF ValueExtract
  <1>5. r = Done(d)
    BY <1>3, <1>4
  <1> HIDE DEF q
  <1>6. t \in State /\ t.payload = q /\ t.payload_end = room /\ t.elem_count = n
        /\ ~ t.inside_frag_str /\ ~ t.inside_cbor_bstr
        /\ ~ t.decode_state.indefinite_length_array
    BY <1>1, <1>2 DEF State
  <1> HIDE DEF t
  <1>7. d \in Context /\ d.state = t /\ d.base = 0 /\ d.backup_list = z.backup_list
    BY <1>1, <1>6 DEF Context
  <1> HIDE DEF d, r
  <1>8. r.ok /\ r.z = d
    BY <1>5 DEF Done
  <1>9. r.ok /\ Reading(r.z, room, q, n)
    BY <1>1, <1>6, <1>7, <1>8 DEF Reading, Opened
  <1> QED BY <1>9 DEF r, q

(* The list is entered.                                                    *)
LEMMA ListRead ==
    ASSUME NEW room \in Nat, room >= 1
    PROVE  LET r == ListMapStart(NewState(room, LargeElemCount), 1, 2, FALSE)
           IN  r.ok /\ Reading(r.z, room, 1, 2)
  <1> DEFINE z == NewState(room, LargeElemCount)
             v == ValueExtract(z, 1)
             b == NewBackup(v.z, 2)
             r == ListMapStart(z, 1, 2, FALSE)
  <1>1. LargeElemCount \in Nat /\ LargeElemCount >= 1 /\ LargeElemCount <= MaxElemCount
    BY MaxElemCountAssumption DEF LargeElemCount
  <1>2. /\ z.state \in State /\ z.state.payload = 0 /\ z.state.payload_end = room
        /\ z.state.elem_count = LargeElemCount
        /\ ~ z.state.inside_frag_str /\ ~ z.state.inside_cbor_bstr
        /\ z.backup_list = << >> /\ z.base = 0 /\ z.section = 0
    BY <1>1 DEF NewState, State, DecodeState
  <1>3. z \in Context
    BY <1>2 DEF NewState, Context
  <1> HIDE DEF z
  <1>4. /\ v.ok /\ v.z \in Context /\ v.z.state \in State /\ v.z.state.payload = 1
        /\ v.z.state.payload_end = room /\ v.z.base = 0 /\ v.z.backup_list = << >>
        /\ ~ v.z.state.inside_frag_str /\ ~ v.z.state.inside_cbor_bstr
    <2> DEFINE k == LargeElemCount - 1
               t == [z.state EXCEPT !.payload = 1, !.elem_count = k]
               d == [z EXCEPT !.state = t]
    <2>1. k \in 0 .. MaxElemCount /\ LargeElemCount # 0
      BY <1>1, MaxElemCountAssumption
    <2>2. Without(z.state, 1) = t
      BY <1>2 DEF Without
    <2>3. ~ (z.state.payload >= z.state.payload_end)
          /\ ~ (z.state.payload + 1 > z.state.payload_end)
      BY <1>2
    <2>4. v = Done([z EXCEPT !.state = Without(z.state, 1)])
      BY <1>2, <2>1, <2>3 DEF ValueExtract
    <2>5. v = Done(d)
      BY <2>2, <2>4
    <2> HIDE DEF k
    <2>6. t \in State /\ t.payload = 1 /\ t.payload_end = room
          /\ ~ t.inside_frag_str /\ ~ t.inside_cbor_bstr
      BY <1>2, <2>1 DEF State
    <2> HIDE DEF t
    <2>7. d \in Context /\ d.state = t /\ d.base = 0 /\ d.backup_list = << >>
      BY <1>2, <1>3, <2>6 DEF Context
    <2> HIDE DEF d, v
    <2>8. v.ok /\ v.z = d
      BY <2>5 DEF Done
    <2> QED BY <2>6, <2>7, <2>8
  <1> HIDE DEF v
  <1>5. b.ok /\ Opened(b.z, room, 1, 2) /\ b.z.state \in State
    <2> DEFINE y == v.z
               s == [y.state EXCEPT !.payload_moved = FALSE]
               t == [s EXCEPT !.elem_count = 2]
               list == Append(y.backup_list, s)
               d == [y EXCEPT !.state = t, !.backup_list = list]
    <2>1. s \in State /\ s.payload = 1 /\ s.payload_end = room
          /\ ~ s.inside_frag_str /\ ~ s.inside_cbor_bstr
      BY <1>4 DEF State
    <2>2. b = Done(d)
      <3>1. ~ (Len(y.backup_list) >= NumBackups)
        BY <1>4, TransferAssumption, NumBackupsAssumption
      <3> QED BY <3>1 DEF NewBackup
    <2>3. y \in Context /\ y.base = 0 /\ y.backup_list = << >>
      BY <1>4
    <2> HIDE DEF y, s
    <2>4. t \in State /\ t.payload = 1 /\ t.payload_end = room /\ t.elem_count = 2
          /\ ~ t.inside_frag_str /\ ~ t.inside_cbor_bstr
      BY <2>1, MaxElemCountAssumption DEF State
    <2>5. list \in Seq(State) /\ Len(list) = 1
      BY <2>1, <2>3
    <2> HIDE DEF t, list
    <2>6. d \in Context /\ d.state = t /\ d.base = 0 /\ d.backup_list = list
      BY <2>3, <2>4, <2>5 DEF Context
    <2> HIDE DEF d, b
    <2>7. b.ok /\ b.z = d
      BY <2>2 DEF Done
    <2> QED BY <2>4, <2>5, <2>6, <2>7 DEF Opened
  <1> HIDE DEF b
  <1> DEFINE ds == [ExitMap(b.z.state.decode_state) EXCEPT
                        !.map_start_backup_num = Len(b.z.backup_list),
                        !.indefinite_length_array = FALSE]
             t == [b.z.state EXCEPT !.decode_state = ds]
             d == [b.z EXCEPT !.state = t]
  <1>6. r = Done(d)
    <2>1. b.z \in Context
      BY <1>5 DEF Opened
    <2>2. d = [b.z EXCEPT !.state.decode_state = [ExitMap(@) EXCEPT
                        !.map_start_backup_num = Len(b.z.backup_list),
                        !.indefinite_length_array = FALSE]]
      BY <2>1 DEF Context
    <2> HIDE DEF d
    <2>3. r = Done([b.z EXCEPT !.state.decode_state = [ExitMap(@) EXCEPT
                        !.map_start_backup_num = Len(b.z.backup_list),
                        !.indefinite_length_array = FALSE]])
      BY <1>4, <1>5 DEF ListMapStart, b, v
    <2> HIDE DEF r
    <2> QED BY <2>2, <2>3
  <1>7. ds \in DecodeState /\ ~ ds.indefinite_length_array
    <2> DEFINE e == b.z.state.decode_state
    <2>1. e \in DecodeState
      BY <1>5 DEF State
    <2> HIDE DEF e
    <2> DEFINE x == ExitMap(e)
    <2>2. x \in DecodeState
      BY <2>1 DEF ExitMap, DecodeState
    <2>3. Len(b.z.backup_list) = 1
      BY <1>5 DEF Opened
    <2>4. ds = [x EXCEPT !.map_start_backup_num = 1, !.indefinite_length_array = FALSE]
      BY <2>3 DEF e
    <2> HIDE DEF x, ds
    <2> QED BY <2>2, <2>4 DEF DecodeState
  <1> HIDE DEF ds
  <1>8. /\ b.z \in Context /\ b.z.base = 0 /\ b.z.state.payload = 1 /\ b.z.state.payload_end = room
        /\ b.z.state.elem_count = 2 /\ ~ b.z.state.inside_frag_str
        /\ ~ b.z.state.inside_cbor_bstr /\ Len(b.z.backup_list) = 1
    BY <1>5 DEF Opened
  <1>9. t \in State /\ t.payload = 1 /\ t.payload_end = room /\ t.elem_count = 2
        /\ ~ t.inside_frag_str /\ ~ t.inside_cbor_bstr /\ t.decode_state = ds
    BY <1>5, <1>7, <1>8 DEF State
  <1> HIDE DEF t
  <1>10. d \in Context /\ d.state = t /\ d.base = 0 /\ d.backup_list = b.z.backup_list
    BY <1>8, <1>9 DEF Context
  <1> HIDE DEF d, r
  <1>11. r.ok /\ r.z = d
    BY <1>6 DEF Done
  <1>12. r.ok /\ Reading(r.z, room, 1, 2)
    BY <1>7, <1>8, <1>9, <1>10, <1>11 DEF Reading, Opened
  <1> QED BY <1>12 DEF r, z

(* The string is entered.                                                  *)
LEMMA StringRead ==
    ASSUME total \in Totals, NEW z, NEW room \in Nat, HeadLen(total) <= room,
           Reading(z, room, 2, 1)
    PROVE  LET r == FragmentsStart(z, HeaderLen(total), total, FALSE)
           IN  /\ r.ok /\ Begun(r.z, room) /\ r.z.state.elem_count = 0
               /\ ~ r.z.state.decode_state.indefinite_length_array
  <1> DEFINE h == HeaderLen(total)
             v == ValueExtract(z, h)
             r == FragmentsStart(z, h, total, FALSE)
             p == 2 + h
  <1>1. h \in Nat /\ h >= 1 /\ HeadLen(total) = p /\ total \in Nat /\ p \in Nat /\ p <= room
    BY HeadFacts
  <1> HIDE DEF h
  <1>2. v.ok /\ Reading(v.z, room, p, 0)
    <2> DEFINE two == 2
               none == 0
    <2>1. two \in Nat /\ none \in Nat /\ none + 1 <= MaxElemCount /\ none + 1 = 1
      BY MaxElemCountAssumption
    <2>2. Reading(z, room, two, none + 1) /\ two + h <= room
      BY <1>1, <2>1
    <2> HIDE DEF two, none, v
    <2>3. v.ok /\ Reading(v.z, room, two + h, none)
      BY <1>1, <2>1, <2>2, HeaderRead DEF v
    <2> QED BY <2>3 DEF two, none
  <1> DEFINE y == v.z
             s == [y.state EXCEPT !.frag_offset = 0 - y.state.payload,
                                  !.str_total_len = total, !.inside_frag_str = TRUE]
             d == [y EXCEPT !.state = s]
  <1>3. /\ y \in Context /\ y.state \in State /\ y.state.elem_count = 0 /\ y.base = 0
        /\ y.state.payload = p /\ y.state.payload_end = room
        /\ ~ y.state.inside_cbor_bstr /\ Len(y.backup_list) = 1
        /\ ~ y.state.decode_state.indefinite_length_array
    BY <1>2, ContextFields DEF Reading, Opened
  <1>4. r = Done(d)
    <2> HIDE DEF v
    <2> QED BY <1>2, <1>3 DEF FragmentsStart, v
  <1> HIDE DEF y, r
  <1>5. 0 - p \in Int
    BY <1>1
  <1>6. Begun(d, room) /\ d.state.elem_count = 0
        /\ ~ d.state.decode_state.indefinite_length_array
    <2> HIDE DEF p
    <2> DEFINE t == [y.state EXCEPT !.frag_offset = 0 - p,
                                    !.str_total_len = total, !.inside_frag_str = TRUE]
    <2>1. s = t
      BY <1>3
    <2>2. t \in State
      BY <1>1, <1>3, <1>5 DEF State
    <2>3. t.frag_offset = 0 - p /\ t.str_total_len = total /\ t.inside_frag_str
          /\ ~ t.inside_cbor_bstr /\ t.payload = p /\ t.payload_end = room /\ t.elem_count = 0
          /\ ~ t.decode_state.indefinite_length_array
      BY <1>3 DEF State
    <2> HIDE DEF s, t
    <2>4. d.state = t /\ d.base = 0 /\ d.backup_list = y.backup_list /\ d \in Context
      BY <1>3, <2>1, <2>2 DEF Context
    <2> HIDE DEF d
    <2>5. InString(d, 0)
      <3>1. 0 \in 0 .. total /\ 0 + p = HeadLen(total) + 0 /\ 0 - p = 0 - HeadLen(total)
        BY <1>1
      <3> QED BY <1>1, <1>3, <2>3, <2>4, <3>1 DEF InString
    <2> QED BY <1>1, <2>3, <2>4, <2>5 DEF Begun
  <1> HIDE DEF d
  <1>7. r.ok /\ r.z = d
    BY <1>4 DEF Done
  <1>8. r.ok /\ Begun(r.z, room) /\ r.z.state.elem_count = 0
        /\ ~ r.z.state.decode_state.indefinite_length_array
    BY <1>6, <1>7
  <1> QED BY <1>8 DEF r, h

(* The receiver accepts all before the contents in the first piece.        *)
LEMMA ReceiveBeginStep == IInv /\ ReceiveBegin => IInv'
  <1> SUFFICES ASSUME IInv, ReceiveBegin PROVE IInv'
    OBVIOUS
  <1>1. /\ in.does = "begin" /\ UNCHANGED <<total, out, faults, fragments>>
        /\ total \in Totals /\ wire \in Seq(Byte)
    BY DEF ReceiveBegin, Receiver, IInv, TypeOK
  <1> DEFINE h == HeaderLen(total)
  <1>2. h \in Nat /\ h >= 1 /\ HeadLen(total) = 2 + h /\ total \in Nat /\ HeadLen(total) \in Nat
    BY <1>1, HeadFacts
  <1>3. PICK len \in HeadLen(total) .. Least(MaxChunk, Len(wire)) :
        LET section == Piece(len)
            new     == NewState(len, LargeElemCount)
            list    == Expecting("list", new, section,
                        ListMapStart(new, 1, HeaderAt(new, section).arg, FALSE))
            member  == Expecting("value", list.z, section, ValueExtract(list.z, 1))
            length  == HeaderAt(member.z, section).arg
            string  == Expecting("tstr", member.z, section,
                        FragmentsStart(member.z, HeaderLen(length), length, FALSE))
        IN  /\ Take(len)
            /\ Received(IF ~ list.ok THEN list ELSE IF ~ member.ok THEN member ELSE string,
                        section, "read")
    BY DEF ReceiveBegin
  <1> DEFINE section == Piece(len)
             new     == NewState(len, LargeElemCount)
             list    == Expecting("list", new, section,
                         ListMapStart(new, 1, HeaderAt(new, section).arg, FALSE))
             member  == Expecting("value", list.z, section, ValueExtract(list.z, 1))
             length  == HeaderAt(member.z, section).arg
             string  == Expecting("tstr", member.z, section,
                         FragmentsStart(member.z, HeaderLen(length), length, FALSE))
  <1>4. /\ len \in Nat /\ len \in 1 .. Len(wire) /\ HeadLen(total) <= len /\ len >= 1
        /\ 1 + 1 <= len /\ 3 <= len
    <2>1. Len(wire) \in Nat /\ MaxChunk \in Nat
      BY <1>1, TransferAssumption
    <2> QED BY <1>2, <2>1 DEF Least
  <1>5. in.z = NewState(0, LargeElemCount) /\ in.section = << >> /\ fragments = << >>
    BY <1>1 DEF IInv, ReceiverInv
  <1>6. Taken = 0
    BY <1>5 DEF Taken, NewState
  <1>7. section \in Seq(Byte) /\ Len(section) = len /\ Holds(section, 0)
    <2>1. Holds(wire, 0) /\ len \in 0 .. Len(wire) /\ 0 \in Nat
      BY <1>4, <1>6 DEF IInv, WireInv
    <2>2. SubSeq(wire, 1, len) \in Seq(Byte) /\ Len(SubSeq(wire, 1, len)) = len
          /\ Holds(SubSeq(wire, 1, len), 0)
      BY <1>1, <2>1, WireTaken
    <2> QED BY <2>2 DEF Piece
  <1> HIDE DEF section
  <1>8. section[1] = MessageAt(0) /\ section[2] = MessageAt(1) /\ section[3] = MessageAt(2)
    <2>1. \A i \in 1 .. len : section[i] = MessageAt(0 + i - 1)
      BY <1>7 DEF Holds
    <2>2. 1 \in 1 .. len /\ 2 \in 1 .. len /\ 3 \in 1 .. len
          /\ 0 + 1 - 1 = 0 /\ 0 + 2 - 1 = 1 /\ 0 + 3 - 1 = 2
      BY <1>4
    <2>3. section[1] = MessageAt(0 + 1 - 1) /\ section[2] = MessageAt(0 + 2 - 1)
          /\ section[3] = MessageAt(0 + 3 - 1)
      BY <2>1, <2>2
    <2> QED BY <2>2, <2>3
  <1>9. /\ section[1].kind = "list" /\ section[1].arg = 2 /\ section[2].kind = "value"
        /\ section[3].kind = "tstr" /\ section[3].arg = total
    <2>1. MessageAt(0) = [kind |-> "list", arg |-> 2, index |-> 1]
      BY DEF MessageAt
    <2>2. MessageAt(1) = [kind |-> "value", arg |-> 1, index |-> 1]
      BY DEF MessageAt
    <2>3. MessageAt(2) = [kind |-> "tstr", arg |-> total, index |-> 1]
      <3>1. 2 # 0 /\ 2 # 1 /\ 2 < HeadLen(total) /\ 2 - 1 = 1
        BY <1>2
      <3> QED BY <3>1 DEF MessageAt
    <2> QED BY <1>8, <2>1, <2>2, <2>3
  <1>10. list.ok /\ Reading(list.z, len, 1, 2)
    <2>1. HeaderAt(new, section) = section[1]
      <3>1. new.state.payload = 0 /\ 0 + 1 = 1
        BY DEF NewState
      <3> HIDE DEF new
      <3> QED BY <3>1 DEF HeaderAt
    <2> HIDE DEF new
    <2>2. list = ListMapStart(new, 1, 2, FALSE)
      BY <1>9, <2>1 DEF Expecting
    <2> HIDE DEF list
    <2>3. LET r == ListMapStart(NewState(len, LargeElemCount), 1, 2, FALSE)
          IN  r.ok /\ Reading(r.z, len, 1, 2)
      BY <1>4, ListRead
    <2> QED BY <2>2, <2>3 DEF new
  <1>11. member.ok /\ Reading(member.z, len, 2, 1)
    <2> HIDE DEF new, list
    <2>1. HeaderAt(list.z, section) = section[2]
      <3>1. list.z.state.payload = 1 /\ 1 + 1 = 2
        BY <1>10 DEF Reading, Opened
      <3> QED BY <3>1 DEF HeaderAt
    <2>2. member = ValueExtract(list.z, 1)
      BY <1>9, <2>1 DEF Expecting
    <2> HIDE DEF member
    <2> DEFINE one == 1
    <2>3. one \in Nat /\ one >= 1 /\ one + one = 2 /\ one + one <= len /\ one + 1 <= MaxElemCount
      BY <1>4, MaxElemCountAssumption
    <2>4. Reading(list.z, len, one, one + 1)
      BY <1>10, <2>3
    <2>5. ValueExtract(list.z, one).ok
          /\ Reading(ValueExtract(list.z, one).z, len, one + one, one)
      <3> HIDE DEF one
      <3> QED BY <1>4, <2>3, <2>4, HeaderRead
    <2> QED BY <2>2, <2>3, <2>5
  <1>12. /\ string.ok /\ Begun(string.z, len) /\ string.z.state.elem_count = 0
         /\ ~ string.z.state.decode_state.indefinite_length_array
    <2> HIDE DEF new, list, member
    <2>1. HeaderAt(member.z, section) = section[3]
      <3>1. member.z.state.payload = 2 /\ 2 + 1 = 3
        BY <1>11 DEF Reading, Opened
      <3> QED BY <3>1 DEF HeaderAt
    <2>2. string = FragmentsStart(member.z, HeaderLen(total), total, FALSE)
      BY <1>9, <2>1 DEF Expecting
    <2> HIDE DEF string
    <2>3. LET r == FragmentsStart(member.z, HeaderLen(total), total, FALSE)
          IN  /\ r.ok /\ Begun(r.z, len) /\ r.z.state.elem_count = 0
              /\ ~ r.z.state.decode_state.indefinite_length_array
      BY <1>1, <1>4, <1>11, StringRead
    <2> QED BY <2>2, <2>3
  <1>13. Take(len) /\ in' = [z |-> string.z, section |-> section, does |-> "read"]
    <2>1. Take(len) /\ Received(IF ~ list.ok THEN list ELSE IF ~ member.ok THEN member ELSE string,
                                section, "read")
      BY <1>3 DEF section
    <2> HIDE DEF new, list, member, string
    <2> QED BY <1>10, <1>11, <1>12, <2>1 DEF Received
  <1> HIDE DEF new, list, member, string
  <1>14. in'.z = string.z /\ in'.section = section /\ in'.does = "read"
    BY <1>13
  <1>15. string.z \in Context /\ string.z.base = 0 /\ InString(string.z, 0)
         /\ string.z.state.payload_end = len
    BY <1>12 DEF Begun
  <1>16. WireInv' /\ wire' \in Seq(Byte)
    <2>1. in'.section = Piece(len) /\ in'.z.base = Taken
      BY <1>6, <1>14, <1>15 DEF section
    <2> QED BY <1>1, <1>4, <1>13, <2>1, TakingPiece
  <1>17. Got' = 0
    <2>1. LengthOf(<< >>) = 0
      <3>1. << >> \in Seq(FragmentType) /\ Len(<< >>) = 0 /\ 0 + 1 = 1
        OBVIOUS
      <3>2. LengthOf(<< >>) = Preceding(<< >>, Len(<< >>) + 1) /\ Preceding(<< >>, 1) = 0
        BY <3>1, Begins
      <3> QED BY <3>1, <3>2
    <2>2. fragments' = << >>
      BY <1>1, <1>5
    <2> QED BY <2>1, <2>2 DEF Got
  <1>18. ReceiverInv'
    <2>1. InString(in.z, Got)' /\ Holds(in.section, in.z.base)'
      BY <1>1, <1>7, <1>14, <1>15, <1>17, SameMessage
    <2> QED BY <1>7, <1>12, <1>13, <1>14, <1>15, <2>1 DEF ReceiverInv
  <1>19. FragmentsInv'
    <2>1. fragments' = << >> /\ DOMAIN fragments' = {} /\ faults' = 0
      <3>1. fragments' = << >>
        BY <1>1, <1>5
      <3>2. faults = 0
        <4>1. faults \in Nat /\ ~ (faults > 0)
          BY <1>1, TransferAssumption DEF IInv, TypeOK, FragmentsInv
        <4> QED BY <4>1
      <3> QED BY <1>1, <3>1, <3>2
    <2> QED BY <2>1 DEF FragmentsInv, InOrder
  <1>20. fragments' \in Seq(FragmentType)
    BY <1>1 DEF IInv, TypeOK
  <1> QED BY <1>1, <1>7, <1>14, <1>15, <1>16, <1>18, <1>19, <1>20, ReceiverFrame

(* What the receiver knows while it is inside the string.                  *)
LEMMA ReadingString ==
    IInv /\ in.does = "read" =>
        /\ total \in Totals /\ total \in Nat /\ HeadLen(total) \in Nat
        /\ in.z \in Context /\ in.z.state \in State /\ in.z.base \in Nat
        /\ in.z.state.payload \in Nat /\ in.z.state.payload_end = Len(in.section)
        /\ in.section \in Seq(Byte) /\ Len(in.section) \in Nat
        /\ in.z.state.payload <= in.z.state.payload_end
        /\ in.z.base + in.z.state.payload = HeadLen(total) + Got
        /\ Got \in Nat /\ Got <= total /\ InString(in.z, Got)
        /\ in.z.state.elem_count = 0
        /\ ~ in.z.state.decode_state.indefinite_length_array
        /\ Holds(in.section, in.z.base)
        /\ faults = 0 /\ fragments \in Seq(FragmentType) /\ wire \in Seq(Byte)
        /\ InOrder(fragments) /\ \A i \in DOMAIN fragments : Genuine(fragments[i])
  <1> SUFFICES ASSUME IInv, in.does = "read"
               PROVE
        /\ total \in Totals /\ total \in Nat /\ HeadLen(total) \in Nat
        /\ in.z \in Context /\ in.z.state \in State /\ in.z.base \in Nat
        /\ in.z.state.payload \in Nat /\ in.z.state.payload_end = Len(in.section)
        /\ in.section \in Seq(Byte) /\ Len(in.section) \in Nat
        /\ in.z.state.payload <= in.z.state.payload_end
        /\ in.z.base + in.z.state.payload = HeadLen(total) + Got
        /\ Got \in Nat /\ Got <= total /\ InString(in.z, Got)
        /\ in.z.state.elem_count = 0
        /\ ~ in.z.state.decode_state.indefinite_length_array
        /\ Holds(in.section, in.z.base)
        /\ faults = 0 /\ fragments \in Seq(FragmentType) /\ wire \in Seq(Byte)
        /\ InOrder(fragments) /\ \A i \in DOMAIN fragments : Genuine(fragments[i])
    OBVIOUS
  <1>1. /\ total \in Totals /\ in.z \in Context /\ in.section \in Seq(Byte)
        /\ fragments \in Seq(FragmentType) /\ wire \in Seq(Byte) /\ faults \in 0 .. MaxFaults
    BY DEF IInv, TypeOK
  <1>2. total \in Nat /\ HeadLen(total) \in Nat
    BY <1>1, HeadFacts
  <1>3. in.z.state \in State /\ in.z.base \in Nat /\ in.z.state.payload \in Nat
        /\ Len(in.section) \in Nat
    BY <1>1, ContextFields DEF State
  <1>4. /\ InString(in.z, Got) /\ in.z.state.elem_count = 0
        /\ ~ in.z.state.decode_state.indefinite_length_array
        /\ in.z.state.payload_end = Len(in.section) /\ Holds(in.section, in.z.base)
    BY DEF IInv, ReceiverInv
  <1>5. /\ in.z.state.payload <= in.z.state.payload_end /\ Got \in 0 .. total
        /\ in.z.base + in.z.state.payload = HeadLen(total) + Got
    BY <1>4 DEF InString
  <1>6. faults = 0
    <2>1. ~ (faults > 0) /\ faults \in Nat
      BY <1>1, TransferAssumption DEF IInv, FragmentsInv
    <2> QED BY <2>1
  <1>7. InOrder(fragments) /\ \A i \in DOMAIN fragments : Genuine(fragments[i])
    BY <1>6 DEF IInv, FragmentsInv
  <1>8. Got \in Nat /\ Got <= total
    BY <1>2, <1>5
  <1> QED BY <1>1, <1>2, <1>3, <1>4, <1>5, <1>6, <1>7, <1>8

(* The receiver goes from a section that is used up to the next piece.     *)
LEMMA NextPieceStep == IInv /\ NextPiece => IInv'
  <1> SUFFICES ASSUME IInv, NextPiece PROVE IInv'
    OBVIOUS
  <1> DEFINE z == in.z
             got == Got
  <1>1. /\ in.does = "read" /\ z.state.payload = z.state.payload_end
        /\ UNCHANGED <<total, out, faults, fragments>>
    BY DEF NextPiece, Receiver
  <1>2. /\ total \in Totals /\ z \in Context /\ z.base \in Nat
        /\ z.state.payload_end = Len(in.section)
        /\ InString(z, got) /\ z.state.elem_count = 0
        /\ ~ z.state.decode_state.indefinite_length_array
        /\ fragments \in Seq(FragmentType) /\ wire \in Seq(Byte)
    BY <1>1, ReadingString
  <1>3. PICK len \in 1 .. Least(MaxChunk, Len(wire)) :
            /\ Take(len)
            /\ in' = [in EXCEPT !.z = UpdateState(@, len), !.section = Piece(len)]
    BY DEF NextPiece
  <1>4. len \in 1 .. Len(wire) /\ len \in Nat
    <2>1. Len(wire) \in Nat /\ MaxChunk \in Nat
      BY <1>2, TransferAssumption
    <2> QED BY <2>1 DEF Least
  <1> DEFINE d == UpdateState(z, len)
  <1>5. /\ d \in Context /\ InString(d, got) /\ d.base = z.base + z.state.payload
        /\ d.state.payload_end = len /\ d.state.elem_count = z.state.elem_count
        /\ d.state.decode_state = z.state.decode_state
    <2> HIDE DEF z, got
    <2> QED BY <1>2, <1>4, StringContinued
  <1> HIDE DEF d
  <1>6. in' = [z |-> d, section |-> Piece(len), does |-> "read"]
    <2>1. in' = [in EXCEPT !.z = d, !.section = Piece(len)]
      BY <1>3 DEF d
    <2>2. in = [z |-> in.z, section |-> in.section, does |-> in.does]
      BY DEF IInv, ReceiverInv
    <2> QED BY <1>1, <2>1, <2>2
  <1>7. in'.z = d /\ in'.section = Piece(len) /\ in'.does = "read"
    BY <1>6
  <1>8. d.base = Taken
    BY <1>1, <1>2, <1>5 DEF Taken
  <1>9. /\ WireInv' /\ wire' \in Seq(Byte)
        /\ Piece(len) \in Seq(Byte) /\ Len(Piece(len)) = len /\ Holds(Piece(len), Taken)
    <2>1. in'.section = Piece(len) /\ in'.z.base = Taken
      BY <1>7, <1>8
    <2> QED BY <1>1, <1>3, <1>4, <2>1, TakingPiece
  <1>10. ReceiverInv'
    <2>1. Got' = got
      BY <1>1 DEF Got
    <2> HIDE DEF got
    <2>2. InString(in.z, Got)' /\ Holds(in.section, in.z.base)'
      BY <1>1, <1>5, <1>7, <1>8, <1>9, <2>1, SameMessage
    <2> QED BY <1>2, <1>5, <1>6, <1>7, <1>9, <2>2 DEF ReceiverInv
  <1>11. FragmentsInv'
    BY <1>1, <1>7, SameMessage, ReadingString DEF FragmentsInv
  <1> QED BY <1>1, <1>2, <1>5, <1>7, <1>9, <1>10, <1>11, ReceiverFrame

(* n bytes of a section, from position p on.                               *)
LEMMA CutOut ==
    \A w \in Seq(Byte) : \A p, n \in Nat : p + n <= Len(w) =>
        /\ SubSeq(w, p + 1, p + n) \in Seq(Byte) /\ Len(SubSeq(w, p + 1, p + n)) = n
        /\ \A j \in 1 .. n : SubSeq(w, p + 1, p + n)[j] = w[p + j]
  OBVIOUS

(* The fragment handed out follows those before, and holds its data.       *)
LEMMA NextFragmentStep == IInv /\ NextFragment => IInv' /\ Got' > Got
  <1> SUFFICES ASSUME IInv, NextFragment PROVE IInv' /\ Got' > Got
    OBVIOUS
  <1> DEFINE z == in.z
             got == Got
             h == HeadLen(total)
             p == z.state.payload
             left == z.state.payload_end - p
             rem == total - got
             n == IF left < rem THEN left ELSE rem
             d == [z EXCEPT !.state.payload = @ + n]
             r == FragmentDecode(z)
  <1>1. /\ in.does = "read" /\ got < total /\ p # z.state.payload_end
        /\ Received(r, in.section, "read")
        /\ fragments' = IF r.ok
                        THEN Append(fragments, DecodedFragment(z.state, r.z.state, in.section))
                        ELSE fragments
        /\ UNCHANGED <<total, out, faults, wire>>
    BY DEF NextFragment, Receiver
  <1>2. /\ total \in Totals /\ total \in Nat /\ h \in Nat
        /\ z \in Context /\ z.state \in State /\ z.base \in Nat
        /\ p \in Nat /\ z.state.payload_end = Len(in.section)
        /\ in.section \in Seq(Byte) /\ Len(in.section) \in Nat
        /\ p <= z.state.payload_end /\ z.base + p = h + got
        /\ got \in Nat /\ got <= total /\ InString(z, got)
        /\ z.state.elem_count = 0 /\ ~ z.state.decode_state.indefinite_length_array
        /\ Holds(in.section, z.base)
        /\ faults = 0 /\ fragments \in Seq(FragmentType) /\ wire \in Seq(Byte)
        /\ InOrder(fragments) /\ \A i \in DOMAIN fragments : Genuine(fragments[i])
    BY <1>1, ReadingString
  <1>3. n \in Nat /\ n >= 1 /\ got + n <= total /\ p + n <= Len(in.section)
        /\ ~ (left <= 0)
    <2> DEFINE end == z.state.payload_end
    <2>1. /\ p \in Nat /\ end \in Nat /\ p <= end /\ p # end
          /\ got \in Nat /\ total \in Nat /\ got < total
      BY <1>1, <1>2
    <2>2. end = Len(in.section)
      BY <1>2
    <2> HIDE DEF p, end, got
    <2>3. left = end - p
      BY DEF end, p
    <2> HIDE DEF left
    <2>4. left \in Nat /\ left >= 1 /\ p + left = end
      BY ONLY <2>1, <2>3
    <2>5. rem \in Nat /\ rem >= 1 /\ got + rem = total
      BY ONLY <2>1
    <2> HIDE DEF rem
    <2>6. n \in Nat /\ n >= 1 /\ n <= left /\ n <= rem
      BY <2>4, <2>5
    <2> HIDE DEF n
    <2> QED BY ONLY <2>1, <2>2, <2>4, <2>5, <2>6
  <1>4. r.ok /\ r.z = d
    <2>1. StringError(z.state) = "SUCCESS" /\ StringRemainder(z.state) = total - got
      BY <1>2, StringPlace
    <2>2. z.state.inside_frag_str
      BY <1>2 DEF InString
    <2>3. r = Done(d)
      BY <1>3, <2>1, <2>2 DEF FragmentDecode
    <2> HIDE DEF r, d
    <2> QED BY <2>3 DEF Done
  <1> HIDE DEF n
  <1>5. /\ d \in Context /\ InString(d, got + n) /\ d.base = z.base
        /\ d.state.payload = p + n /\ d.state.payload_end = Len(in.section)
        /\ d.state.elem_count = 0 /\ ~ d.state.decode_state.indefinite_length_array
    <2>1. total \in Totals /\ z \in Context /\ InString(z, got) /\ n \in Nat
          /\ got + n <= total /\ z.state.payload + n <= z.state.payload_end
          /\ z.state.elem_count = 0 /\ z.state.payload_end = Len(in.section)
          /\ ~ z.state.decode_state.indefinite_length_array
      BY <1>2, <1>3
    <2> HIDE DEF z, got
    <2>2. /\ d \in Context /\ InString(d, got + n) /\ d.base = z.base
          /\ d.state.payload = z.state.payload + n /\ d.state.payload_end = z.state.payload_end
          /\ d.state.elem_count = z.state.elem_count
          /\ d.state.decode_state = z.state.decode_state
      BY <2>1, StringPassed
    <2> QED BY <2>1, <2>2
  <1> HIDE DEF d, r
  <1> DEFINE value == SubSeq(in.section, p + 1, p + n)
             f == Fragment(value, got, total)
  <1>6. fragments' = Append(fragments, f)
    <2>1. StringOffset(z.state) = got
      BY <1>2, StringPlace
    <2>2. z.state.str_total_len = total
      BY <1>2 DEF InString
    <2>3. DecodedFragment(z.state, d.state, in.section) = f
      BY <1>5, <2>1, <2>2 DEF DecodedFragment
    <2> QED BY <1>1, <1>4, <2>3
  <1>7. value = Data(got, n)
    <2> DEFINE bytes == Data(got, n)
               section == in.section
               base == z.base
    <2>1. bytes \in Seq(Byte) /\ Len(bytes) = n
          /\ \A j \in 1 .. n : bytes[j] = DataByte(got + j)
      BY <1>2, <1>3, DataIs
    <2>2. value \in Seq(Byte) /\ Len(value) = n /\ \A j \in 1 .. n : value[j] = section[p + j]
      <3>1. section \in Seq(Byte) /\ p \in Nat /\ n \in Nat /\ p + n <= Len(section)
        BY <1>2, <1>3
      <3>2. value = SubSeq(section, p + 1, p + n)
        OBVIOUS
      <3> HIDE DEF section, p, value
      <3> QED BY <3>1, <3>2, CutOut
    <2> HIDE DEF bytes, value
    <2>3. ASSUME NEW j \in 1 .. n PROVE value[j] = bytes[j]
      <3> DEFINE q == got + j - 1
      <3>0. /\ p \in Nat /\ n \in Nat /\ base \in Nat /\ got \in Nat /\ h \in Nat
            /\ Len(section) \in Nat /\ p + n <= Len(section) /\ base + p = h + got
            /\ j \in Nat /\ j >= 1 /\ j <= n
        <4>1. j \in Nat /\ j >= 1 /\ j <= n
          BY <1>3
        <4> QED BY <1>2, <1>3, <4>1
      <3>1. p + j \in 1 .. Len(section)
        <4> HIDE DEF p, section, base, got, h
        <4> QED BY ONLY <3>0
      <3>2. section[p + j] = MessageAt(base + (p + j) - 1)
        BY <1>2, <3>1 DEF Holds
      <3>3. q \in Nat /\ q + 1 = got + j /\ h + q = base + (p + j) - 1
        <4> HIDE DEF p, base, got, h, section
        <4> QED BY ONLY <3>0
      <3> HIDE DEF q, h, section, p, base
      <3>4. MessageAt(h + q) = DataByte(q + 1)
        BY <1>2, <3>3, MessageData DEF h
      <3> QED BY <2>1, <2>2, <3>2, <3>3, <3>4
    <2>4. value = bytes
      BY <2>1, <2>2, <2>3
    <2> QED BY <2>4 DEF bytes
  <1> HIDE DEF value
  <1>8. value \in Seq(Byte) /\ Len(value) = n
    BY <1>2, <1>3, <1>7, DataIs
  <1>9. /\ f \in FragmentType /\ f.present /\ f.total_len = total /\ f.offset = got
        /\ f.value = value
    <2>1. total \in 0 .. MaxElemCount
      BY <1>2, HeadFacts, MaxElemCountAssumption
    <2> QED BY <1>2, <1>8, <2>1 DEF Fragment, FragmentType
  <1> HIDE DEF f
  <1> DEFINE fs == Append(fragments, f)
             k == Len(fragments)
  <1>10. /\ fs \in Seq(FragmentType) /\ Len(fs) = k + 1 /\ k \in Nat
         /\ \A i \in 0 .. k : Preceding(fs, i + 1) = Preceding(fragments, i + 1)
         /\ LengthOf(fs) = got + n
         /\ \A i \in 1 .. k : fs[i] = fragments[i]
         /\ fs[k + 1] = f
    <2>1. LengthOf(fs) = LengthOf(fragments) + Len(f.value)
          /\ fs \in Seq(FragmentType)
          /\ \A i \in 0 .. k : Preceding(fs, i + 1) = Preceding(fragments, i + 1)
      BY <1>2, <1>9, OneMore
    <2>2. LengthOf(fs) = got + n
      BY <1>8, <1>9, <2>1 DEF Got
    <2>3. Len(fs) = k + 1 /\ k \in Nat /\ fs[k + 1] = f /\ \A i \in 1 .. k : fs[i] = fragments[i]
      BY <1>2, <1>9
    <2> QED BY <2>1, <2>2, <2>3
  <1>11. InOrder(fs)
    <2>1. ASSUME NEW i \in 1 .. k
          PROVE  /\ fs[i].present /\ fs[i].total_len = total /\ fs[i].offset = Preceding(fs, i)
                 /\ Preceding(fs, i + 1) <= total
      <3>1. i \in DOMAIN fragments /\ i \in 0 .. k /\ i - 1 \in 0 .. k /\ i - 1 + 1 = i
        BY <1>2, <1>10
      <3>2. fragments[i].present /\ fragments[i].total_len = total
            /\ fragments[i].offset = Preceding(fragments, i)
            /\ Preceding(fragments, i + 1) <= total
        BY <1>2, <3>1 DEF InOrder
      <3>3. Preceding(fs, i - 1 + 1) = Preceding(fragments, i - 1 + 1)
        BY <1>10, <3>1
      <3>4. Preceding(fs, i) = Preceding(fragments, i)
            /\ Preceding(fs, i + 1) = Preceding(fragments, i + 1)
        BY <1>10, <3>1, <3>3
      <3> HIDE DEF fs, k
      <3> QED BY <1>10, <3>2, <3>4
    <2>2. /\ fs[k + 1].present /\ fs[k + 1].total_len = total
          /\ fs[k + 1].offset = Preceding(fs, k + 1)
          /\ Preceding(fs, k + 1 + 1) <= total
      <3>1. LengthOf(fragments) = Preceding(fragments, k + 1)
        BY <1>2, Begins
      <3>2. k \in 0 .. k
        BY <1>10
      <3>3. Preceding(fs, k + 1) = got
        BY <1>10, <3>1, <3>2 DEF Got
      <3>4. LengthOf(fs) = Preceding(fs, k + 1 + 1)
        <4> HIDE DEF fs, k
        <4> QED BY <1>10, Begins
      <3> HIDE DEF fs, k
      <3> QED BY <1>3, <1>9, <1>10, <3>3, <3>4
    <2>3. DOMAIN fs = 1 .. k + 1
      <3> HIDE DEF fs, k
      <3> QED BY <1>10
    <2>4. \A i \in 1 .. k + 1 : i \in 1 .. k \/ i = k + 1
      BY <1>10
    <2> HIDE DEF fs, k
    <2> QED BY <2>1, <2>2, <2>3, <2>4 DEF InOrder
  <1>12. \A i \in DOMAIN fs : Genuine(fs[i])
    <2>1. Genuine(f)
      BY <1>7, <1>8, <1>9 DEF Genuine
    <2>2. \A i \in 1 .. k : Genuine(fs[i])
      BY <1>2, <1>10
    <2>3. DOMAIN fs = 1 .. k + 1 /\ \A i \in 1 .. k + 1 : i \in 1 .. k \/ i = k + 1
      BY <1>10
    <2> HIDE DEF fs, k
    <2> QED BY <1>10, <2>1, <2>2, <2>3
  <1>13. fragments' = fs /\ LengthOf(fs) = got + n /\ fs \in Seq(FragmentType)
    BY <1>6, <1>10
  <1> HIDE DEF fs
  <1>14. in' = [z |-> d, section |-> in.section, does |-> "read"]
    BY <1>1, <1>4 DEF Received
  <1>15. in'.z = d /\ in'.section = in.section /\ in'.does = "read"
    BY <1>14
  <1>16. ReceiverInv'
    <2>1. Got' = got + n
      BY <1>13 DEF Got
    <2>2. InString(in.z, Got)' /\ Holds(in.section, in.z.base)'
      BY <1>1, <1>2, <1>5, <1>15, <2>1, SameMessage
    <2> QED BY <1>5, <1>14, <1>15, <2>2 DEF ReceiverInv
  <1>17. FragmentsInv'
    <2>1. \A i \in DOMAIN fragments' : Genuine(fragments[i])'
      BY <1>1, <1>12, <1>13, SameMessage
    <2>2. InOrder(fragments)'
      BY <1>1, <1>11, <1>13, SameMessage
    <2>3. ~ (faults' > 0)
      BY <1>1, <1>2
    <2> QED BY <2>1, <2>2, <2>3 DEF FragmentsInv
  <1>18. WireInv'
    <2>1. Shipped' = Shipped /\ Taken' = Taken
      BY <1>1, <1>5, <1>15 DEF Shipped, Taken
    <2> QED BY <1>1, <2>1, SameMessage DEF WireInv, IInv
  <1>19. wire' \in Seq(Byte) /\ fragments' \in Seq(FragmentType)
    BY <1>1, <1>2, <1>13
  <1>20. IInv'
    BY <1>1, <1>2, <1>5, <1>15, <1>16, <1>17, <1>18, <1>19, ReceiverFrame
  <1>21. Got' = got + n
    BY <1>13 DEF Got
  <1>22. got + n > got
    <2> HIDE DEF got
    <2> QED BY <1>2, <1>3
  <1> QED BY <1>20, <1>21, <1>22

(* The receiver leaves the string and the list when it has all of it.      *)
LEMMA ReceiveEndStep == IInv /\ ReceiveEnd => IInv'
  <1> SUFFICES ASSUME IInv, ReceiveEnd PROVE IInv'
    OBVIOUS
  <1> DEFINE z == in.z
             string == FragmentsEnd(z)
             list == ListMapEnd(string.z, FALSE)
  <1>1. /\ in.does = "read" /\ Got = total
        /\ Received(IF string.ok THEN list ELSE string, in.section, "ended")
        /\ UNCHANGED <<total, out, faults, wire, fragments>>
    BY DEF ReceiveEnd, Receiver
  <1>2. /\ total \in Totals /\ total \in Nat /\ z \in Context /\ z.state \in State
        /\ InString(z, total) /\ z.state.elem_count = 0
        /\ ~ z.state.decode_state.indefinite_length_array
        /\ in.section \in Seq(Byte) /\ faults = 0
        /\ fragments \in Seq(FragmentType) /\ wire \in Seq(Byte)
    BY <1>1, ReadingString
  <1> DEFINE s == [z.state EXCEPT !.inside_frag_str = FALSE]
             c == [z EXCEPT !.state = s]
  <1>3. string.ok /\ string.z = c
    <2>1. StringError(z.state) = "SUCCESS" /\ StringRemainder(z.state) = total - total
      BY <1>2, StringPlace
    <2>2. StringRemainder(z.state) = 0
      BY <1>2, <2>1
    <2>3. z.state.inside_frag_str
      BY <1>2 DEF InString
    <2>4. c = [z EXCEPT !.state.inside_frag_str = FALSE]
      BY <1>2 DEF Context
    <2>5. string = Done(c)
      <3> HIDE DEF c
      <3> QED BY <2>1, <2>2, <2>3, <2>4 DEF FragmentsEnd
    <2> HIDE DEF string, c
    <2> QED BY <2>5 DEF Done
  <1>4. /\ c \in Context /\ c.state.elem_count = 0 /\ c.base = z.base
        /\ ~ c.state.decode_state.indefinite_length_array
        /\ c.backup_list # << >>
    <2>1. s \in State /\ s.elem_count = 0 /\ ~ s.decode_state.indefinite_length_array
      BY <1>2 DEF State
    <2> HIDE DEF s
    <2>2. c \in Context /\ c.state = s /\ c.base = z.base /\ c.backup_list = z.backup_list
      BY <1>2, <2>1 DEF Context
    <2>3. z.backup_list # << >>
      <3>1. Len(z.backup_list) = 1
        BY <1>2 DEF InString
      <3>2. Len(<< >>) = 0
        OBVIOUS
      <3> QED BY ONLY <3>1, <3>2
    <2> HIDE DEF c
    <2> QED BY <2>1, <2>2, <2>3
  <1> HIDE DEF c, string
  <1> DEFINE r == ProcessBackup(c, ResumeFlags)
  <1>5. r.ok = TRUE /\ r.z \in Context /\ r.z.base = z.base
    <2>1. r.ok = TRUE /\ Pulled(c, r.z)
      BY <1>4, ResumeEffect
    <2> HIDE DEF r
    <2> QED BY <1>4, <2>1 DEF Pulled
  <1>6. list = r
    <2>1. ~ (c.state.elem_count > 0)
      BY <1>4
    <2>2. r = ProcessBackup(c, {"RESTORE", "CONSUME", "KEEP_PAYLOAD"})
      BY DEF ResumeFlags
    <2> HIDE DEF r
    <2>3. ListMapEnd(c, FALSE) = r
      BY <1>4, <1>5, <2>1, <2>2 DEF ListMapEnd
    <2> QED BY <1>3, <2>3
  <1> HIDE DEF list, r
  <1>7. in' = [z |-> r.z, section |-> in.section, does |-> "ended"]
    BY <1>1, <1>3, <1>5, <1>6 DEF Received
  <1>8. in'.z = r.z /\ in'.section = in.section /\ in'.does = "ended"
    BY <1>7
  <1>9. ReceiverInv'
    <2>1. Got' = total'
      BY <1>1 DEF Got
    <2> QED BY <1>7, <1>8, <2>1 DEF ReceiverInv
  <1>10. FragmentsInv'
    BY <1>1, <1>8, SameMessage, ReadingString DEF FragmentsInv
  <1>11. WireInv'
    <2>1. Shipped' = Shipped /\ Taken' = Taken
      BY <1>1, <1>5, <1>8 DEF Shipped, Taken
    <2> QED BY <1>1, <2>1, SameMessage DEF WireInv, IInv
  <1> QED BY <1>1, <1>2, <1>5, <1>8, <1>9, <1>10, <1>11, ReceiverFrame

-----------------------------------------------------------------------------
(* The way to the joining.                                                 *)

(* A fault adds no fragment but the empty one.                             *)
LEMMA FaultKeeps ==
    ASSUME IInv, NEW fs \in Seq(FragmentType), Fault(fs),
           \A i \in DOMAIN fs :
            fs[i] = NoFragment \/ \E j \in DOMAIN fragments : fs[i] = fragments[j]
    PROVE  IInv'
  <1>1. /\ in.does = "ended" /\ faults < MaxFaults /\ fragments' = fs /\ faults' = faults + 1
        /\ UNCHANGED <<total, out, wire, in>>
    BY DEF Fault
  <1>2. faults \in Nat /\ MaxFaults \in Nat
    BY TransferAssumption DEF IInv, TypeOK
  <1>3. faults' \in 0 .. MaxFaults /\ faults' > 0 /\ faults' # 0
    BY <1>1, <1>2
  <1>4. TypeOK'
    BY <1>1, <1>3 DEF IInv, TypeOK
  <1>5. SenderInv'
    <2>1. Shipped' = Shipped
      BY <1>1 DEF Shipped
    <2> QED BY <1>1, <2>1, SameMessage DEF IInv, SenderInv
  <1>6. WireInv'
    <2>1. Shipped' = Shipped /\ Taken' = Taken
      BY <1>1 DEF Shipped, Taken
    <2> QED BY <1>1, <2>1, SameMessage DEF IInv, WireInv
  <1>7. ReceiverInv'
    BY <1>1, <1>3 DEF IInv, ReceiverInv
  <1>8. FragmentsInv'
    <2>1. \A f : Genuine(f)' <=> Genuine(f)
      BY <1>1, SameMessage
    <2>2. Genuine(NoFragment)
      BY DEF Genuine
    <2>3. \A i \in DOMAIN fs : Genuine(fs[i])
      BY <2>2 DEF IInv, FragmentsInv
    <2>4. \A i \in DOMAIN fragments' : Genuine(fragments[i])'
      BY <1>1, <2>1, <2>3
    <2> QED BY <1>1, <1>3, <2>4 DEF FragmentsInv
  <1> QED BY <1>4, <1>5, <1>6, <1>7, <1>8 DEF IInv

(* Two collections of fragments, one after the other.                      *)
LEMMA Concatenated ==
    \A s, t \in Seq(FragmentType) :
        /\ s \o t \in Seq(FragmentType) /\ Len(s \o t) = Len(s) + Len(t)
        /\ \A j \in 1 .. Len(s) : (s \o t)[j] = s[j]
        /\ \A j \in 1 .. Len(t) : (s \o t)[Len(s) + j] = t[j]
  OBVIOUS

(* A fragment may be lost,                                                 *)
LEMMA LoseStep == IInv /\ Lose => IInv'
  <1> SUFFICES ASSUME IInv, NEW i \in DOMAIN fragments, Fault(RemoveAt(fragments, i))
               PROVE  IInv'
    BY DEF Lose
  <1>1. fragments \in Seq(FragmentType)
    BY DEF IInv, TypeOK
  <1> DEFINE a == SubSeq(fragments, 1, i - 1)
             b == SubSeq(fragments, i + 1, Len(fragments))
             fs == a \o b
  <1>2. i \in 1 .. Len(fragments) /\ Len(fragments) \in Nat /\ DOMAIN fragments = 1 .. Len(fragments)
    BY <1>1
  <1>3. a \in Seq(FragmentType) /\ Len(a) = i - 1 /\ \A j \in 1 .. i - 1 : a[j] = fragments[j]
    BY <1>1, <1>2
  <1>4. b \in Seq(FragmentType) /\ Len(b) = Len(fragments) - i
        /\ \A j \in 1 .. Len(fragments) - i : b[j] = fragments[i + j]
    BY <1>1, <1>2
  <1> HIDE DEF a, b
  <1>5. /\ fs \in Seq(FragmentType) /\ Len(fs) = Len(a) + Len(b)
        /\ \A j \in 1 .. Len(b) : fs[Len(a) + j] = b[j]
    BY <1>3, <1>4, Concatenated
  <1>6. ASSUME NEW k \in DOMAIN fs PROVE \E j \in DOMAIN fragments : fs[k] = fragments[j]
    <2>1. k \in 1 .. Len(a) + Len(b)
      BY <1>5
    <2>2. CASE k <= Len(a)
      <3>1. fs[k] = a[k] /\ k \in 1 .. i - 1 /\ k \in 1 .. Len(fragments)
        BY <1>2, <1>3, <1>4, <2>1, <2>2
      <3> QED BY <1>2, <1>3, <3>1
    <2>3. CASE ~ (k <= Len(a))
      <3> DEFINE j == k - Len(a)
      <3> HIDE DEF fs
      <3>0. /\ j \in 1 .. Len(b) /\ Len(a) + j = k
            /\ j \in 1 .. Len(fragments) - i /\ i + j \in 1 .. Len(fragments)
        BY <1>2, <1>3, <1>4, <2>1, <2>3
      <3>1. fs[k] = b[j] /\ j \in 1 .. Len(fragments) - i /\ i + j \in 1 .. Len(fragments)
        <4> HIDE DEF j
        <4> QED BY <1>5, <3>0
      <3> HIDE DEF j
      <3> QED BY <1>2, <1>4, <3>1
    <2> QED BY <2>2, <2>3
  <1>7. Fault(fs)
    BY DEF RemoveAt, a, b
  <1> HIDE DEF fs
  <1> QED BY <1>5, <1>6, <1>7, FaultKeeps

(* or come twice,                                                          *)
LEMMA DuplicateStep == IInv /\ Duplicate => IInv'
  <1> SUFFICES ASSUME IInv, NEW i \in DOMAIN fragments,
                      Fault(InsertAt(fragments, i, fragments[i]))
               PROVE  IInv'
    BY DEF Duplicate
  <1>1. fragments \in Seq(FragmentType)
    BY DEF IInv, TypeOK
  <1> DEFINE a == SubSeq(fragments, 1, i - 1)
             m == <<fragments[i]>>
             b == SubSeq(fragments, i, Len(fragments))
             am == a \o m
             fs == am \o b
  <1>2. i \in 1 .. Len(fragments) /\ Len(fragments) \in Nat /\ DOMAIN fragments = 1 .. Len(fragments)
    BY <1>1
  <1>3. a \in Seq(FragmentType) /\ Len(a) = i - 1 /\ \A j \in 1 .. i - 1 : a[j] = fragments[j]
    BY <1>1, <1>2
  <1>4. b \in Seq(FragmentType) /\ Len(b) = Len(fragments) - i + 1
        /\ \A j \in 1 .. Len(fragments) - i + 1 : b[j] = fragments[i + j - 1]
    BY <1>1, <1>2
  <1>5. m \in Seq(FragmentType) /\ Len(m) = 1 /\ m[1] = fragments[i]
    BY <1>1, <1>2
  <1> HIDE DEF a, b, m
  <1>6. am \in Seq(FragmentType) /\ Len(am) = i
        /\ \A j \in 1 .. i : am[j] = fragments[j]
    <2>0. /\ am \in Seq(FragmentType) /\ Len(am) = Len(a) + Len(m)
          /\ \A j \in 1 .. Len(a) : am[j] = a[j]
          /\ \A j \in 1 .. Len(m) : am[Len(a) + j] = m[j]
      BY <1>3, <1>5, Concatenated
    <2> HIDE DEF am
    <2>1. am \in Seq(FragmentType) /\ Len(am) = i
      BY <1>2, <1>3, <1>5, <2>0
    <2>2. \A j \in 1 .. i - 1 : am[j] = a[j]
      BY <1>3, <2>0
    <2>3. am[i] = m[1]
      <3>1. 1 \in 1 .. Len(m) /\ Len(a) + 1 = i
        BY <1>2, <1>3, <1>5
      <3> QED BY <2>0, <3>1
    <2>4. \A j \in 1 .. i : j \in 1 .. i - 1 \/ j = i
      BY <1>2
    <2> HIDE DEF am
    <2> QED BY <1>3, <1>5, <2>1, <2>2, <2>3, <2>4
  <1> HIDE DEF am
  <1>7. /\ fs \in Seq(FragmentType) /\ Len(fs) = Len(am) + Len(b)
        /\ \A j \in 1 .. Len(b) : fs[Len(am) + j] = b[j]
    BY <1>4, <1>6, Concatenated
  <1>8. ASSUME NEW k \in DOMAIN fs PROVE \E j \in DOMAIN fragments : fs[k] = fragments[j]
    <2>1. k \in 1 .. Len(am) + Len(b)
      BY <1>7
    <2>2. CASE k <= Len(am)
      <3>1. fs[k] = am[k] /\ k \in 1 .. i /\ k \in 1 .. Len(fragments)
        BY <1>2, <1>4, <1>6, <2>1, <2>2
      <3> QED BY <1>2, <1>6, <3>1
    <2>3. CASE ~ (k <= Len(am))
      <3> DEFINE j == k - Len(am)
      <3> HIDE DEF fs
      <3>0. /\ j \in 1 .. Len(b) /\ Len(am) + j = k
            /\ j \in 1 .. Len(fragments) - i + 1 /\ i + j - 1 \in 1 .. Len(fragments)
        BY <1>2, <1>4, <1>6, <2>1, <2>3
      <3>1. fs[k] = b[j] /\ j \in 1 .. Len(fragments) - i + 1 /\ i + j - 1 \in 1 .. Len(fragments)
        <4> HIDE DEF j
        <4> QED BY <1>7, <3>0
      <3> HIDE DEF j
      <3> QED BY <1>2, <1>4, <3>1
    <2> QED BY <2>2, <2>3
  <1>9. Fault(fs)
    BY DEF InsertAt, a, b, m, am
  <1> HIDE DEF fs
  <1> QED BY <1>7, <1>8, <1>9, FaultKeeps

(* or never be filled in,                                                  *)
LEMMA ForgetStep == IInv /\ Forget => IInv'
  <1> SUFFICES ASSUME IInv, NEW i \in DOMAIN fragments,
                      Fault([fragments EXCEPT ![i] = NoFragment])
               PROVE  IInv'
    BY DEF Forget
  <1> DEFINE fs == [fragments EXCEPT ![i] = NoFragment]
  <1>1. fragments \in Seq(FragmentType)
    BY DEF IInv, TypeOK
  <1>2. NoFragment \in FragmentType
    BY MaxElemCountAssumption DEF NoFragment, FragmentType
  <1>3. fs \in Seq(FragmentType) /\ DOMAIN fs = DOMAIN fragments
        /\ \A k \in DOMAIN fs : fs[k] = NoFragment \/ fs[k] = fragments[k]
    BY <1>1, <1>2
  <1> HIDE DEF fs
  <1>4. \A k \in DOMAIN fs : fs[k] = NoFragment \/ \E j \in DOMAIN fragments : fs[k] = fragments[j]
    BY <1>3
  <1>5. Fault(fs)
    BY DEF fs
  <1> QED BY <1>3, <1>4, <1>5, FaultKeeps

(* or two of them come in the other order.                                 *)
LEMMA SwapStep == IInv /\ Swap => IInv'
  <1> SUFFICES ASSUME IInv, NEW i \in DOMAIN fragments, NEW j \in DOMAIN fragments,
                      Fault([fragments EXCEPT ![i] = fragments[j], ![j] = fragments[i]])
               PROVE  IInv'
    BY DEF Swap
  <1> DEFINE fs == [fragments EXCEPT ![i] = fragments[j], ![j] = fragments[i]]
  <1>1. fragments \in Seq(FragmentType)
    BY DEF IInv, TypeOK
  <1>2. fs \in Seq(FragmentType) /\ DOMAIN fs = DOMAIN fragments
        /\ \A k \in DOMAIN fs : fs[k] = fragments[j] \/ fs[k] = fragments[i] \/ fs[k] = fragments[k]
    BY <1>1
  <1> HIDE DEF fs
  <1>3. \A k \in DOMAIN fs : fs[k] = NoFragment \/ \E n \in DOMAIN fragments : fs[k] = fragments[n]
    BY <1>2
  <1>4. Fault(fs)
    BY DEF fs
  <1> QED BY <1>2, <1>3, <1>4, FaultKeeps

-----------------------------------------------------------------------------
(* Progress.                                                               *)

SenderLeft   == Left(out.does, out.fed, out.z.state)
ReceiverLeft == Left(in.does, Got, in.z.state)

(* What a side has left, by what it does.                                  *)
LEMMA LeftIs ==
    \A does, done, state :
        /\ does = "begin" => Left(does, done, state) = 2 * total + 3
        /\ does \in {"feed", "read"} =>
            Left(does, done, state) =
                2 * (total - done) + 1 + (IF state.payload = state.payload_end THEN 1 ELSE 0)
        /\ does = "ended" => Left(does, done, state) = 0
  BY DEF Left

(* It speaks of no variable but the length.                                *)
LEMMA SameLeft ==
    total' = total =>
        \A does, done, state : Left(does, done, state)' = Left(does, done, state)
  BY DEF Left

(* Within the string it is at least a call, and less than before it.       *)
LEMMA LeftBounds ==
    ASSUME total \in Nat
    PROVE  \A done \in 0 .. total : \A does, state : does \in {"feed", "read"} =>
            /\ Left(does, done, state) \in Nat
            /\ 2 * (total - done) + 1 <= Left(does, done, state)
            /\ Left(does, done, state) <= 2 * (total - done) + 2
  <1> SUFFICES ASSUME NEW done \in 0 .. total, NEW does, NEW state, does \in {"feed", "read"}
               PROVE  /\ Left(does, done, state) \in Nat
                      /\ 2 * (total - done) + 1 <= Left(does, done, state)
                      /\ Left(does, done, state) <= 2 * (total - done) + 2
    OBVIOUS
  <1> DEFINE extra == IF state.payload = state.payload_end THEN 1 ELSE 0
             k == total - done
  <1>1. Left(does, done, state) = 2 * k + 1 + extra
    BY LeftIs
  <1>2. k \in Nat /\ extra \in {0, 1}
    OBVIOUS
  <1> HIDE DEF k, extra
  <1>3. 2 * k + 1 + extra \in Nat /\ 2 * k + 1 <= 2 * k + 1 + extra
        /\ 2 * k + 1 + extra <= 2 * k + 2
    BY <1>2
  <1> QED BY <1>1, <1>3 DEF k

(* A byte more is more than a change of section less.                      *)
LEMMA LessLeft ==
    \A n, a, b \in Nat : \A x, y \in Nat :
        /\ a <= n /\ b <= n /\ b > a
        /\ 2 * (n - a) + 1 <= x /\ y <= 2 * (n - b) + 2
        => y < x
  OBVIOUS

LeftCounted ==
    SenderLeft \in Nat /\ ReceiverLeft \in Nat /\ MaxFaults - faults \in Nat

(* Both sides have a number of calls left.                                 *)
LEMMA LeftNumbers ==
    IInv => /\ LeftCounted
            /\ total \in Nat /\ out.fed \in 0 .. total
            /\ in.does = "read" => Got \in 0 .. total
  <1> SUFFICES ASSUME IInv
               PROVE  /\ LeftCounted
                      /\ total \in Nat /\ out.fed \in 0 .. total
                      /\ in.does = "read" => Got \in 0 .. total
    OBVIOUS
  <1>1. total \in Totals /\ out.fed \in 0 .. total /\ faults \in 0 .. MaxFaults
        /\ MaxFaults \in Nat
    BY TransferAssumption DEF IInv, TypeOK
  <1>2. total \in Nat
    BY <1>1, HeadFacts
  <1>3. 2 * total + 3 \in Nat /\ 0 \in Nat
    BY <1>2
  <1>4. out.does \in {"begin", "feed", "ended"} /\ in.does \in {"begin", "read", "ended"}
    BY DEF IInv, SenderInv, ReceiverInv
  <1>5. in.does = "read" => Got \in 0 .. total
    BY DEF IInv, ReceiverInv, InString
  <1>6. SenderLeft \in Nat
    <2>1. CASE out.does = "feed"
      BY <1>1, <1>2, <2>1, LeftBounds DEF SenderLeft
    <2>2. CASE out.does = "begin"
      BY <1>3, <2>2, LeftIs DEF SenderLeft
    <2>3. CASE out.does = "ended"
      BY <1>3, <2>3, LeftIs DEF SenderLeft
    <2> QED BY <1>4, <2>1, <2>2, <2>3
  <1>7. ReceiverLeft \in Nat
    <2>1. CASE in.does = "read"
      BY <1>2, <1>5, <2>1, LeftBounds DEF ReceiverLeft
    <2>2. CASE in.does = "begin"
      BY <1>3, <2>2, LeftIs DEF ReceiverLeft
    <2>3. CASE in.does = "ended"
      BY <1>3, <2>3, LeftIs DEF ReceiverLeft
    <2> QED BY <1>4, <2>1, <2>2, <2>3
  <1>8. MaxFaults - faults \in Nat
    BY <1>1
  <1> QED BY <1>1, <1>2, <1>5, <1>6, <1>7, <1>8 DEF LeftCounted

(* So they have after a step.                                              *)
LEMMA LeftNumbersAfter == IInv' => LeftCounted'
  <1>1. IInv => LeftCounted
    BY LeftNumbers
  <1> QED BY <1>1, PTL

(* A call of the sender leaves it less to do.                              *)
LEMMA SenderProgresses ==
    IInv /\ IInv' /\ (SendBegin \/ Feed \/ Ship \/ SendEnd) =>
        SenderLeft' < SenderLeft /\ UNCHANGED <<total, in, fragments, faults>>
  <1> SUFFICES ASSUME IInv, IInv', SendBegin \/ Feed \/ Ship \/ SendEnd
               PROVE  SenderLeft' < SenderLeft /\ UNCHANGED <<total, in, fragments, faults>>
    OBVIOUS
  <1>1. UNCHANGED <<total, in, fragments, faults>>
    BY DEF SendBegin, Feed, Ship, SendEnd, Sender
  <1>2. total \in Nat /\ out.fed \in 0 .. total /\ out'.fed \in 0 .. total
    BY <1>1, LeftNumbers DEF IInv, TypeOK
  <1>3. SenderLeft' = Left(out'.does, out'.fed, out'.z.state)
    BY <1>1, SameLeft DEF SenderLeft
  <1>4. out'.does \in {"begin", "feed", "ended"}
    BY DEF IInv, SenderInv
  <1>5. CASE SendBegin
    <2>1. out.does = "begin" /\ out'.does \in {"feed", "failed"}
      BY <1>5 DEF SendBegin, Sent
    <2>2. out'.does = "feed"
      BY <1>4, <2>1
    <2>3. SenderLeft = 2 * total + 3
      BY <2>1, LeftIs DEF SenderLeft
    <2>4. SenderLeft' \in Nat /\ SenderLeft' <= 2 * (total - out'.fed) + 2
      BY <1>2, <1>3, <2>2, LeftBounds
    <2>5. 2 * (total - out'.fed) + 2 < 2 * total + 3
      BY <1>2
    <2> DEFINE bound == 2 * (total - out'.fed) + 2
               full == 2 * total + 3
    <2>6. bound \in Nat /\ full \in Nat
      BY <1>2
    <2>7. SenderLeft' < full
      <3> SUFFICES SenderLeft' <= bound /\ bound < full
        BY <2>4, <2>6
      <3> QED BY <2>4, <2>5
    <2> QED BY <1>1, <2>3, <2>7
  <1>6. CASE Feed
    <2>1. out.does = "feed" /\ out'.does \in {"feed", "failed"}
      BY <1>6 DEF Feed, Sent
    <2>2. out'.does = "feed" /\ out'.fed > out.fed
      BY <1>4, <1>6, <2>1, FeedStep
    <2>3. SenderLeft \in Nat /\ 2 * (total - out.fed) + 1 <= SenderLeft
      BY <1>2, <2>1, LeftBounds DEF SenderLeft
    <2>4. SenderLeft' \in Nat /\ SenderLeft' <= 2 * (total - out'.fed) + 2
      BY <1>2, <1>3, <2>2, LeftBounds
    <2>5. SenderLeft' < SenderLeft
      BY <1>2, <2>2, <2>3, <2>4, LessLeft
    <2> QED BY <1>1, <2>5
  <1>7. CASE Ship
    <2>1. out.does = "feed" /\ out.z.state.payload = out.z.state.payload_end
          /\ \E room \in Rooms :
                out' = [out EXCEPT !.z = UpdateState(@, room), !.mem = Blank]
      BY <1>7 DEF Ship
    <2>2. PICK room \in Rooms : out' = [out EXCEPT !.z = UpdateState(@, room), !.mem = Blank]
      BY <2>1
    <2>3. out'.does = "feed" /\ out'.fed = out.fed /\ out'.z = UpdateState(out.z, room)
      BY <2>1, <2>2 DEF IInv, SenderInv
    <2>4. out'.z.state.payload = 0 /\ out'.z.state.payload_end = room
      <3>1. total \in Totals /\ out.z \in Context /\ InString(out.z, out.fed)
        BY <2>1, Feeding
      <3>2. room \in Nat
        BY OffsetsHold
      <3> QED BY <1>2, <2>1, <2>3, <3>1, <3>2, StringContinued
    <2>5. out'.z.state.payload # out'.z.state.payload_end
      BY <2>4, TransferAssumption
    <2>6. SenderLeft = 2 * (total - out.fed) + 1 + 1
      BY <2>1, LeftIs DEF SenderLeft
    <2>7. SenderLeft' = 2 * (total - out.fed) + 1 + 0
      BY <1>3, <2>3, <2>5, LeftIs
    <2> QED BY <1>1, <1>2, <2>6, <2>7
  <1>8. CASE SendEnd
    <2>1. out.does = "feed" /\ out'.does \in {"ended", "failed"}
      BY <1>8 DEF SendEnd, Sent
    <2>2. out'.does = "ended"
      BY <1>4, <2>1
    <2>3. SenderLeft \in Nat /\ 2 * (total - out.fed) + 1 <= SenderLeft
      BY <1>2, <2>1, LeftBounds DEF SenderLeft
    <2>4. SenderLeft' = 0
      BY <1>3, <2>2, LeftIs
    <2>5. 2 * (total - out.fed) + 1 \in Nat /\ 0 < 2 * (total - out.fed) + 1
      BY <1>2
    <2>6. SenderLeft # 0
      BY <2>3, <2>5
    <2>7. 0 < SenderLeft
      BY <2>3, <2>6
    <2> QED BY <1>1, <2>4, <2>7
  <1> QED BY <1>5, <1>6, <1>7, <1>8

(* A call of the receiver leaves it less to do.                            *)
LEMMA ReceiverProgresses ==
    IInv /\ IInv' /\ (ReceiveBegin \/ NextPiece \/ NextFragment \/ ReceiveEnd) =>
        ReceiverLeft' < ReceiverLeft /\ UNCHANGED <<total, out, faults>>
  <1> SUFFICES ASSUME IInv, IInv', ReceiveBegin \/ NextPiece \/ NextFragment \/ ReceiveEnd
               PROVE  ReceiverLeft' < ReceiverLeft /\ UNCHANGED <<total, out, faults>>
    OBVIOUS
  <1>1. UNCHANGED <<total, out, faults>>
    BY DEF ReceiveBegin, NextPiece, NextFragment, ReceiveEnd, Receiver
  <1>2. total \in Nat /\ (in.does = "read" => Got \in 0 .. total)
    BY LeftNumbers
  <1>3. ReceiverLeft' = Left(in'.does, Got', in'.z.state)
    BY <1>1, SameLeft DEF ReceiverLeft
  <1>4. in'.does \in {"begin", "read", "ended"}
    BY DEF IInv, ReceiverInv
  <1>5. in'.does = "read" => Got' \in 0 .. total
    BY <1>1 DEF IInv, ReceiverInv, InString
  <1>6. CASE ReceiveBegin
    <2>0. PICK r, section : Received(r, section, "read")
      BY <1>6 DEF ReceiveBegin
    <2>1. in.does = "begin" /\ in'.does \in {"read", "failed"}
      BY <1>6, <2>0 DEF ReceiveBegin, Received
    <2>2. in'.does = "read"
      BY <1>4, <2>1
    <2>3. ReceiverLeft = 2 * total + 3
      BY <2>1, LeftIs DEF ReceiverLeft
    <2> DEFINE got == Got'
    <2>4. got \in 0 .. total
      BY <1>5, <2>2
    <2>5. ReceiverLeft' \in Nat /\ ReceiverLeft' <= 2 * (total - got) + 2
      BY <1>2, <1>3, <2>2, <2>4, LeftBounds
    <2> HIDE DEF got
    <2> DEFINE bound == 2 * (total - got) + 2
               full == 2 * total + 3
    <2>6. bound < full /\ bound \in Nat /\ full \in Nat
      BY <1>2, <2>4
    <2> HIDE DEF bound
    <2>7. ReceiverLeft' < full
      <3> HIDE DEF full
      <3> QED BY <2>5, <2>6 DEF bound
    <2> QED BY <1>1, <2>3, <2>7
  <1>7. CASE NextPiece
    <2>1. in.does = "read" /\ in.z.state.payload = in.z.state.payload_end
          /\ UNCHANGED fragments
          /\ \E len \in 1 .. Least(MaxChunk, Len(wire)) :
                in' = [in EXCEPT !.z = UpdateState(@, len), !.section = Piece(len)]
      BY <1>7 DEF NextPiece
    <2>2. PICK len \in 1 .. Least(MaxChunk, Len(wire)) :
            in' = [in EXCEPT !.z = UpdateState(@, len), !.section = Piece(len)]
      BY <2>1
    <2>3. in'.does = "read" /\ in'.z = UpdateState(in.z, len) /\ Got' = Got
      BY <2>1, <2>2 DEF IInv, ReceiverInv, Got
    <2>4. len \in Nat /\ len >= 1
      <3>1. Len(wire) \in Nat /\ MaxChunk \in Nat
        BY <2>1, ReadingString, TransferAssumption
      <3> QED BY <2>2, <3>1 DEF Least
    <2>5. in'.z.state.payload = 0 /\ in'.z.state.payload_end = len
      <3>1. total \in Totals /\ in.z \in Context /\ InString(in.z, Got)
        BY <2>1, ReadingString
      <3> QED BY <1>2, <2>1, <2>3, <2>4, <3>1, StringContinued
    <2>6. in'.z.state.payload # in'.z.state.payload_end
      BY <2>4, <2>5
    <2>7. ReceiverLeft = 2 * (total - Got) + 1 + 1
      BY <2>1, LeftIs DEF ReceiverLeft
    <2>8. ReceiverLeft' = 2 * (total - Got) + 1 + 0
      BY <1>3, <2>3, <2>6, LeftIs
    <2>9. Got \in Nat
      BY <1>2, <2>1
    <2> QED BY <1>1, <1>2, <2>7, <2>8, <2>9
  <1>8. CASE NextFragment
    <2>1. in.does = "read" /\ in'.does \in {"read", "failed"}
      BY <1>8 DEF NextFragment, Received
    <2>2. in'.does = "read" /\ Got' > Got
      BY <1>4, <1>8, <2>1, NextFragmentStep
    <2> DEFINE got == Got
               more == Got'
    <2>3. got \in 0 .. total /\ more \in 0 .. total /\ more > got
      BY <1>2, <1>5, <2>1, <2>2
    <2>4. ReceiverLeft \in Nat /\ 2 * (total - got) + 1 <= ReceiverLeft
      BY <1>2, <2>1, <2>3, LeftBounds DEF ReceiverLeft
    <2>5. ReceiverLeft' \in Nat /\ ReceiverLeft' <= 2 * (total - more) + 2
      BY <1>2, <1>3, <2>2, <2>3, LeftBounds
    <2> HIDE DEF got, more
    <2>6. got \in Nat /\ more \in Nat /\ got <= total /\ more <= total
      BY <1>2, <2>3
    <2>7. ReceiverLeft' < ReceiverLeft
      BY <1>2, <2>3, <2>4, <2>5, <2>6, LessLeft
    <2> QED BY <1>1, <2>7
  <1>9. CASE ReceiveEnd
    <2>1. in.does = "read" /\ Got = total /\ in'.does \in {"ended", "failed"}
      BY <1>9 DEF ReceiveEnd, Received
    <2>2. in'.does = "ended"
      BY <1>4, <2>1
    <2>3. ReceiverLeft \in Nat /\ 2 * (total - Got) + 1 <= ReceiverLeft
      BY <1>2, <2>1, LeftBounds DEF ReceiverLeft
    <2>4. ReceiverLeft' = 0
      BY <1>3, <2>2, LeftIs
    <2>5. 2 * (total - Got) + 1 = 1
      BY <1>2, <2>1
    <2>6. 0 < ReceiverLeft
      BY <2>3, <2>5
    <2> QED BY <1>1, <2>4, <2>6
  <1> QED BY <1>6, <1>7, <1>8, <1>9

(* A fault is one of finitely many.                                        *)
LEMMA FaultProgresses ==
    Lose \/ Duplicate \/ Forget \/ Swap =>
        in.does = "ended" /\ faults' = faults + 1 /\ UNCHANGED <<total, out, in>>
  BY DEF Lose, Duplicate, Forget, Swap, Fault

(* A sum falls with one of its parts.                                      *)
LEMMA LessOfThree ==
    \A a, b, c, x, y, z \in Nat :
        \/ x < a /\ y = b /\ z = c
        \/ x = a /\ y < b /\ z = c
        \/ x = a /\ y = b /\ z < c
        => x + y + z < a + b + c
  OBVIOUS

(* Every step leaves less to do.                                           *)
LEMMA ProgressHolds == IInv /\ IInv' /\ Next => Work' < Work
  <1> SUFFICES ASSUME IInv, IInv', Next PROVE Work' < Work
    OBVIOUS
  <1> DEFINE a == SenderLeft
             b == ReceiverLeft
             c == MaxFaults - faults
  <1>1. a \in Nat /\ b \in Nat /\ c \in Nat
    BY LeftNumbers DEF LeftCounted
  <1>2. a' \in Nat /\ b' \in Nat /\ c' \in Nat
    BY LeftNumbersAfter DEF LeftCounted
  <1>3. Work = a + b + c
    BY DEF Work, SenderLeft, ReceiverLeft
  <1>4. Work' = a' + b' + c'
    BY DEF Work, SenderLeft, ReceiverLeft
  <1>5. (a' < a /\ b' = b /\ c' = c) \/ (a' = a /\ b' < b /\ c' = c)
        \/ (a' = a /\ b' = b /\ c' < c)
    <2>1. total' = total /\ out' = out => a' = a
      BY SameLeft DEF SenderLeft
    <2>2. total' = total /\ in' = in /\ Got' = Got => b' = b
      BY SameLeft DEF ReceiverLeft
    <2>3. faults' = faults => c' = c
      OBVIOUS
    <2>4. CASE SendBegin \/ Feed \/ Ship \/ SendEnd
      <3>1. a' < a /\ UNCHANGED <<total, in, fragments, faults>>
        BY <2>4, SenderProgresses
      <3>2. Got' = Got
        BY <3>1 DEF Got
      <3> QED BY <2>2, <2>3, <3>1, <3>2
    <2>5. CASE ReceiveBegin \/ NextPiece \/ NextFragment \/ ReceiveEnd
      BY <2>1, <2>3, <2>5, ReceiverProgresses
    <2>6. CASE Lose \/ Duplicate \/ Forget \/ Swap
      <3>1. in.does = "ended" /\ faults' = faults + 1 /\ UNCHANGED <<total, out, in>>
        BY <2>6, FaultProgresses
      <3>2. b = 0 /\ b' = 0
        BY <3>1, LeftIs, SameLeft DEF ReceiverLeft
      <3>3. c' < c
        <4>1. faults \in Nat /\ MaxFaults \in Nat
          BY TransferAssumption DEF IInv, TypeOK
        <4> QED BY <3>1, <4>1
      <3> QED BY <2>1, <3>1, <3>2, <3>3
    <2> QED BY <2>4, <2>5, <2>6 DEF Next
  <1> HIDE DEF a, b, c
  <1> QED BY <1>1, <1>2, <1>3, <1>4, <1>5, LessOfThree

(* What is under way is accounted for.                                     *)
LEMMA AccountedFromInvariant == IInv => BytesAccounted
  <1> SUFFICES ASSUME IInv, in.does = "read"
               PROVE  out.fed = Got + (in.z.state.payload_end - in.z.state.payload) + Len(wire)
                                + (IF out.does = "feed" THEN out.z.state.payload ELSE 0)
    BY DEF BytesAccounted
  <1> DEFINE h == HeadLen(total)
             got == Got
             p == in.z.state.payload
             end == in.z.state.payload_end
             base == in.z.base
             w == Len(wire)
             fed == out.fed
             q == out.z.state.payload
  <1>1. /\ h \in Nat /\ got \in Nat /\ p \in Nat /\ end \in Nat /\ base \in Nat
        /\ w \in Nat /\ base + p = h + got
    <2>1. end = Len(in.section) /\ Len(in.section) \in Nat
      BY ReadingString
    <2> QED BY <2>1, ReadingString
  <1>2. Taken = base + end
    BY ReadingString DEF Taken
  <1>3. total \in Nat /\ out.z \in Context /\ out.z.base \in Nat /\ q \in Nat /\ fed \in Nat
    <2>1. total \in Totals /\ out.z \in Context /\ out.fed \in 0 .. total
      BY DEF IInv, TypeOK
    <2>2. out.z.base \in Nat /\ out.z.state \in State
      BY <2>1, ContextFields
    <2>3. total \in Nat
      BY <2>1, HeadFacts
    <2> QED BY <2>1, <2>2, <2>3 DEF State
  <1>4. w = Shipped - Taken
    BY DEF IInv, WireInv
  <1>5. CASE out.does = "feed"
    <2> DEFINE first == out.z.base
    <2>1. Shipped = first /\ first \in Nat /\ first + q = h + fed
      <3>1. Shipped = first
        BY <1>3, <1>5 DEF Shipped
      <3> QED BY <1>3, <1>5, <3>1, Feeding
    <2> HIDE DEF h, got, p, end, base, w, fed, q, first
    <2>2. fed = got + (end - p) + w + q
      BY ONLY <1>1, <1>2, <1>3, <1>4, <2>1
    <2> QED BY <1>5, <2>2 DEF got, end, p, w, fed, q
  <1>6. CASE out.does = "ended"
    <2>1. Shipped = h + fed
      BY <1>6 DEF IInv, SenderInv
    <2> HIDE DEF h, got, p, end, base, w, fed
    <2>2. fed = got + (end - p) + w + 0
      BY ONLY <1>1, <1>2, <1>3, <1>4, <2>1
    <2> QED BY <1>6, <2>2 DEF got, end, p, w, fed
  <1>7. CASE out.does = "begin"
    <2>1. Shipped = 0
      BY <1>7 DEF IInv, SenderInv, NewState, Shipped
    <2>2. Taken = 0
      <3> HIDE DEF w, base, end
      <3> QED BY <1>1, <1>2, <1>4, <2>1
    <2>3. base = 0 /\ end = 0 /\ p = 0
      <3>1. p <= end
        BY ReadingString
      <3> HIDE DEF base, end, p
      <3> QED BY <1>1, <1>2, <2>2, <3>1
    <2>4. h >= 1
      <3>1. total \in Totals
        BY DEF IInv, TypeOK
      <3>2. h = 2 + HeaderLen(total) /\ HeaderLen(total) \in Nat
        BY <3>1, HeadFacts
      <3> HIDE DEF h
      <3> QED BY <3>2
    <2>5. FALSE
      <3> HIDE DEF base, end, p, h, got
      <3> QED BY <1>1, <2>3, <2>4
    <2> QED BY <2>5
  <1>8. out.does \in {"begin", "feed", "ended"}
    BY DEF IInv, SenderInv
  <1> QED BY <1>5, <1>6, <1>7, <1>8

-----------------------------------------------------------------------------
(* The theorems.                                                           *)

(* The invariant holds before either side begins.                          *)
LEMMA TransferInit == Init => IInv
  <1> SUFFICES ASSUME Init PROVE IInv
    OBVIOUS
  <1>1. PICK room \in Rooms :
        /\ room > HeadLen(total)
        /\ out = [z |-> NewState(room, 0), mem |-> Blank, fed |-> 0, does |-> "begin"]
    BY DEF Init
  <1>2. /\ total \in Totals /\ wire = << >> /\ fragments = << >> /\ faults = 0
        /\ in = [z |-> NewState(0, LargeElemCount), section |-> << >>, does |-> "begin"]
    BY DEF Init
  <1>3. room \in Nat /\ total \in Nat
    BY <1>2, OffsetsHold, HeadFacts
  <1>4. \A n \in Nat : \A k \in 0 .. MaxElemCount :
            NewState(n, k) \in Context /\ NewState(n, k).base = 0
    BY DEF NewState, Context, State, DecodeState
  <1>5. Unwritten \in Byte
    BY DEF Unwritten, Byte, Kinds
  <1>6. TypeOK
    <2>1. NewState(room, 0) \in Context /\ NewState(0, LargeElemCount) \in Context
      BY <1>3, <1>4, LargeElemCountInRange, MaxElemCountAssumption
    <2>2. Blank \in [Offsets -> Byte]
      BY <1>5 DEF Blank
    <2>3. 0 \in 0 .. total /\ 0 \in 0 .. MaxFaults
      BY <1>3, TransferAssumption
    <2> QED BY <1>1, <1>2, <2>1, <2>2, <2>3 DEF TypeOK
  <1>7. SenderInv
    BY <1>1 DEF SenderInv
  <1>8. WireInv
    <2>1. Shipped = 0 /\ Taken = 0
      BY <1>1, <1>2 DEF Shipped, Taken, NewState
    <2> QED BY <1>2, <2>1 DEF WireInv, Holds
  <1>9. ReceiverInv
    BY <1>2 DEF ReceiverInv
  <1>10. FragmentsInv
    BY <1>2 DEF FragmentsInv, InOrder
  <1> QED BY <1>6, <1>7, <1>8, <1>9, <1>10 DEF IInv

(* Every step of either side, and every fault, keeps the invariant.        *)
LEMMA TransferStep == IInv /\ [Next]_vars => IInv'
  <1> SUFFICES ASSUME IInv, [Next]_vars PROVE IInv'
    OBVIOUS
  <1>1. CASE UNCHANGED vars
    <2>1. /\ total' = total /\ out' = out /\ wire' = wire /\ in' = in
          /\ fragments' = fragments /\ faults' = faults
      BY <1>1 DEF vars
    <2>2. Shipped' = Shipped /\ Taken' = Taken /\ Got' = Got
      BY <2>1 DEF Shipped, Taken, Got
    <2>3. TypeOK'
      BY <2>1 DEF IInv, TypeOK
    <2>4. SenderInv'
      BY <2>1, <2>2, SameMessage DEF IInv, SenderInv
    <2>5. WireInv'
      BY <2>1, <2>2, SameMessage DEF IInv, WireInv
    <2>6. ReceiverInv'
      BY <2>1, <2>2, SameMessage DEF IInv, ReceiverInv
    <2>7. FragmentsInv'
      BY <2>1, SameMessage DEF IInv, FragmentsInv
    <2> QED BY <2>3, <2>4, <2>5, <2>6, <2>7 DEF IInv
  <1>2. CASE SendBegin
    BY <1>2, SendBeginStep
  <1>3. CASE Feed
    BY <1>3, FeedStep
  <1>4. CASE Ship
    BY <1>4, ShipStep
  <1>5. CASE SendEnd
    BY <1>5, SendEndStep
  <1>6. CASE ReceiveBegin
    BY <1>6, ReceiveBeginStep
  <1>7. CASE NextPiece
    BY <1>7, NextPieceStep
  <1>8. CASE NextFragment
    BY <1>8, NextFragmentStep
  <1>9. CASE ReceiveEnd
    BY <1>9, ReceiveEndStep
  <1>10. CASE Lose
    BY <1>10, LoseStep
  <1>11. CASE Duplicate
    BY <1>11, DuplicateStep
  <1>12. CASE Forget
    BY <1>12, ForgetStep
  <1>13. CASE Swap
    BY <1>13, SwapStep
  <1> QED BY <1>1, <1>2, <1>3, <1>4, <1>5, <1>6, <1>7, <1>8, <1>9, <1>10, <1>11, <1>12, <1>13
      DEF Next

(* The inductive invariant: both sides know where in the message they are, *)
(* the wire holds what is between them, and what was collected is in order.*)
THEOREM TransferInvariant == Spec => []IInv
  BY TransferInit, TransferStep, PTL DEF Spec

(* Every state is of its type, whatever the sizes of the sections.         *)
THEOREM TransferTypeCorrect == Spec => []TypeOK
  <1>1. IInv => TypeOK
    BY DEF IInv
  <1> QED BY <1>1, TransferInvariant, PTL

(* Neither side fails, and what the receiver collected joins to the string *)
(* that was sent, wherever the two cut it and however they interleave.     *)
THEOREM StringDelivered == Spec => []DeliveredWhole
  <1>1. IInv => DeliveredWhole
    BY DeliveredFromInvariant DEF IInv
  <1> QED BY <1>1, TransferInvariant, PTL

(* Fragments that were lost, repeated, swapped or never filled in either   *)
(* fail the check or join to the whole string; or every one of them was    *)
(* lost, and nothing passes the check and joins to nothing.                *)
THEOREM CheckedFragmentsJoin == Spec => []ValidJoinWholeOrNothing
  <1>1. IInv => ValidJoinWholeOrNothing
    BY JoinFromInvariant DEF IInv
  <1> QED BY <1>1, TransferInvariant, PTL

(* The last fragment is flagged when the fragments are complete.           *)
THEOREM FlagCompletes == Spec => []LastFragmentCompletes
  <1>1. IInv => LastFragmentCompletes
    BY LastFromInvariant DEF IInv
  <1> QED BY <1>1, TransferInvariant, PTL

(* At every moment the bytes the sender took from its file are those the   *)
(* receiver has collected and those in its section, on the wire, or in the *)
(* section being written.                                                  *)
THEOREM NothingLost == Spec => []BytesAccounted
  <1>1. IInv => BytesAccounted
    BY AccountedFromInvariant
  <1> QED BY <1>1, TransferInvariant, PTL

(* Each step of either loop leaves less to do, so that neither can run for *)
(* ever without coming to its end.                                         *)
THEOREM LoopsProgress == Spec => EveryStepProgresses
  <1>1. IInv /\ IInv' /\ [Next]_vars => [Work' < Work]_vars
    BY ProgressHolds
  <1> QED BY <1>1, TransferInvariant, PTL DEF Spec, EveryStepProgresses
=============================================================================
