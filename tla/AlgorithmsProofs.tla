--------------------------- MODULE AlgorithmsProofs ---------------------------
(***************************************************************************)
(* Proofs about algorithms that MCAlgorithms checks: the choice of the     *)
(* file that LineToPCs means, for names and tables of any size; the        *)
(* elements of a channel, for any capacity and any run of the program; the *)
(* decoders of LEB128, for words and encodings of any length; the          *)
(* evaluator's operators on numbers, for numbers and bytes of any size;    *)
(* slices and sums of strings, and slices of slices, of any length.        *)
(***************************************************************************)
EXTENDS BestFile, Channel, LebDecoding, NumberOps, SliceOps, WellFoundedInduction, TLAPS

-----------------------------------------------------------------------------
(* The choice of a file.                                                   *)
(*                                                                         *)
(* One pass finds the best file because the comparison is an ordering: a   *)
(* file that was not better than the one before is not better than one     *)
(* that has replaced it.  The invariant is that no file so far is better.  *)

Chosen == [fileNum : Nat, components : Nat, length : Nat, underComp : BOOLEAN]

(* Better is irreflexive, and its complement is transitive. *)
LEMMA BetterOrders ==
  /\ \A f \in Chosen : ~Better(f, f)
  /\ \A f, g, h \in Chosen : ~Better(f, g) /\ Better(h, g) => ~Better(f, h)
  /\ \A f, g \in Chosen : ~Better(f, g) =>
       /\ f.components <= g.components
       /\ f.components = g.components /\ f.underComp => g.underComp
       /\ f.components = g.components /\ (f.underComp <=> g.underComp) => g.length <= f.length
  BY DEF Better, Chosen

(* The number of components that match is positive if the base names do. *)
LEMMA SuffixSizeMatches ==
  ASSUME NEW p1 \in Names, NEW p2 \in Names
  PROVE  /\ SuffixSize(p1, p2) \in Nat
         /\ SuffixSize(p1, p2) > 0 <=> Last(Split(p1)) = Last(Split(p2))
<1> DEFINE p == Split(p1)
           q == Split(p2)
           Matches(n) ==
             /\ n <= Len(q)
             /\ \A i \in 0..(n - 1) : p[Len(p) - i] = q[Len(q) - i]
             /\ n = Len(p) \/ n = Len(q) \/ p[Len(p) - n] # q[Len(q) - n]
           stop == {n \in Nat : n = Len(p) \/ n = Len(q) \/ p[Len(p) - n] # q[Len(q) - n]}
           less == OpToRel(<, Nat)
<1>1. Len(p) \in Nat /\ Len(p) > 0 /\ Len(q) \in Nat /\ Len(q) > 0
  BY StringsAssumption
<1>2. \E n \in 0..Len(p) : Matches(n)
  <2>1. Len(p) \in stop /\ Len(q) \in stop /\ stop \subseteq Nat
    BY <1>1
  <2>2. IsWellFoundedOn(less, Nat)
    BY NatLessThanWellFounded
  <2>3. \A x, y \in stop : x < y => <<x, y>> \in less
    BY <2>1 DEF OpToRel
  <2> HIDE DEF less, stop
  <2>4. PICK m \in stop : \A x \in stop : ~(<<x, m>> \in less)
    BY <2>1, <2>2, WFMin
  <2>5. \A x \in stop : ~(x < m)
    BY <2>3, <2>4, Zenon
  <2>6. m \in Nat /\ m <= Len(p) /\ m <= Len(q)
    BY <2>1, <2>5, <1>1
  <2>7. \A i \in 0..(m - 1) : p[Len(p) - i] = q[Len(q) - i]
    <3> SUFFICES ASSUME NEW i \in 0..(m - 1) PROVE p[Len(p) - i] = q[Len(q) - i]
      OBVIOUS
    <3>1. i \in Nat /\ i < m
      BY <2>6
    <3>2. i \notin stop
      BY <3>1, <2>5
    <3>3. QED
      BY <3>1, <3>2 DEF stop
  <2>8. m = Len(p) \/ m = Len(q) \/ p[Len(p) - m] # q[Len(q) - m]
    BY DEF stop
  <2>9. m \in 0..Len(p)
    BY <2>6, <1>1
  <2>10. QED
    BY <2>6, <2>7, <2>8, <2>9
<1>3. SuffixSize(p1, p2) \in 0..Len(p) /\ Matches(SuffixSize(p1, p2))
  BY <1>2 DEF SuffixSize
<1> DEFINE n == SuffixSize(p1, p2)
<1> HIDE DEF n
<1>4. n \in Nat
  BY <1>1, <1>3 DEF n
<1>5. n > 0 => p[Len(p)] = q[Len(q)]
  <2> SUFFICES ASSUME n > 0 PROVE p[Len(p)] = q[Len(q)]
    OBVIOUS
  <2>1. 0 \in 0..(n - 1)
    BY <1>4
  <2>2. p[Len(p) - 0] = q[Len(q) - 0]
    BY <1>3, <2>1 DEF n
  <2>3. QED
    BY <2>2, <1>1
<1>6. n = 0 => p[Len(p)] # q[Len(q)]
  <2> SUFFICES ASSUME n = 0 PROVE p[Len(p)] # q[Len(q)]
    OBVIOUS
  <2>1. p[Len(p) - 0] # q[Len(q) - 0]
    BY <1>1, <1>3 DEF n
  <2>2. QED
    BY <2>1, <1>1
<1>7. n > 0 <=> p[Len(p)] = q[Len(q)]
  BY <1>4, <1>5, <1>6
<1>8. QED
  BY <1>4, <1>7 DEF Last, n

(* The candidate that file i of the table is. *)
Cand(in, i) == Candidate(in.files[i], i - 1, in.compDir, in.want)

FileTypeOK ==
  input \in [kind : {"file"}, compDir : Dirs \cup {NoName}, want : Names,
            files : Seq(Names), best : Chosen]

(* What the loop has chosen is a file of the table, or it is None, and no  *)
(* file that it has looked at is better.                                   *)
ChosenIsFile ==
  input.best # None =>
    \E i \in DOMAIN input.files : input.best = Cand(input, i)

NoneIsBetter ==
  \A i \in DOMAIN input.files : ~Better(Cand(input, i), input.best)

FileInv == FileTypeOK /\ ChosenIsFile /\ NoneIsBetter

(* A candidate is what the loop may choose. *)
LEMMA CandidateType ==
  ASSUME FileTypeOK, NEW name \in Names, NEW num \in Nat
  PROVE  /\ Candidate(name, num, input.compDir, input.want) \in Chosen
         /\ Candidate(name, num, input.compDir, input.want).components > 0
              <=> Last(Split(name)) = Last(Split(input.want))
<1>1. input.want \in Names /\ input.compDir \in Dirs \cup {NoName}
  BY DEF FileTypeOK
<1>2. /\ SuffixSize(name, input.want) \in Nat
      /\ SuffixSize(name, input.want) > 0 <=> Last(Split(name)) = Last(Split(input.want))
  BY <1>1, SuffixSizeMatches
<1>3. Length(name) \in Nat /\ HasPrefix(name, input.compDir) \in BOOLEAN
  BY <1>1, StringsAssumption
<1>4. QED
  BY <1>2, <1>3 DEF Candidate, Chosen

LEMMA FileInitInv == FileInit => FileInv
<1> SUFFICES ASSUME FileInit PROVE FileInv
  OBVIOUS
<1>1. PICK dir \in Dirs \cup {NoName}, want \in Names :
        input = [kind |-> "file", compDir |-> dir, want |-> want,
                 files |-> << >>, best |-> None]
  BY DEF FileInit
<1>2. None \in Chosen
  BY DEF None, Chosen
<1>3. input.files = << >> /\ input.best = None
  BY <1>1
<1>4. FileTypeOK
  BY <1>1, <1>2 DEF FileTypeOK
<1>5. ChosenIsFile /\ NoneIsBetter
  BY <1>3 DEF ChosenIsFile, NoneIsBetter
<1>6. QED
  BY <1>4, <1>5 DEF FileInv

LEMMA FileNextInv == FileInv /\ [FileNext]_input => FileInv'
<1> SUFFICES ASSUME FileInv, [FileNext]_input PROVE FileInv'
  OBVIOUS
<1>1. CASE UNCHANGED input
  BY <1>1 DEF FileInv, FileTypeOK, ChosenIsFile, NoneIsBetter
<1>2. CASE FileNext
  <2> DEFINE num == Len(input.files)
  <2>1. PICK name \in Names :
          input' = [input EXCEPT !.files = Append(@, name),
                                 !.best = IF Better(Candidate(name, num, input.compDir, input.want), @)
                                          THEN Candidate(name, num, input.compDir, input.want) ELSE @]
    BY <1>2, StringsAssumption DEF FileNext
  <2> DEFINE f == Candidate(name, num, input.compDir, input.want)
  <2>2. FileTypeOK /\ input.files \in Seq(Names) /\ num \in Nat
    BY DEF FileInv, FileTypeOK
  <2>3. f \in Chosen /\ input.best \in Chosen
    BY <2>2, CandidateType DEF FileTypeOK
  <2>4. /\ input'.kind = input.kind /\ input'.compDir = input.compDir
        /\ input'.want = input.want
        /\ input'.files = Append(input.files, name)
        /\ input'.best = IF Better(f, input.best) THEN f ELSE input.best
    BY <2>1, <2>2 DEF FileTypeOK
  <2>5. FileTypeOK'
    <3> HIDE DEF f, num
    <3>1. input'.files \in Seq(Names) /\ input'.best \in Chosen
      BY <2>2, <2>3, <2>4
    <3>2. QED
      BY <2>1, <2>2, <3>1 DEF FileTypeOK
  <2>7. /\ DOMAIN input'.files = DOMAIN input.files \cup {num + 1}
        /\ input'.files[num + 1] = name
        /\ \A i \in DOMAIN input.files : /\ input'.files[i] = input.files[i]
                                         /\ i - 1 \in Nat /\ i # num + 1
                                         /\ input.files[i] \in Names
    BY <2>2, <2>4
  <2>8. \A i \in DOMAIN input'.files :
          Cand(input', i) = IF i = num + 1 THEN f ELSE Cand(input, i)
    <3>1. num + 1 - 1 = num
      BY <2>2
    <3>2. \A i \in DOMAIN input.files : Cand(input', i) = Cand(input, i)
      BY <2>4, <2>7 DEF Cand
    <3>3. Cand(input', num + 1) = f
      BY <2>4, <2>7, <3>1 DEF Cand
    <3> HIDE DEF f, num
    <3>4. QED
      BY <2>7, <3>2, <3>3
  <2>9. \A i \in DOMAIN input.files : /\ Cand(input, i) \in Chosen
                                      /\ ~Better(Cand(input, i), input.best)
    BY <2>2, <2>7, CandidateType DEF FileInv, NoneIsBetter, Cand
  <2> HIDE DEF f, num
  <2>10. ChosenIsFile'
    <3> SUFFICES ASSUME input'.best # None
                 PROVE  \E i \in DOMAIN input'.files : input'.best = Cand(input', i)
      BY DEF ChosenIsFile
    <3>1. CASE Better(f, input.best)
      BY <3>1, <2>4, <2>7, <2>8
    <3>2. CASE ~Better(f, input.best)
      <4>1. PICK i \in DOMAIN input.files : input.best = Cand(input, i)
        BY <3>2, <2>4 DEF FileInv, ChosenIsFile
      <4>2. QED
        BY <3>2, <4>1, <2>2, <2>4, <2>7, <2>8
    <3>3. QED
      BY <3>1, <3>2
  <2>11. NoneIsBetter'
    <3> SUFFICES ASSUME NEW i \in DOMAIN input'.files
                 PROVE  ~Better(Cand(input', i), input'.best)
      BY DEF NoneIsBetter
    <3> DEFINE g == IF i = num + 1 THEN f ELSE Cand(input, i)
    <3>1. Cand(input', i) = g
      BY <2>8
    <3>2. g \in Chosen /\ (g = f \/ ~Better(g, input.best))
      BY <2>3, <2>7, <2>9
    <3> HIDE DEF g
    <3>3. CASE Better(f, input.best)
      <4>1. ~Better(g, f)
        BY <3>2, <3>3, <2>3, BetterOrders
      <4>2. QED
        BY <3>1, <3>3, <4>1, <2>4
    <3>4. CASE ~Better(f, input.best)
      BY <3>1, <3>2, <3>4, <2>4
    <3>5. QED
      BY <3>3, <3>4
  <2>12. QED
    BY <2>5, <2>10, <2>11 DEF FileInv
<1>3. QED
  BY <1>1, <1>2

(* What the invariant says of the file that the loop ends with. *)
LEMMA FileInvBest == FileInv => BestFileIsBest
<1> SUFFICES ASSUME FileInv PROVE BestFileIsBest
  OBVIOUS
<1> DEFINE fs == input.files
           best == input.best
           c(i) == Cand(input, i)
           size(i) == SuffixSize(fs[i], input.want)
           Under == {i \in Longest : HasPrefix(fs[i], input.compDir)}
           Preferred == IF Under = {} THEN Longest ELSE Under
<1>1. \A i \in DOMAIN fs : i \in Nat /\ i - 1 \in Nat /\ fs[i] \in Names
  BY DEF FileInv, FileTypeOK
<1>2. \A i \in DOMAIN fs : /\ c(i) \in Chosen /\ ~Better(c(i), best)
                           /\ c(i).components > 0 <=> Last(Split(fs[i])) = Last(Split(input.want))
  BY <1>1, CandidateType DEF FileInv, NoneIsBetter, Cand
<1>3. best \in Chosen
  BY DEF FileInv, FileTypeOK
<1>4. \A i \in DOMAIN fs : /\ c(i).components = size(i) /\ c(i).length = Length(fs[i])
                           /\ c(i).fileNum = i - 1
                           /\ c(i).underComp <=> HasPrefix(fs[i], input.compDir)
  BY DEF Candidate, Cand
<1>5. \A i \in DOMAIN fs :
        /\ c(i).components <= best.components
        /\ c(i).components = best.components /\ c(i).underComp => best.underComp
        /\ c(i).components = best.components /\ (c(i).underComp <=> best.underComp)
             => best.length <= c(i).length
  BY <1>2, <1>3, BetterOrders
<1>6. CASE \A i \in DOMAIN fs : Last(Split(fs[i])) # Last(Split(input.want))
  <2>1. best.components = 0
    <3>1. CASE best = None
      BY <3>1 DEF None
    <3>2. CASE best # None
      <4>1. PICK i \in DOMAIN fs : best = c(i)
        BY <3>2 DEF FileInv, ChosenIsFile
      <4>2. ~(c(i).components > 0) /\ c(i).components \in Nat
        BY <1>2, <1>6 DEF Chosen
      <4>3. QED
        BY <4>1, <4>2
    <3>3. QED
      BY <3>1, <3>2
  <2>2. ~found
    BY <2>1 DEF found
  <2>3. QED
    BY <1>6, <2>2 DEF BestFileIsBest
<1>7. CASE ~\A i \in DOMAIN fs : Last(Split(fs[i])) # Last(Split(input.want))
  <2>1. PICK k \in DOMAIN fs : c(k).components > 0
    BY <1>2, <1>7
  <2>2. best.components \in Nat /\ best.components > 0
    BY <1>2, <1>3, <1>5, <2>1 DEF Chosen
  <2>3. best # None
    BY <2>2 DEF None
  <2>4. PICK i \in DOMAIN fs : best = c(i)
    BY <2>3 DEF FileInv, ChosenIsFile
  <2>5. found /\ bestFile = i
    BY <1>1, <1>4, <2>2, <2>4 DEF found, bestFile
  <2> HIDE DEF c
  <2>6. i \in Longest
    BY <1>4, <1>5, <2>2, <2>4 DEF Longest
  <2>7. \A j \in Longest : c(j).components = best.components
    <3> SUFFICES ASSUME NEW j \in Longest PROVE c(j).components = best.components
      OBVIOUS
    <3>1. /\ j \in DOMAIN fs /\ i \in DOMAIN fs
          /\ size(i) <= size(j) /\ size(j) <= size(i)
      BY <2>6 DEF Longest
    <3>2. size(i) \in Nat /\ size(j) \in Nat
      BY <1>2, <1>4, <3>1 DEF Chosen
    <3>3. QED
      BY <3>1, <3>2, <1>4, <2>4
  <2>8. \A j \in Under : i \in Under
    <3> SUFFICES ASSUME NEW j \in Under PROVE i \in Under
      OBVIOUS
    <3>1. j \in DOMAIN fs /\ j \in Longest /\ c(j).underComp
      BY <1>4 DEF Longest
    <3>2. best.underComp
      BY <1>5, <2>7, <3>1
    <3>3. QED
      BY <1>4, <2>4, <2>6, <3>2
  <2>9. i \in Preferred
    BY <2>6, <2>8
  <2>10. \A j \in Preferred : Length(fs[i]) <= Length(fs[j])
    <3> SUFFICES ASSUME NEW j \in Preferred PROVE Length(fs[i]) <= Length(fs[j])
      OBVIOUS
    <3>1. j \in Longest /\ j \in DOMAIN fs
      BY DEF Longest
    <3>2. c(j).underComp <=> best.underComp
      <4>1. CASE Under = {}
        <5>1. i \notin Under /\ j \notin Under
          BY <4>1, Zenon
        <5>2. ~c(i).underComp /\ ~c(j).underComp
          BY <5>1, <3>1, <1>4, <2>6
        <5>3. QED
          BY <5>2, <2>4
      <4>2. CASE Under # {}
        <5>1. j \in Under /\ i \in Under
          BY <4>2, <2>8
        <5>2. c(i).underComp /\ c(j).underComp
          BY <5>1, <3>1, <1>4, <2>4
        <5>3. QED
          BY <5>2, <2>4
      <4>3. QED
        BY <4>1, <4>2
    <3>3. best.length <= c(j).length
      BY <1>5, <2>7, <3>1, <3>2
    <3>4. QED
      BY <3>1, <3>3, <1>4, <2>4
  <2> HIDE DEF Preferred, Under, fs
  <2>11. bestFile \in Preferred /\ \A j \in Preferred : Length(fs[bestFile]) <= Length(fs[j])
    BY <2>5, <2>9, <2>10
  <2>12. QED
    BY <1>7, <2>5, <2>11 DEF BestFileIsBest, Preferred, Under, fs
<1>8. QED
  BY <1>6, <1>7

(* The loop of LineToPCs ends with the best file of a table of any length, *)
(* whatever the order of the files and whatever their names: the longest   *)
(* match, then the names that begin with the compilation directory's, then *)
(* the shortest name.                                                      *)
THEOREM BestFileIsChosen == FileSpec => []BestFileIsBest
<1>1. FileSpec => []FileInv
  BY FileInitInv, FileNextInv, PTL DEF FileSpec
<1>2. QED
  BY <1>1, FileInvBest, PTL

-----------------------------------------------------------------------------
(* The elements of a channel.                                              *)
(*                                                                         *)
(* The debugger computes the place of an element from recvx and the number *)
(* of elements; the program put it at sendx.  The two agree because sendx  *)
(* is the place that the next element of the queue would have.             *)

(* The place i places behind x in a buffer, and that of element i of the queue. *)
Behind(x, i, cap) == IF x + i < cap THEN x + i ELSE x + i - cap
Place(in, i) == Behind(in.recvx, i, in.cap)

(* A place in the buffer, also around its end. *)
LEMMA BehindWraps ==
  ASSUME NEW cap \in Nat, NEW x \in Nat, NEW i \in Nat, x < cap, i <= cap
  PROVE  Behind(x, i, cap) \in 0..(cap - 1) /\ Behind(x, i, cap) < cap
  BY DEF Behind

(* One place further, and one place further from the beginning. *)
LEMMA BehindNext ==
  ASSUME NEW cap \in Nat, NEW x \in Nat, NEW i \in Nat, x < cap, i < cap
  PROVE  /\ Behind(x, i + 1, cap) = Behind(Behind(x, i, cap), 1, cap)
         /\ Behind(x, i + 1, cap) = Behind(Behind(x, 1, cap), i, cap)
  BY DEF Behind

(* Fewer places than the capacity are all different. *)
LEMMA BehindDistinct ==
  ASSUME NEW cap \in Nat, NEW x \in Nat, NEW i \in Nat, NEW j \in Nat, x < cap, i < cap, j < i
  PROVE  Behind(x, j, cap) # Behind(x, i, cap)
  BY DEF Behind

LEMMA FollowingIsBehind ==
  ASSUME NEW x \in Nat, input.cap \in Nat, x < input.cap
  PROVE  Following(x) = Behind(x, 1, input.cap)
  BY DEF Following, Behind

Buffers == UNION {[0..(cap - 1) -> Nat] : cap \in Nat}

ChannelTypeOK ==
  /\ input \in [kind : {"queue"}, cap : Nat, sendx : Nat, recvx : Nat, queue : Seq(Nat),
                slots : Buffers, ops : Nat]
  /\ input.slots \in [0..(input.cap - 1) -> Nat]

SendsBehindQueue ==
  /\ Len(input.queue) <= input.cap
  /\ IF input.cap = 0 THEN input.recvx = 0 ELSE input.recvx < input.cap
  /\ input.sendx = Place(input, Len(input.queue))

QueueInPlace ==
  \A i \in 0..(Len(input.queue) - 1) : input.slots[Place(input, i)] = input.queue[i + 1]

ChannelInv == ChannelTypeOK /\ SendsBehindQueue /\ QueueInPlace

LEMMA ChannelInitInv == QueueInit => ChannelInv
<1> SUFFICES ASSUME QueueInit PROVE ChannelInv
  OBVIOUS
<1>1. PICK cap \in 0..MaxCapacity :
        input = [kind |-> "queue", cap |-> cap, sendx |-> 0, recvx |-> 0, queue |-> << >>,
                 slots |-> [i \in 0..(cap - 1) |-> 0], ops |-> 0]
  BY DEF QueueInit
<1>2. cap \in Nat
  BY ChannelAssumption
<1>3. [i \in 0..(cap - 1) |-> 0] \in [0..(cap - 1) -> Nat]
  OBVIOUS
<1>4. ChannelTypeOK
  <2>1. [i \in 0..(cap - 1) |-> 0] \in Buffers
    BY <1>2, <1>3 DEF Buffers
  <2>2. QED
    BY <1>1, <1>2, <1>3, <2>1 DEF ChannelTypeOK
<1>5. SendsBehindQueue /\ QueueInPlace
  BY <1>1, <1>2 DEF SendsBehindQueue, QueueInPlace, Place, Behind
<1>6. QED
  BY <1>4, <1>5 DEF ChannelInv

(* A send fills the place behind the queue, which holds no element of it. *)
LEMMA ChannelSendInv == ChannelInv /\ ChannelSend => ChannelInv'
<1> SUFFICES ASSUME ChannelInv, ChannelSend PROVE ChannelInv'
  OBVIOUS
<1> DEFINE len == Len(input.queue)
           v == input.ops + 1
<1>1. /\ input.cap \in Nat /\ input.recvx \in Nat /\ input.sendx \in Nat /\ input.ops \in Nat
      /\ input.queue \in Seq(Nat) /\ len \in Nat
      /\ input.slots \in [0..(input.cap - 1) -> Nat]
  BY DEF ChannelInv, ChannelTypeOK
<1>2. /\ len < input.cap /\ input.recvx < input.cap
      /\ input.sendx = Place(input, len)
  BY <1>1 DEF ChannelSend, ChannelInv, SendsBehindQueue
<1>3. input.sendx \in 0..(input.cap - 1)
  <2>1. len <= input.cap
    BY <1>1, <1>2
  <2>2. QED
    BY <2>1, <1>1, <1>2, BehindWraps, Zenon DEF Place
<1>4. /\ input'.cap = input.cap /\ input'.recvx = input.recvx /\ input'.ops = v
      /\ input'.sendx = Following(input.sendx)
      /\ input'.queue = Append(input.queue, v)
      /\ input'.slots = [input.slots EXCEPT ![input.sendx] = v]
  BY DEF ChannelSend, ChannelInv, ChannelTypeOK
<1>5. Following(input.sendx) \in Nat
  BY <1>1 DEF Following
<1>6. /\ input'.slots \in [0..(input.cap - 1) -> Nat] /\ input'.queue \in Seq(Nat)
      /\ Len(input'.queue) = len + 1
  BY <1>1, <1>3, <1>4
<1>7. ChannelTypeOK'
  <2>1. input'.slots \in Buffers
    BY <1>1, <1>6 DEF Buffers
  <2>2. ChannelTypeOK /\ v \in Nat
    BY <1>1 DEF ChannelInv
  <2> HIDE DEF v
  <2>3. QED
    BY <1>4, <1>5, <1>6, <2>1, <2>2 DEF ChannelTypeOK, ChannelSend
<1> HIDE DEF len, v
<1>8. SendsBehindQueue'
  <2>1. Following(input.sendx) = Place(input', len + 1)
    <3>1. Following(input.sendx) = Behind(input.sendx, 1, input.cap)
      BY <1>1, <1>3, FollowingIsBehind
    <3>2. Behind(input.recvx, len + 1, input.cap) = Behind(Behind(input.recvx, len, input.cap), 1, input.cap)
      BY <1>1, <1>2, BehindNext, Zenon
    <3>3. QED
      BY <3>1, <3>2, <1>2, <1>4 DEF Place
  <2>2. QED
    BY <1>1, <1>2, <1>4, <1>6, <2>1 DEF SendsBehindQueue
<1>9. QueueInPlace'
  <2>0. 0..(Len(input'.queue) - 1) = 0..len
    <3>1. PICK n \in Nat : n = len
      BY <1>1 DEF len
    <3>2. Len(input'.queue) = n + 1
      BY <1>6, <3>1 DEF len
    <3>3. (n + 1) - 1 = n
      OBVIOUS
    <3>4. QED
      BY <3>1, <3>2, <3>3, Zenon
  <2> SUFFICES ASSUME NEW i \in 0..len
               PROVE  input'.slots[Place(input', i)] = input'.queue[i + 1]
    BY <2>0, Zenon DEF QueueInPlace
  <2>1. Place(input', i) = Place(input, i) /\ Place(input, i) \in 0..(input.cap - 1)
    <3>1. i \in Nat /\ i <= input.cap
      BY <1>1, <1>2
    <3>2. Behind(input.recvx, i, input.cap) \in 0..(input.cap - 1)
      BY <3>1, <1>1, <1>2, BehindWraps
    <3>3. QED
      BY <3>2, <1>4 DEF Place
  <2>2. CASE i = len
    <3>1. input'.queue[i + 1] = v
      BY <2>2, <1>1, <1>4 DEF len
    <3>2. input'.slots[input.sendx] = v
      BY <1>1, <1>3, <1>4
    <3>3. QED
      BY <2>1, <2>2, <3>1, <3>2, <1>2
  <2>3. CASE i < len
    <3>1. Place(input, i) # input.sendx
      <4>1. i \in Nat
        BY <1>1
      <4>2. QED
        BY <4>1, <2>3, <1>1, <1>2, BehindDistinct, Zenon DEF Place
    <3>2. input.slots[Place(input, i)] = input.queue[i + 1]
      BY <2>3, <1>1 DEF ChannelInv, QueueInPlace, len
    <3>3. input'.queue[i + 1] = input.queue[i + 1]
      BY <2>3, <1>1, <1>4 DEF len
    <3>4. input'.slots[Place(input, i)] = input.slots[Place(input, i)]
      BY <2>1, <3>1, <1>1, <1>4
    <3>5. QED
      BY <2>1, <3>2, <3>3, <3>4
  <2>4. QED
    BY <2>2, <2>3, <1>1
<1>10. QED
  BY <1>7, <1>8, <1>9 DEF ChannelInv

(* A receive moves the beginning of the queue, and no element of it. *)
LEMMA ChannelReceiveInv == ChannelInv /\ ChannelReceive => ChannelInv'
<1> SUFFICES ASSUME ChannelInv, ChannelReceive PROVE ChannelInv'
  OBVIOUS
<1> DEFINE len == Len(input.queue)
<1>1. /\ input.cap \in Nat /\ input.recvx \in Nat /\ input.sendx \in Nat /\ input.ops \in Nat
      /\ input.queue \in Seq(Nat) /\ len \in Nat /\ input.queue # << >>
      /\ input.slots \in [0..(input.cap - 1) -> Nat]
  BY DEF ChannelInv, ChannelTypeOK, ChannelReceive
<1>2. /\ len > 0 /\ len <= input.cap /\ input.recvx < input.cap
      /\ input.sendx = Place(input, len)
  <2>1. len > 0
    BY <1>1
  <2>2. QED
    BY <2>1, <1>1 DEF ChannelInv, SendsBehindQueue
<1>3. /\ input'.cap = input.cap /\ input'.sendx = input.sendx /\ input'.ops = input.ops + 1
      /\ input'.recvx = Following(input.recvx)
      /\ input'.queue = Tail(input.queue)
      /\ input'.slots = input.slots
  BY DEF ChannelReceive, ChannelInv, ChannelTypeOK
<1>4. Following(input.recvx) \in Nat /\ Following(input.recvx) < input.cap
  BY <1>1, <1>2 DEF Following
<1>5. /\ input'.queue \in Seq(Nat) /\ Len(input'.queue) = len - 1
      /\ \A i \in 1..(len - 1) : input'.queue[i] = input.queue[i + 1]
  BY <1>1, <1>3
<1>6. ChannelTypeOK'
  <2>1. ChannelTypeOK /\ input.ops + 1 \in Nat
    BY <1>1 DEF ChannelInv
  <2>2. QED
    BY <1>3, <1>4, <1>5, <2>1 DEF ChannelTypeOK, ChannelReceive
<1> HIDE DEF len
<1>7. \A i \in 0..(len - 1) : Place(input', i) = Place(input, i + 1)
  <2>1. Following(input.recvx) = Behind(input.recvx, 1, input.cap)
    BY <1>1, <1>2, FollowingIsBehind
  <2>2. \A i \in 0..(len - 1) : i \in Nat /\ i < input.cap
    BY <1>1, <1>2
  <2>3. \A i \in 0..(len - 1) :
          Behind(input.recvx, i + 1, input.cap) = Behind(Behind(input.recvx, 1, input.cap), i, input.cap)
    BY <2>2, <1>1, <1>2, BehindNext, Zenon
  <2>4. QED
    BY <2>1, <2>3, <1>3 DEF Place
<1>8. SendsBehindQueue'
  BY <1>1, <1>2, <1>3, <1>4, <1>5, <1>7 DEF SendsBehindQueue
<1>9. QueueInPlace'
  <2> SUFFICES ASSUME NEW i \in 0..(len - 2)
               PROVE  input'.slots[Place(input', i)] = input'.queue[i + 1]
    <3>1. Len(input'.queue) - 1 = len - 2
      BY <1>1, <1>5
    <3>2. QED
      BY <3>1 DEF QueueInPlace
  <2>1. Place(input', i) = Place(input, i + 1)
    BY <1>1, <1>7
  <2>2. i + 1 \in 0..(len - 1) /\ i + 1 \in 1..(len - 1)
    BY <1>1
  <2>3. input.slots[Place(input, i + 1)] = input.queue[(i + 1) + 1]
    BY <2>2 DEF ChannelInv, QueueInPlace, len
  <2>4. QED
    BY <2>1, <2>2, <2>3, <1>3, <1>5
<1>10. QED
  BY <1>6, <1>8, <1>9 DEF ChannelInv

(* The invariant puts element i of the queue where the debugger looks. *)
LEMMA ChannelInvOrder == ChannelInv => ChannelElementsInOrder
<1> SUFFICES ASSUME ChannelInv, NEW i \in 0..input.cap
             PROVE  IF i < Len(input.queue)
                    THEN \E j \in DOMAIN input.slots :
                           /\ ChannelElement(ChannelRead, i) = Buffer + j * Stride
                           /\ input.slots[j] = input.queue[i + 1]
                    ELSE ChannelElement(ChannelRead, i) = 0
  BY DEF ChannelElementsInOrder
<1>1. /\ input.cap \in Nat /\ input.recvx \in Nat /\ Len(input.queue) \in Nat /\ i \in Nat
      /\ input.slots \in [0..(input.cap - 1) -> Nat]
  BY DEF ChannelInv, ChannelTypeOK
<1>2. CASE i < Len(input.queue)
  <2> DEFINE j == Place(input, i)
  <2>1. input.recvx < input.cap /\ Len(input.queue) <= input.cap
    BY <1>1, <1>2 DEF ChannelInv, SendsBehindQueue
  <2>2. j \in DOMAIN input.slots
    BY <1>1, <1>2, <2>1 DEF Place, Behind
  <2>3. input.slots[j] = input.queue[i + 1]
    BY <1>1, <1>2 DEF ChannelInv, QueueInPlace
  <2>4. ChannelElement(ChannelRead, i) = Buffer + j * Stride
    <3>1. i < input.cap - input.recvx <=> input.recvx + i < input.cap
      BY <1>1
    <3>2. ChannelElement(ChannelRead, i) =
            IF i < input.cap - input.recvx THEN Buffer + (input.recvx + i) * Stride
            ELSE Buffer + (input.recvx + i - input.cap) * Stride
      BY <1>1, <1>2 DEF ChannelElement, ChannelRead
    <3>3. QED
      BY <3>1, <3>2 DEF Place, Behind
  <2>5. QED
    BY <1>2, <2>2, <2>3, <2>4
<1>3. CASE ~(i < Len(input.queue))
  BY <1>1, <1>3 DEF ChannelElement, ChannelRead
<1>4. QED
  BY <1>2, <1>3

(* Channel.Element finds every element of a channel of any capacity, in    *)
(* the order of receiving, whatever the program has sent and received.     *)
THEOREM ChannelElementsAreInOrder == QueueSpec => []ChannelElementsInOrder
<1>1. ChannelInv /\ [QueueNext]_input => ChannelInv'
  <2>1. ChannelInv /\ UNCHANGED input => ChannelInv'
    BY DEF ChannelInv, ChannelTypeOK, SendsBehindQueue, QueueInPlace
  <2>2. QED
    BY <2>1, ChannelSendInv, ChannelReceiveInv DEF QueueNext
<1>2. QueueSpec => []ChannelInv
  BY ChannelInitInv, <1>1, PTL DEF QueueSpec
<1>3. QED
  BY <1>2, ChannelInvOrder, PTL

-----------------------------------------------------------------------------
(* The decoders of LEB128.                                                 *)
(*                                                                         *)
(* The loops compute modulo Word what the history computes in the numbers. *)
(* That the sign may be added modulo Word, too, rests on the weight of the *)
(* groups being a divisor of Word, or a multiple, which is where the word  *)
(* overflows.                                                              *)

(* The remainder is the only one. *)
LEMMA RemainderUnique ==
  ASSUME NEW m \in Nat, m > 0, NEW q \in Int, NEW r \in 0..(m - 1)
  PROVE  (m * q + r) % m = r
  OBVIOUS

LEMMA RemainderParts ==
  ASSUME NEW m \in Nat, m > 0, NEW x \in Int
  PROVE  \E q \in Int, r \in 0..(m - 1) : x % m = r /\ x = m * q + r /\ x \div m = q
<1>1. x \div m \in Int /\ x % m \in 0..(m - 1)
  OBVIOUS
<1>2. PICK q \in Int : q = x \div m
  BY <1>1
<1>3. PICK r \in 0..(m - 1) : r = x % m
  BY <1>1
<1>4. x = m * q + r
  BY <1>2, <1>3
<1>5. QED
  BY <1>2, <1>3, <1>4

(* Multiples do not change a remainder. *)
LEMMA RemainderShift ==
  ASSUME NEW m \in Nat, m > 0, NEW x \in Int, NEW k \in Int
  PROVE  (x + m * k) % m = x % m
<1>1. PICK q \in Int, r \in 0..(m - 1) : x % m = r /\ x = m * q + r
  BY RemainderParts
<1>2. x + m * k = m * (q + k) + r
  BY <1>1
<1>3. (m * (q + k) + r) % m = r
  BY RemainderUnique
<1>4. QED
  BY <1>1, <1>2, <1>3

(* A term may be replaced by its remainder. *)
LEMMA RemainderSum ==
  ASSUME NEW m \in Nat, m > 0, NEW x \in Int, NEW y \in Int
  PROVE  ((x % m) + y) % m = (x + y) % m
<1>1. PICK q \in Int, r \in 0..(m - 1) : x % m = r /\ x = m * q + r
  BY RemainderParts
<1>2. x + y = (r + y) + m * q
  BY <1>1
<1>3. ((r + y) + m * q) % m = (r + y) % m
  <2>1. r + y \in Int
    OBVIOUS
  <2>2. QED
    BY <2>1, RemainderShift
<1>4. QED
  BY <1>1, <1>2, <1>3

(* A factor, too. *)
LEMMA RemainderProduct ==
  ASSUME NEW m \in Nat, m > 0, NEW x \in Int, NEW k \in Int
  PROVE  ((x % m) * k) % m = (x * k) % m
<1>1. PICK q \in Int, r \in 0..(m - 1) : x % m = r /\ x = m * q + r
  BY RemainderParts
<1>2. x * k = r * k + m * (q * k)
  BY <1>1
<1>3. (r * k + m * (q * k)) % m = (r * k) % m
  BY RemainderShift
<1>4. QED
  BY <1>1, <1>2, <1>3

(* A weight of groups: it divides Word, or the word has overflowed. *)
Fits(w) == \/ \E q \in Nat : w = Word * q
           \/ w < Word /\ \E q \in Nat : Word = w * q

LEMMA FitsTwice ==
  ASSUME NEW w \in Nat, w > 0, Fits(w)
  PROVE  Fits(2 * w)
<1>1. CASE \E q \in Nat : w = Word * q
  <2>1. PICK q \in Nat : w = Word * q
    BY <1>1
  <2>2. 2 * w = Word * (2 * q) /\ 2 * q \in Nat
    BY <2>1, WordAssumption
  <2>3. QED
    BY <2>2 DEF Fits
<1>2. CASE w < Word /\ \E q \in Nat : Word = w * q
  <2>1. PICK q \in Nat : Word = w * q
    BY <1>2
  <2>2. q > 1
    BY <2>1, <1>2, WordAssumption
  <2>3. q <= Word
    BY <2>1, WordAssumption
  <2>4. Word % q = 0
    <3>1. Word = q * w + 0 /\ 0 \in 0..(q - 1)
      BY <2>1, <2>2
    <3>2. (q * w + 0) % q = 0
      BY <2>2, <3>1, RemainderUnique
    <3>3. QED
      BY <3>1, <3>2
  <2>5. q % 2 = 0
    BY <2>2, <2>3, <2>4, WordAssumption
  <2>6. PICK p \in Nat : q = 2 * p
    BY <2>2, <2>5
  <2>7. Word = (2 * w) * p /\ p > 0
    BY <2>1, <2>2, <2>6
  <2>8. CASE p = 1
    BY <2>7, <2>8 DEF Fits
  <2>9. CASE p > 1
    <3>1. 2 * w < Word
      BY <2>7, <2>9
    <3>2. QED
      BY <2>7, <3>1 DEF Fits
  <2>10. QED
    BY <2>7, <2>8, <2>9
<1>3. QED
  BY <1>1, <1>2, Zenon DEF Fits

LEMMA FitsGroup ==
  ASSUME NEW w \in Nat, w > 0, Fits(w)
  PROVE  Fits(128 * w)
<1>1. Fits(2 * w)
  BY FitsTwice
<1>2. Fits(4 * w)
  <2>1. 2 * w \in Nat /\ 2 * w > 0 /\ 4 * w = 2 * (2 * w)
    OBVIOUS
  <2>2. QED
    BY <1>1, <2>1, FitsTwice
<1>3. Fits(8 * w)
  <2>1. 4 * w \in Nat /\ 4 * w > 0 /\ 8 * w = 2 * (4 * w)
    OBVIOUS
  <2>2. QED
    BY <1>2, <2>1, FitsTwice
<1>4. Fits(16 * w)
  <2>1. 8 * w \in Nat /\ 8 * w > 0 /\ 16 * w = 2 * (8 * w)
    OBVIOUS
  <2>2. QED
    BY <1>3, <2>1, FitsTwice
<1>5. Fits(32 * w)
  <2>1. 16 * w \in Nat /\ 16 * w > 0 /\ 32 * w = 2 * (16 * w)
    OBVIOUS
  <2>2. QED
    BY <1>4, <2>1, FitsTwice
<1>6. Fits(64 * w)
  <2>1. 32 * w \in Nat /\ 32 * w > 0 /\ 64 * w = 2 * (32 * w)
    OBVIOUS
  <2>2. QED
    BY <1>5, <2>1, FitsTwice
<1>7. QED
  <2>1. 64 * w \in Nat /\ 64 * w > 0 /\ 128 * w = 2 * (64 * w)
    OBVIOUS
  <2>2. QED
    BY <1>6, <2>1, FitsTwice

(* A group is added to a word as it is to a number. *)
LEMMA GroupAdded ==
  ASSUME NEW sum \in Nat, NEW w \in Nat, NEW g \in Nat
  PROVE  ((sum % Word) + Shl(g, w)) % Word = (sum + g * w) % Word
<1>1. Word \in Nat /\ Word > 0 /\ g * w \in Int /\ sum \in Int
  BY WordAssumption
<1>2. PICK x \in Int : x = g * w
  BY <1>1
<1>3. PICK y \in Int : y = x % Word
  BY <1>1
<1>4. ((sum % Word) + y) % Word = (sum + y) % Word
  BY <1>1, RemainderSum
<1>5. ((x % Word) + sum) % Word = (x + sum) % Word
  BY <1>1, RemainderSum
<1>6. sum + y = (x % Word) + sum /\ sum + x = x + sum
  BY <1>3, <1>1
<1>7. QED
  BY <1>2, <1>3, <1>4, <1>5, <1>6 DEF Shl

(* The sign, shifted by a group. *)
LEMMA SignShifted ==
  ASSUME NEW w \in Nat
  PROVE  Shl((0 - w) % Word, 128) = (0 - 128 * w) % Word
<1>1. Word \in Nat /\ Word > 0
  BY WordAssumption
<1>2. PICK x \in Int : x = 0 - w
  OBVIOUS
<1>3. ((x % Word) * 128) % Word = (x * 128) % Word
  <2>1. 128 \in Int
    OBVIOUS
  <2>2. QED
    BY <1>1, <2>1, RemainderProduct, Zenon
<1>4. x * 128 = 0 - 128 * w
  BY <1>2
<1>5. QED
  BY <1>2, <1>3, <1>4 DEF Shl

(* The sign is added to a word as the weight is taken from a number. *)
LEMMA SignAdded ==
  ASSUME NEW sum \in Nat, NEW w \in Nat
  PROVE  ((sum % Word) + ((0 - w) % Word)) % Word = (sum - w) % Word
<1>1. Word \in Nat /\ Word > 0 /\ sum \in Int
  BY WordAssumption
<1>2. PICK x \in Int : x = 0 - w
  OBVIOUS
<1>3. PICK y \in Int : y = x % Word
  BY <1>1
<1>4. ((sum % Word) + y) % Word = (sum + y) % Word
  BY <1>1, RemainderSum, Zenon
<1>5. ((x % Word) + sum) % Word = (x + sum) % Word
  BY <1>1, RemainderSum, Zenon
<1>6. sum + y = (x % Word) + sum /\ sum - w = x + sum
  BY <1>2, <1>3, <1>1
<1>7. ((sum % Word) + ((0 - w) % Word)) % Word = (sum + y) % Word
  BY <1>2, <1>3, <1>4
<1>8. (sum + y) % Word = (x + sum) % Word
  BY <1>5, <1>6
<1>9. QED
  BY <1>6, <1>7, <1>8

(* Of the bits of a sum of groups, the highest is that of the top group. *)
LEMMA TopBit ==
  ASSUME NEW low \in Nat, NEW unit \in Nat, low < unit, NEW top \in 0..127
  PROVE  ((low + top * unit) \div (64 * unit)) % 2 = 1 <=> top >= 64
<1> DEFINE half == 64 * unit
           sum == low + top * unit
<1>1. half \in Nat /\ half > 0 /\ sum \in Nat
  OBVIOUS
<1>2. CASE top >= 64
  <2>1. PICK over \in Nat : top = 64 + over /\ over <= 63
    BY <1>2
  <2>2. sum = half * 1 + (low + over * unit)
    BY <2>1
  <2>3. over * unit <= 63 * unit
    BY <2>1
  <2>4. low + over * unit \in 0..(half - 1)
    BY <2>1, <2>3
  <2> HIDE DEF half, sum
  <2>5. sum \div half = 1
    BY <1>1, <2>2, <2>4
  <2>6. QED
    BY <1>2, <2>5 DEF half, sum
<1>3. CASE top < 64
  <2>1. top * unit <= 63 * unit
    BY <1>3
  <2>2. sum < half
    BY <2>1
  <2> HIDE DEF half, sum
  <2>3. sum \div half = 0
    BY <1>1, <2>2
  <2>4. QED
    BY <1>3, <2>3 DEF half, sum
<1>4. QED
  BY <1>2, <1>3

(* int's test of a bit of the word finds the sign, or the sign makes no    *)
(* difference, because its weight is a multiple of Word.                   *)
LEMMA SignExtends ==
  ASSUME NEW sum \in Nat, NEW w \in Nat, NEW top \in 0..127, Fits(w),
         \E low, unit \in Nat : low < unit /\ w = 128 * unit /\ sum = low + top * unit
  PROVE  (IF SignBit(sum % Word, w \div 2) THEN ((sum % Word) + MinusOneShl(w)) % Word
          ELSE sum % Word)
           = (IF top >= 64 THEN sum - w ELSE sum) % Word
<1> SUFFICES ASSUME NEW low \in Nat, NEW unit \in Nat, low < unit,
                    w = 128 * unit, sum = low + top * unit
             PROVE  (IF SignBit(sum % Word, w \div 2)
                     THEN ((sum % Word) + MinusOneShl(w)) % Word ELSE sum % Word)
                      = (IF top >= 64 THEN sum - w ELSE sum) % Word
  BY Zenon
<1>1. Word \in Nat /\ Word > 0
  BY WordAssumption
<1>2. PICK half \in Nat : half = 64 * unit /\ half = w \div 2 /\ half > 0
  <2>1. 64 * unit = w \div 2 /\ 64 * unit > 0
    OBVIOUS
  <2>2. QED
    BY <2>1
<1>3. ((sum % Word) + MinusOneShl(w)) % Word = (sum - w) % Word
  <2>1. ((sum % Word) + ((0 - w) % Word)) % Word = (sum - w) % Word
    BY SignAdded
  <2>2. QED
    BY <2>1 DEF MinusOneShl
<1>4. sum < w
  <2>1. top * unit <= 127 * unit
    OBVIOUS
  <2>2. QED
    BY <2>1
<1>5. CASE half < Word
  <2>1. w <= Word
    <3>1. CASE \E q \in Nat : w = Word * q
      <4>1. PICK q \in Nat : w = Word * q
        BY <3>1
      <4>2. w < 2 * Word
        BY <1>1, <1>2, <1>5
      <4>3. q < 2
        BY <1>1, <4>1, <4>2
      <4>4. q = 0 \/ q = 1
        BY <4>3
      <4>5. QED
        BY <1>1, <4>1, <4>4
    <3>2. CASE w < Word
      BY <3>2, <1>1
    <3>3. QED
      BY <3>1, <3>2, Zenon DEF Fits
  <2>2. sum % Word = sum
    BY <1>1, <1>4, <2>1
  <2>3. SignBit(sum % Word, w \div 2) <=> top >= 64
    <3>1. (sum \div half) % 2 = 1 <=> top >= 64
      <4>1. ((low + top * unit) \div (64 * unit)) % 2 = 1 <=> top >= 64
        <5>1. low < unit
          OBVIOUS
        <5>2. QED
          BY ONLY <5>1, TopBit, low \in Nat, unit \in Nat, top \in 0..127
      <4>2. QED
        BY <1>2, <4>1
    <3>2. QED
      BY <1>2, <1>5, <2>2, <3>1 DEF SignBit
  <2>4. QED
    BY <1>3, <2>3, Zenon
<1>6. CASE ~(half < Word)
  <2>1. PICK q \in Nat : w = Word * q
    <3>1. ~(w < Word)
      BY <1>1, <1>2, <1>6
    <3>2. QED
      BY <3>1, Zenon DEF Fits
  <2>2. (sum + Word * (-q)) % Word = sum % Word
    <3>1. -q \in Int /\ sum \in Int
      OBVIOUS
    <3>2. QED
      BY <1>1, <3>1, RemainderShift
  <2>3. sum - w = sum + Word * (-q)
    BY <1>1, <2>1
  <2>4. ~SignBit(sum % Word, w \div 2)
    BY <1>2, <1>6 DEF SignBit
  <2>5. QED
    BY <2>2, <2>3, <2>4
<1>7. QED
  BY <1>5, <1>6

(* A number that fits in a word is what its word stands for. *)
LEMMA SignedWord ==
  ASSUME NEW n \in Int, n >= -(Word \div 2), n < Word \div 2
  PROVE  Signed(n % Word) = n
<1>1. PICK half \in Nat : half = Word \div 2 /\ half + half <= Word /\ half < Word
  <2>1. Word \div 2 \in Nat /\ Word \div 2 + Word \div 2 <= Word /\ Word \div 2 < Word
    BY WordAssumption
  <2>2. QED
    BY <2>1
<1>2. CASE n >= 0
  <2>1. n % Word = n
    BY <1>1, <1>2, WordAssumption
  <2>2. QED
    BY <1>1, <1>2, <2>1 DEF Signed
<1>3. CASE n < 0
  <2>1. n % Word = n + Word
    <3>1. n = Word * (-1) + (n + Word) /\ n + Word \in 0..(Word - 1)
      BY <1>1, <1>3, WordAssumption
    <3>2. Word \in Nat /\ Word > 0 /\ -1 \in Int
      BY WordAssumption
    <3>3. (Word * (-1) + (n + Word)) % Word = n + Word
      BY <3>1, <3>2, RemainderUnique
    <3>4. QED
      BY <3>1, <3>3
  <2>2. n + Word >= half
    BY <1>1, WordAssumption
  <2>3. QED
    BY <1>1, <2>1, <2>2, WordAssumption DEF Signed
<1>4. QED
  BY <1>2, <1>3

(* The states of the two loops and of the history. *)
VarintState == [c : Nat, weight : Nat, read : Nat, more : BOOLEAN]
Sleb128State == [s : Nat, weight : Nat, sign : Nat, read : Nat, more : BOOLEAN]
EncodedState == [sum : Nat, weight : Nat, top : 0..127]
LebTypeOK ==
  input \in [kind : {"leb128"}, v : Seq(Octets), u : VarintState, t : Sleb128State,
             encoded : EncodedState]

(* Both loops end with the encoding. *)
LoopsTogether ==
  /\ input.u.more <=> ~Complete(input.v)
  /\ input.t.more <=> ~Complete(input.v)
  /\ input.u.read = input.t.read /\ input.u.read <= Len(input.v)
  /\ Complete(input.v) => input.u.read > 0

(* The words hold the number, modulo Word. *)
WordsOf(u, t, e, complete) ==
  /\ u.weight = e.weight /\ t.weight = e.weight /\ e.weight > 0
  /\ u.c = e.sum % Word
  /\ t.sign = (0 - e.weight) % Word
  /\ t.s = (IF complete THEN Number(e) ELSE e.sum) % Word

(* The top group is the last one, and the others are below its bits. *)
Groups(e, read) ==
  /\ Fits(e.weight) /\ e.sum < e.weight
  /\ read > 0 => \E low, unit \in Nat : /\ low < unit /\ e.weight = 128 * unit
                                       /\ e.sum = low + e.top * unit

LebInv ==
  /\ LebTypeOK
  /\ LoopsTogether
  /\ WordsOf(input.u, input.t, input.encoded, Complete(input.v))
  /\ Groups(input.encoded, input.u.read)

LEMMA LebInitInv == LebInit => LebInv
<1> SUFFICES ASSUME LebInit PROVE LebInv
  OBVIOUS
<1>1. Word \in Nat /\ Word > 1 /\ Word - 1 \in Nat
  BY WordAssumption
<1>2. /\ input.v = << >> /\ input.kind = "leb128"
      /\ input.u = varintStart /\ input.t = sleb128Start
      /\ input.encoded = [sum |-> 0, weight |-> 1, top |-> 0]
  BY DEF LebInit
<1>3. LebTypeOK
  BY <1>1 DEF LebInit, LebTypeOK, VarintState, Sleb128State, EncodedState, varintStart, sleb128Start
<1>4. ~Complete(input.v)
  BY <1>2 DEF Complete
<1>5. LoopsTogether
  BY <1>2, <1>4 DEF LoopsTogether, varintStart, sleb128Start
<1>6. 0 % Word = 0 /\ (0 - 1) % Word = Word - 1
  <2>1. 0 - 1 = Word * (-1) + (Word - 1) /\ Word - 1 \in 0..(Word - 1) /\ -1 \in Int /\ Word > 0
    BY <1>1
  <2>2. (Word * (-1) + (Word - 1)) % Word = Word - 1
    BY <1>1, <2>1, RemainderUnique
  <2>3. QED
    BY <1>1, <2>1, <2>2
<1>7. WordsOf(input.u, input.t, input.encoded, Complete(input.v))
  BY <1>2, <1>4, <1>6 DEF WordsOf, varintStart, sleb128Start
<1>8. Groups(input.encoded, input.u.read)
  <2>1. Word = 1 * Word
    BY <1>1
  <2>2. Fits(1)
    BY <1>1, <2>1 DEF Fits
  <2>3. QED
    BY <1>2, <2>2 DEF Groups, varintStart
<1>9. QED
  BY <1>3, <1>5, <1>7, <1>8 DEF LebInv

(* A byte leaves numbers in the states. *)
LEMMA ByteTypes ==
  ASSUME NEW u \in VarintState, NEW t \in Sleb128State, NEW e \in EncodedState, NEW b \in 0..255
  PROVE  /\ varintByte(u, b) \in VarintState
         /\ sleb128Byte(t, b) \in Sleb128State
         /\ Encoded(e, b) \in EncodedState
<1>1. PICK g \in 0..127 : g = b % 128 /\ g \in Nat
  OBVIOUS
<1>2. \A x \in Int : x % Word \in Nat
  BY WordAssumption
<1>3. \A x, y \in Nat : Shl(x, y) \in Nat
  <2> SUFFICES ASSUME NEW x \in Nat, NEW y \in Nat PROVE Shl(x, y) \in Nat
    OBVIOUS
  <2>1. x * y \in Int
    OBVIOUS
  <2>2. QED
    BY <1>2, <2>1 DEF Shl
<1>4. varintByte(u, b) \in VarintState
  <2>1. u.c \in Nat /\ u.weight \in Nat /\ u.read \in Nat
    BY DEF VarintState
  <2>2. PICK a \in Nat : a = Shl(g, u.weight)
    BY <1>1, <1>3, <2>1
  <2>3. (u.c + a) % Word \in Nat
    BY <1>2, <2>1
  <2>4. QED
    BY <1>1, <2>1, <2>2, <2>3 DEF VarintState, varintByte
<1>5. sleb128Byte(t, b) \in Sleb128State
  <2>1. t.s \in Nat /\ t.weight \in Nat /\ t.sign \in Nat /\ t.read \in Nat
    BY DEF Sleb128State
  <2>2. PICK a \in Nat : a = Shl(g, t.weight)
    BY <1>1, <1>3, <2>1
  <2>3. PICK s \in Nat : s = (t.s + a) % Word
    BY <1>2, <2>1
  <2>4. PICK sign \in Nat : sign = Shl(t.sign, 128)
    BY <1>3, <2>1
  <2>5. PICK z \in Nat : z = (s + sign) % Word
    BY <1>2
  <2>6. QED
    BY <1>1, <2>1, <2>2, <2>3, <2>4, <2>5 DEF Sleb128State, sleb128Byte
<1>6. Encoded(e, b) \in EncodedState
  <2>1. e.sum \in Nat /\ e.weight \in Nat
    BY DEF EncodedState
  <2>2. PICK a \in Nat : a = g * e.weight
    <3>1. g * e.weight \in Nat
      BY <2>1
    <3>2. QED
      BY <3>1
  <2>3. QED
    BY <1>1, <2>1, <2>2 DEF EncodedState, Encoded
<1>7. QED
  BY <1>4, <1>5, <1>6

(* A byte that belongs to the encoding leaves the words right. *)
LEMMA ByteWords ==
  ASSUME NEW u \in VarintState, NEW t \in Sleb128State, NEW e \in EncodedState,
         NEW b \in 0..255, u.more, t.more, WordsOf(u, t, e, FALSE)
  PROVE  WordsOf(varintByte(u, b), sleb128Byte(t, b), Encoded(e, b), b < 128)
<1> DEFINE g == b % 128
           w == e.weight
           sum == e.sum
<1>1. /\ g \in 0..127 /\ w \in Nat /\ sum \in Nat /\ g \in Nat
      /\ u.weight = w /\ t.weight = w /\ w > 0
      /\ u.c = sum % Word /\ t.s = sum % Word /\ t.sign = (0 - w) % Word
  BY DEF WordsOf, EncodedState
<1>2. /\ varintByte(u, b).c = (u.c + Shl(g, u.weight)) % Word
      /\ varintByte(u, b).weight = 128 * u.weight
  BY DEF varintByte
<1>3. /\ sleb128Byte(t, b).weight = 128 * t.weight
      /\ sleb128Byte(t, b).sign = Shl(t.sign, 128)
      /\ sleb128Byte(t, b).s =
           IF b < 128 /\ g >= 64
           THEN (((t.s + Shl(g, t.weight)) % Word) + Shl(t.sign, 128)) % Word
           ELSE (t.s + Shl(g, t.weight)) % Word
  BY DEF sleb128Byte
<1>4. /\ Encoded(e, b).sum = sum + g * w /\ Encoded(e, b).weight = 128 * w
      /\ Encoded(e, b).top = g
  BY DEF Encoded
<1> HIDE DEF g, w, sum
<1>5. PICK total \in Nat : total = sum + g * w
  <2>1. sum + g * w \in Nat
    BY <1>1
  <2>2. QED
    BY <2>1
<1>6. PICK weight \in Nat : weight = 128 * w /\ weight > 0
  <2>1. 128 * w \in Nat /\ 128 * w > 0
    BY <1>1
  <2>2. QED
    BY <2>1
<1>7. ((sum % Word) + Shl(g, w)) % Word = total % Word
  BY <1>1, <1>5, GroupAdded
<1>8. Shl((0 - w) % Word, 128) = (0 - weight) % Word
  BY <1>1, <1>6, SignShifted
<1>9. ((total % Word) + ((0 - weight) % Word)) % Word = (total - weight) % Word
  BY SignAdded
<1>10. sleb128Byte(t, b).s = (IF b < 128 /\ g >= 64 THEN total - weight ELSE total) % Word
  BY <1>1, <1>3, <1>7, <1>8, <1>9, Zenon
<1>11. (IF b < 128 THEN Number(Encoded(e, b)) ELSE Encoded(e, b).sum)
         = IF b < 128 /\ g >= 64 THEN total - weight ELSE total
  BY <1>4, <1>5, <1>6 DEF Number
<1>12. /\ varintByte(u, b).c = Encoded(e, b).sum % Word
       /\ sleb128Byte(t, b).sign = (0 - Encoded(e, b).weight) % Word
  <2>1. varintByte(u, b).c = Encoded(e, b).sum % Word
    BY <1>1, <1>2, <1>4, <1>5, <1>7
  <2>2. sleb128Byte(t, b).sign = (0 - Encoded(e, b).weight) % Word
    BY <1>1, <1>3, <1>4, <1>6, <1>8
  <2>3. QED
    BY <2>1, <2>2
<1>13. /\ varintByte(u, b).weight = Encoded(e, b).weight
       /\ sleb128Byte(t, b).weight = Encoded(e, b).weight /\ Encoded(e, b).weight > 0
  BY <1>1, <1>2, <1>3, <1>4, <1>6
<1>14. QED
  BY <1>10, <1>11, <1>12, <1>13, Zenon DEF WordsOf

(* The byte becomes the top group, above all others. *)
LEMMA ByteGroups ==
  ASSUME NEW e \in EncodedState, NEW b \in 0..255, NEW read \in Nat,
         e.weight > 0, Groups(e, read)
  PROVE  Groups(Encoded(e, b), read + 1)
<1> DEFINE g == b % 128
           w == e.weight
           sum == e.sum
<1>1. /\ g \in 0..127 /\ w \in Nat /\ sum \in Nat /\ w > 0 /\ sum < w
      /\ Fits(w)
  BY DEF Groups, EncodedState
<1>2. /\ Encoded(e, b).sum = sum + g * w /\ Encoded(e, b).weight = 128 * w
      /\ Encoded(e, b).top = g
  BY DEF Encoded
<1> HIDE DEF g, w, sum
<1>3. Fits(128 * w)
  BY <1>1, FitsGroup
<1>4. sum + g * w < 128 * w
  <2>1. g * w <= 127 * w
    BY <1>1
  <2>2. QED
    BY <1>1, <2>1
<1>5. \E low, unit \in Nat : /\ low < unit /\ Encoded(e, b).weight = 128 * unit
                           /\ Encoded(e, b).sum = low + Encoded(e, b).top * unit
  BY <1>1, <1>2
<1>6. QED
  BY <1>2, <1>3, <1>4, <1>5, Zenon DEF Groups

(* A byte appended to the input. *)
LEMMA LebNextInv == LebInv /\ LebNext => LebInv'
<1> SUFFICES ASSUME LebInv, LebNext PROVE LebInv'
  OBVIOUS
<1> DEFINE u == input.u
           t == input.t
           e == input.encoded
<1>1. PICK b \in Octets :
        input' = [input EXCEPT !.v = Append(@, b), !.u = varintByte(@, b),
                               !.t = sleb128Byte(@, b),
                               !.encoded = IF Complete(input.v) THEN @ ELSE Encoded(@, b)]
  BY DEF LebNext
<1>2. /\ input.v \in Seq(Octets) /\ u \in VarintState /\ t \in Sleb128State
      /\ e \in EncodedState /\ b \in 0..255
  BY OctetsAssumption DEF LebInv, LebTypeOK
<1>3. /\ input'.kind = "leb128" /\ input'.v = Append(input.v, b)
      /\ input'.u = varintByte(u, b) /\ input'.t = sleb128Byte(t, b)
      /\ input'.encoded = IF Complete(input.v) THEN e ELSE Encoded(e, b)
  BY <1>1 DEF LebInv, LebTypeOK
<1>4. /\ Len(input'.v) = Len(input.v) + 1 /\ Len(input.v) \in Nat
      /\ Complete(input'.v) <=> Complete(input.v) \/ b < 128
  BY <1>2, <1>3 DEF Complete
<1>5. /\ varintByte(u, b) \in VarintState
      /\ sleb128Byte(t, b) \in Sleb128State
      /\ Encoded(e, b) \in EncodedState
  BY <1>2, ByteTypes, Zenon
<1>6. LebTypeOK'
  <2>1. Append(input.v, b) \in Seq(Octets)
    BY <1>1, <1>2
  <2>2. QED
    BY <1>1, <1>2, <1>5, <2>1 DEF LebInv, LebTypeOK
<1>7. CASE Complete(input.v)
  <2>1. varintByte(u, b) = u /\ sleb128Byte(t, b) = t
    BY <1>7 DEF LebInv, LoopsTogether, varintByte, sleb128Byte
  <2>2. Complete(input'.v) /\ input'.u = u /\ input'.t = t /\ input'.encoded = e
    BY <1>3, <1>4, <1>7, <2>1
  <2>3. LoopsTogether'
    BY <1>2, <1>4, <1>7, <2>2 DEF LebInv, LoopsTogether, VarintState
  <2>4. WordsOf(u, t, e, TRUE) /\ Groups(e, u.read)
    BY <1>7, Zenon DEF LebInv, WordsOf
  <2>5. (WordsOf(input.u, input.t, input.encoded, Complete(input.v)))'
    BY <2>2, <2>4, Zenon DEF WordsOf
  <2>6. (Groups(input.encoded, input.u.read))'
    BY <2>2, <2>4, Zenon
  <2>7. QED
    BY <1>6, <2>3, <2>5, <2>6 DEF LebInv
<1>8. CASE ~Complete(input.v)
  <2>1. /\ u.more /\ t.more /\ u.read = t.read /\ u.read <= Len(input.v) /\ u.read \in Nat
        /\ input'.encoded = Encoded(e, b)
    BY <1>2, <1>3, <1>8 DEF LebInv, LoopsTogether, VarintState
  <2>2. /\ varintByte(u, b).read = u.read + 1 /\ sleb128Byte(t, b).read = t.read + 1
        /\ varintByte(u, b).more = (b >= 128) /\ sleb128Byte(t, b).more = (b >= 128)
    BY <2>1 DEF varintByte, sleb128Byte
  <2>3. LoopsTogether'
    <3>1. Complete(input'.v) <=> b < 128
      BY <1>4, <1>8
    <3>2. b >= 128 <=> ~(b < 128)
      BY <1>2
    <3>3. /\ input'.u.more <=> ~Complete(input'.v)
          /\ input'.t.more <=> ~Complete(input'.v)
      BY <1>3, <2>2, <3>1, <3>2, Zenon
    <3>4. /\ input'.u.read = input'.t.read /\ input'.u.read <= Len(input'.v)
          /\ input'.u.read > 0
      BY <1>3, <1>4, <2>1, <2>2
    <3>5. QED
      BY <3>3, <3>4 DEF LoopsTogether
  <2>4. WordsOf(u, t, e, FALSE) /\ Groups(e, u.read) /\ e.weight > 0
    BY <1>8, Zenon DEF LebInv, WordsOf
  <2>5. WordsOf(varintByte(u, b), sleb128Byte(t, b), Encoded(e, b), b < 128)
    BY <1>2, <2>1, <2>4, ByteWords, Zenon
  <2>6. Groups(Encoded(e, b), u.read + 1)
    BY <1>2, <2>1, <2>4, ByteGroups, Zenon
  <2>7. (WordsOf(input.u, input.t, input.encoded, Complete(input.v)))'
    BY <1>3, <1>4, <1>8, <2>1, <2>5, Zenon DEF WordsOf
  <2>8. (Groups(input.encoded, input.u.read))'
    BY <1>3, <2>1, <2>2, <2>6, Zenon
  <2>9. QED
    BY <1>6, <2>3, <2>7, <2>8 DEF LebInv
<1>9. QED
  BY <1>7, <1>8

(* Both decoders return the word of the number. *)
LEMMA LebInvDecodes ==
  ASSUME LebInv, Complete(input.v)
  PROVE  /\ Number(input.encoded) \in Int
         /\ int(input.u, input.v) = Signed(Number(input.encoded) % Word)
         /\ sleb128(input.t, input.v).s = Signed(Number(input.encoded) % Word)
         /\ ~sleb128(input.t, input.v).err
         /\ sleb128(input.t, input.v).rest = varint(input.u, input.v).rest
<1> DEFINE u == input.u
           t == input.t
           e == input.encoded
<1>1. /\ u \in VarintState /\ t \in Sleb128State /\ e \in EncodedState
      /\ Len(input.v) \in Nat
  BY DEF LebInv, LebTypeOK
<1>2. /\ ~u.more /\ u.read = t.read /\ u.read > 0 /\ u.read <= Len(input.v) /\ u.read \in Nat
  BY <1>1 DEF LebInv, LoopsTogether, VarintState
<1>3. /\ u.weight = e.weight /\ u.c = e.sum % Word /\ t.s = Number(e) % Word
  BY Zenon DEF LebInv, WordsOf
<1>4. /\ Fits(e.weight)
      /\ \E low, unit \in Nat : /\ low < unit /\ e.weight = 128 * unit
                              /\ e.sum = low + e.top * unit
  BY <1>2, Zenon DEF LebInv, Groups
<1>5. e.sum \in Nat /\ e.weight \in Nat /\ e.top \in 0..127
  BY <1>1 DEF EncodedState
<1>6. (IF SignBit(e.sum % Word, e.weight \div 2)
       THEN ((e.sum % Word) + MinusOneShl(e.weight)) % Word ELSE e.sum % Word)
        = Number(e) % Word
  <2>1. (IF SignBit(e.sum % Word, e.weight \div 2)
         THEN ((e.sum % Word) + MinusOneShl(e.weight)) % Word ELSE e.sum % Word)
          = (IF e.top >= 64 THEN e.sum - e.weight ELSE e.sum) % Word
    BY <1>4, <1>5, SignExtends, Zenon
  <2>2. QED
    BY <2>1, Zenon DEF Number
<1>7. int(u, input.v) = Signed(Number(e) % Word)
  BY <1>2, <1>3, <1>6 DEF int, varint
<1>8. sleb128(t, input.v).s = Signed(Number(e) % Word)
  BY <1>3 DEF sleb128
<1>9. Number(e) \in Int
  BY <1>5 DEF Number
<1>10. ~sleb128(t, input.v).err
  <2>1. (IF t.read = 0 THEN 0 ELSE t.read - 1) # Len(input.v)
    BY <1>1, <1>2
  <2>2. QED
    BY <2>1 DEF sleb128
<1>11. sleb128(t, input.v).rest = varint(u, input.v).rest
  <2>1. (IF t.read = 0 THEN 0 ELSE t.read - 1) + 2 = u.read + 1
    BY <1>2
  <2>2. QED
    BY <1>2, <2>1 DEF sleb128, varint
<1>12. QED
  BY <1>7, <1>8, <1>9, <1>10, <1>11

LEMMA LebInvariance == LebSpec => []LebInv
<1>1. LebInv /\ UNCHANGED input => LebInv'
  BY DEF LebInv, LebTypeOK, LoopsTogether
<1>2. QED
  BY LebInitInv, LebNextInv, <1>1, PTL DEF LebSpec

(* int of dwarf/buf.go returns the number encoded, for words of any width  *)
(* and encodings of any length, if the number fits in a word.              *)
THEOREM IntIsDecoded == LebSpec => []IntDecodes
<1>1. LebInv => IntDecodes
  <2> SUFFICES ASSUME LebInv, Complete(input.v),
                      Number(input.encoded) >= -(Word \div 2),
                      Number(input.encoded) < Word \div 2
               PROVE  int(input.u, input.v) = Number(input.encoded)
    BY DEF IntDecodes
  <2>1. /\ Number(input.encoded) \in Int
        /\ int(input.u, input.v) = Signed(Number(input.encoded) % Word)
    BY LebInvDecodes
  <2>2. Signed(Number(input.encoded) % Word) = Number(input.encoded)
    BY <2>1, SignedWord
  <2>3. QED
    BY <2>1, <2>2
<1>2. QED
  BY <1>1, LebInvariance, PTL

(* sleb128 of server/dwarf.go returns what int of dwarf/buf.go returns, on *)
(* every complete encoding, also one that overflows, and reads as many     *)
(* bytes.                                                                  *)
THEOREM DecodersReturnTheSame == LebSpec => []DecodersAgree
<1>1. LebInv => DecodersAgree
  BY LebInvDecodes DEF DecodersAgree
<1>2. QED
  BY <1>1, LebInvariance, PTL

-----------------------------------------------------------------------------
(* The operators on numbers.                                               *)
(*                                                                         *)
(* convertUntyped makes of two operands values of one kind that are the    *)
(* same numbers, rounded to the format in which they meet, if each fits    *)
(* the other's type (Converted); evalBinaryOp's case of that kind then     *)
(* compares, or computes with, those numbers.                              *)

(* A whole fraction compares with an integer as the integer it is. *)
LEMMA WholeCompares ==
  ASSUME NEW x \in Fractions, IsInt(x), NEW b \in Int
  PROVE  /\ IntOf(x) \in Int
         /\ QEq(x, Frac(b)) <=> IntOf(x) = b
         /\ QEq(Frac(b), x) <=> b = IntOf(x)
         /\ QLess(x, Frac(b)) <=> IntOf(x) < b
         /\ QLess(Frac(b), x) <=> b < IntOf(x)
<1>1. PICK p \in Int, q \in Nat \ {0} : x = <<p, q>>
  BY DEF Fractions
<1>2. p % q = 0 /\ IntOf(x) = p \div q
  BY <1>1 DEF IsInt, IntOf
<1>3. PICK a \in Int : a = p \div q
  BY <1>1
<1>4. p = q * a
  <2>1. q \in Nat /\ q > 0
    OBVIOUS
  <2>2. PICK c \in Int, r \in 0..(q - 1) : p % q = r /\ p = q * c + r /\ p \div q = c
    BY <2>1, RemainderParts
  <2>3. r = 0
    BY <1>2, <2>2
  <2>4. QED
    BY <1>3, <2>1, <2>2, <2>3
<1>5. /\ p * 1 = b * q <=> a = b
      /\ b * q = p * 1 <=> b = a
      /\ p * 1 < b * q <=> a < b
      /\ b * q < p * 1 <=> b < a
  BY <1>1, <1>4
<1>6. x # NaN /\ Frac(b) # NaN /\ x[1] = p /\ x[2] = q /\ Frac(b)[1] = b /\ Frac(b)[2] = 1
  BY <1>1 DEF NaN, Frac
<1>7. QED
  BY <1>2, <1>3, <1>5, <1>6 DEF QEq, QLess

(* An integer that fits a type is not changed by the conversion to it. *)
LEMMA WrapKeeps ==
  ASSUME NEW v \in IntValues, NEW x \in Fractions, InRange(x, v)
  PROVE  WrapInto(v, IntOf(x)) = Num(v.k, v.size, Frac(IntOf(x)), Frac(0))
<1> DEFINE n == IntOf(x)
<1>1. PICK w : w = ByteBits * v.size
  OBVIOUS
<1>2. PICK half \in Nat \ {0} : half = 2^(w - 1) /\ 2^w = 2 * half
  BY <1>1, PowersAssumption DEF IntValues
<1>3. n \in (IF v.k = "int" THEN -half..(half - 1) ELSE 0..(2 * half - 1))
  BY <1>1, <1>2 DEF InRange, IntValues
<1>4. CASE v.k = "int"
  <2>1. n \in -half..(half - 1)
    BY <1>3, <1>4
  <2> HIDE DEF n
  <2>2. TwosComp(n, w) = n
    <3>1. CASE n >= 0
      <4>1. n % (2 * half) = n
        BY <2>1, <3>1
      <4>2. QED
        BY <1>2, <2>1, <4>1 DEF TwosComp, Low
    <3>2. CASE n < 0
      <4>1. n % (2 * half) = n + 2 * half
        <5>1. PICK m \in Nat : m = 2 * half /\ m > 0
          BY <1>2
        <5>2. n + m \in 0..(m - 1)
          BY <2>1, <3>2, <5>1
        <5>3. (m * (-1) + (n + m)) % m = n + m
          BY <5>1, <5>2
        <5>4. m * (-1) + (n + m) = n
          BY <5>1, <2>1
        <5>5. QED
          BY <5>1, <5>3, <5>4
      <4>2. n + 2 * half >= half
        BY <2>1
      <4>3. QED
        BY <1>2, <2>1, <4>1, <4>2 DEF TwosComp, Low
    <3>3. QED
      BY <2>1, <3>1, <3>2
  <2>3. QED
    BY <1>1, <1>4, <2>2, Zenon DEF WrapInto, n
<1>5. CASE v.k # "int"
  <2>1. n \in 0..(2 * half - 1)
    BY <1>3, <1>5
  <2> HIDE DEF n
  <2>2. Low(Abs(n), w) = n
    <3>1. Abs(n) = n
      BY <2>1 DEF Abs
    <3>2. n % (2 * half) = n
      BY <2>1
    <3>3. QED
      BY <1>2, <3>1, <3>2, Zenon DEF Low
  <2>3. QED
    BY <1>1, <1>5, <2>2, Zenon DEF WrapInto, n
<1>6. QED
  BY <1>4, <1>5

WholeKinds == Integers2 \cup {"untInt", "untRune"}
FloatKinds == {"float", "untFloat"}
ComplexKinds == {"complex", "untComplex"}

(* The cases of typedBinaryOp that compare numbers of one kind. *)
LEMMA IntegersCompare ==
  ASSUME NEW op \in Comparisons, NEW x, NEW y, NEW a \in Int, NEW b \in Int,
         x.v.k \in WholeKinds, SameKind(x.v, y.v),
         x.v.re = Frac(a), y.v.re = Frac(b)
  PROVE  typedBinaryOp(op, x, y) = Bool(Compare(op, a = b, a < b))
<1>1. IntOf(x.v.re) = a /\ IntOf(y.v.re) = b
  BY DEF IntOf, Frac
<1>2. integerBinary(op, x, y) = Bool(Compare(op, a = b, a < b))
  BY <1>1, Zenon DEF integerBinary
<1>3. x.v.k \in DOMAIN Rank \cup {"int", "uint", "float", "complex", "bool", "String", "untString"}
  BY DEF WholeKinds, Integers2, Rank
<1>4. typedBinaryOp(op, x, y) = integerBinary(op, x, y)
  BY <1>3 DEF typedBinaryOp, WholeKinds, Integers2
<1>5. QED
  BY <1>2, <1>4

LEMMA FloatsCompare ==
  ASSUME NEW op \in Comparisons, NEW x, NEW y,
         x.v.k \in FloatKinds, SameKind(x.v, y.v)
  PROVE  typedBinaryOp(op, x, y) =
           Bool(Compare(op, QEq(x.v.re, y.v.re), QLess(x.v.re, y.v.re)))
<1>1. floatBinary(op, x, y) = Bool(Compare(op, QEq(x.v.re, y.v.re), QLess(x.v.re, y.v.re)))
  BY Zenon DEF floatBinary
<1>2. x.v.k \in DOMAIN Rank \cup {"int", "uint", "float", "complex", "bool", "String", "untString"}
  BY DEF FloatKinds, Rank
<1>3. typedBinaryOp(op, x, y) = floatBinary(op, x, y)
  BY <1>2 DEF typedBinaryOp, FloatKinds, Integers2
<1>4. QED
  BY <1>1, <1>3

LEMMA ComplexesCompare ==
  ASSUME NEW x, NEW y, x.v.k \in ComplexKinds, SameKind(x.v, y.v),
         x.v.im = Frac(0), y.v.im = Frac(0)
  PROVE  typedBinaryOp("==", x, y) = Bool(QEq(x.v.re, y.v.re))
<1>1. QEq(Frac(0), Frac(0))
  BY DEF QEq, Frac, NaN
<1>2. complexBinary("==", x, y) = Bool(QEq(x.v.re, y.v.re) /\ QEq(x.v.im, y.v.im))
  BY Zenon DEF complexBinary
<1>3. (QEq(x.v.re, y.v.re) /\ QEq(x.v.im, y.v.im)) = QEq(x.v.re, y.v.re)
  BY <1>1 DEF QEq
<1>4. x.v.k \in DOMAIN Rank \cup {"int", "uint", "float", "complex", "bool", "String", "untString"}
  BY DEF ComplexKinds, Rank
<1>5. typedBinaryOp("==", x, y) = complexBinary("==", x, y)
  BY <1>4 DEF typedBinaryOp, ComplexKinds, Integers2
<1>6. QED
  BY <1>2, <1>3, <1>5, Zenon

-----------------------------------------------------------------------------
(* The conversions leave typed operands alone, and give untyped ones the   *)
(* type of the other operand.                                              *)
TypedKinds == {"int", "uint", "float", "complex"}

LEMMA TypedIsKept ==
  ASSUME NEW x, NEW y, x.v.k \in TypedKinds
  PROVE  convertUntyped(x, y) = x
  BY DEF convertUntyped, TypedKinds, Rank

LEMMA ConvertsToTyped ==
  ASSUME NEW x, NEW y, x.v.k \in DOMAIN Rank, y.v.k \in TypedKinds, x.v.im = Frac(0),
         y.v.k \in {"float", "complex"} => Round(Frac(0), Format(y.v)) = Frac(0)
  PROVE  /\ y.v.k \in Integers2 /\ IsInt(x.v.re)
              => convertUntyped(x, y) = Result(y.d, WrapInto(y.v, IntOf(x.v.re)))
         /\ y.v.k \in {"float", "complex"}
              => convertUntyped(x, y)
                   = Result(y.d, Num(y.v.k, y.v.size, Round(x.v.re, Format(y.v)), Frac(0)))
<1>1. x.v.im[1] = 0
  BY DEF Frac
<1>2. ASSUME y.v.k \in Integers2, IsInt(x.v.re)
      PROVE  convertUntyped(x, y) = Result(y.d, WrapInto(y.v, IntOf(x.v.re)))
  <2>1. convertNumber(x.v, y.v) = WrapInto(y.v, IntOf(x.v.re))
    BY <1>1, <1>2, Zenon DEF convertNumber
  <2>2. WrapInto(y.v, IntOf(x.v.re)).k = y.v.k
    BY DEF WrapInto, Num
  <2>3. y.v.k \notin DOMAIN Rank
    BY DEF TypedKinds, Rank
  <2>4. QED
    BY <2>1, <2>2, <2>3, Zenon DEF convertUntyped
<1>3. ASSUME y.v.k \in {"float", "complex"}
      PROVE  convertUntyped(x, y) = Result(y.d, Num(y.v.k, y.v.size, Round(x.v.re, Format(y.v)), Frac(0)))
  <2>1. y.v.k \notin Integers2 /\ y.v.k \notin DOMAIN Rank
    BY <1>3 DEF Integers2, Rank
  <2>2. Round(x.v.im, Format(y.v)) = Frac(0)
    BY <1>3, Zenon
  <2>3. convertNumber(x.v, y.v) = Num(y.v.k, y.v.size, Round(x.v.re, Format(y.v)), Frac(0))
    BY <1>1, <1>3, <2>1, <2>2, Zenon DEF convertNumber
  <2>4. Num(y.v.k, y.v.size, Round(x.v.re, Format(y.v)), Frac(0)).k = y.v.k
    BY DEF Num
  <2>5. QED
    BY <2>1, <2>3, <2>4, Zenon DEF convertUntyped
<1>4. QED
  BY <1>2, <1>3

(* An untyped number is raised to the kind of another one. *)
LEMMA ConvertsToUntyped ==
  ASSUME NEW x, NEW y, x.v.k \in DOMAIN Rank, y.v.k \in DOMAIN Rank
  PROVE  /\ convertUntyped(x, y).v.k =
              IF Rank[y.v.k] > Rank[x.v.k] THEN y.v.k ELSE x.v.k
         /\ convertUntyped(x, y).v.re =
              IF Rank[y.v.k] > Rank[x.v.k] /\ y.v.k # "untRune" /\ x.v.k # "untFloat"
              THEN Round(x.v.re, prec) ELSE x.v.re
         /\ convertUntyped(x, y).v.im = x.v.im
<1>1. y.v.k \notin Integers2 \cup {"float", "complex"}
  BY DEF Integers2, Rank
<1> DEFINE raised == IF y.v.k = "untRune" \/ x.v.k = "untFloat" THEN x.v.re ELSE Round(x.v.re, Format(y.v))
<1>2. convertNumber(x.v, y.v) =
        IF Rank[y.v.k] > Rank[x.v.k] THEN Untyped(y.v.k, raised, x.v.im) ELSE x.v
  BY <1>1, Zenon DEF convertNumber
<1>3. convertUntyped(x, y).v = convertNumber(x.v, y.v)
  BY DEF convertUntyped, Result
<1>4. Rank[y.v.k] > Rank[x.v.k] /\ y.v.k # "untRune" => Format(y.v) = prec
  BY DEF Rank, Format
<1>5. CASE Rank[y.v.k] > Rank[x.v.k]
  <2>1. convertUntyped(x, y).v = Untyped(y.v.k, raised, x.v.im)
    BY <1>2, <1>3, <1>5, Zenon
  <2>2. raised = IF y.v.k # "untRune" /\ x.v.k # "untFloat" THEN Round(x.v.re, prec) ELSE x.v.re
    BY <1>4, <1>5, Zenon
  <2> HIDE DEF raised
  <2>3. QED
    BY <1>5, <2>1, <2>2 DEF Untyped
<1>6. CASE ~(Rank[y.v.k] > Rank[x.v.k])
  BY <1>2, <1>3, <1>6, Zenon
<1>7. QED
  BY <1>5, <1>6, Zenon

-----------------------------------------------------------------------------
(* What is known of the fields of an operand. *)
LEMMA OperandFields ==
  ASSUME NEW x, IsOperand(x)
  PROVE  /\ x.v.k \in TypedKinds \/ x.v.k \in DOMAIN Rank
         /\ x.d # "" <=> x.v.k \in TypedKinds
         /\ x.v.k \in Integers2 => x.v \in IntValues /\ InRange(x.v.re, x.v)
         /\ x.v.k \in Integers2 \cup {"untInt", "untRune"} => x.v.re \in Int \X {1}
         /\ x.v.k \in DOMAIN Rank => x.v.re \in Fractions
<1>1. CASE x \in [d : STRING \ {""}, v : IntValues, err : {""}] /\ InRange(x.v.re, x.v)
  BY <1>1 DEF IntValues, TypedKinds, Integers2, Rank
<1>2. CASE x \in [d : STRING \ {""}, v : FloatValues \cup ComplexValues, err : {""}]
  BY <1>2 DEF FloatValues, ComplexValues, TypedKinds, Integers2, Rank
<1>3. CASE x \in [d : {""}, v : UntIntegers, err : {""}]
  <2>1. x.v \in UntIntegers /\ x.d = ""
    BY <1>3
  <2>2. x.v.k \in {"untInt", "untRune"} /\ x.v.re \in Int \X {1}
    BY <2>1 DEF UntIntegers
  <2>3. x.v.re \in Fractions
    BY <2>2 DEF Fractions
  <2>4. QED
    BY <2>1, <2>2, <2>3 DEF TypedKinds, Integers2, Rank
<1>4. CASE x \in [d : {""}, v : UntFloats \cup UntComplexes, err : {""}]
  BY <1>4 DEF UntFloats, UntComplexes, TypedKinds, Integers2, Rank
<1>5. QED
  BY <1>1, <1>2, <1>3, <1>4 DEF IsOperand

LEMMA PrecIsPositive == \E n \in Nat \ {0} : n = prec
  BY DEF prec

(* The numbers of an operand are of its format. *)
LEMMA OperandFormat ==
  ASSUME NEW x, IsOperand(x)
  PROVE  /\ x.v.re \in Int \X Nat
         /\ Format(x.v) \in {0} \cup Formats
         /\ Format(x.v) = 0 <=> x.v.k \in Integers2 \cup {"untInt", "untRune"}
         /\ x.v.k \in {"untFloat", "untComplex"} => Format(x.v) = prec
         /\ In(x.v.re, Format(x.v)) = x.v.re
<1>1. In(x.v.re, Format(x.v)) = x.v.re
  BY DEF IsOperand, Exact
<1>2. \A q \in Int \X {1} : q \in Int \X Nat
  OBVIOUS
<1>3. \A q \in Fractions : q \in Int \X Nat
  BY DEF Fractions
<1>4. CASE x.v.k \in Integers2 \cup {"untInt", "untRune"}
  <2>1. x.v.re \in Int \X Nat
    BY <1>2, <1>4, OperandFields, Zenon
  <2>2. Format(x.v) = 0 /\ x.v.k \notin {"untFloat", "untComplex"}
    BY <1>4 DEF Format, Integers2
  <2>3. QED
    BY <1>1, <1>4, <2>1, <2>2
<1>5. CASE x.v \in FloatValues
  <2>1. x.v.k = "float" /\ x.v.size \in {4, 8} /\ x.v.re \in Int \X Nat
    BY <1>5 DEF FloatValues
  <2>2. Format(x.v) \in {4, 8}
    BY <2>1 DEF Format
  <2>3. QED
    BY <1>1, <2>1, <2>2 DEF Formats, Integers2
<1>6. CASE x.v \in ComplexValues
  <2>1. x.v.k = "complex" /\ x.v.size \in {8, 16} /\ x.v.re \in Int \X Nat
    BY <1>6 DEF ComplexValues
  <2>2. Format(x.v) \in {4, 8}
    BY <2>1 DEF Format
  <2>3. QED
    BY <1>1, <2>1, <2>2 DEF Formats, Integers2
<1>7. CASE x.v.k \in {"untFloat", "untComplex"}
  <2>1. x.v.re \in Int \X Nat
    BY <1>3, <1>7, OperandFields DEF Rank
  <2>2. Format(x.v) = prec
    BY <1>7 DEF Format
  <2>3. QED
    BY <1>1, <1>7, <2>1, <2>2 DEF Formats, Integers2, prec
<1>8. QED
  <2>1. \/ x.v \in IntValues \cup UntIntegers \cup UntFloats \cup UntComplexes
        \/ x.v \in FloatValues \cup ComplexValues
    BY DEF IsOperand
  <2>2. x.v \in IntValues \cup UntIntegers => x.v.k \in Integers2 \cup {"untInt", "untRune"}
    BY DEF IntValues, UntIntegers, Integers2
  <2>3. x.v \in UntFloats \cup UntComplexes => x.v.k \in {"untFloat", "untComplex"}
    BY DEF UntFloats, UntComplexes
  <2>4. QED
    BY <1>4, <1>5, <1>6, <1>7, <2>1, <2>2, <2>3

(* An integer and the fraction that has its value. *)
LEMMA OverOne ==
  ASSUME NEW q \in Int \X {1}
  PROVE  /\ q \in Fractions /\ IsInt(q)
         /\ IntOf(q) \in Int /\ q = Frac(IntOf(q))
<1>1. PICK n \in Int : q = <<n, 1>>
  OBVIOUS
<1>2. n % 1 = 0 /\ n \div 1 = n
  OBVIOUS
<1>3. QED
  BY <1>1, <1>2 DEF Fractions, IsInt, IntOf, Frac

(* Whole numbers, at least one of them an integer, compare as integers. *)
LEMMA IntegersCompareAsNumbers ==
  ASSUME NEW op \in Comparisons, NEW p \in Fractions, NEW q \in Fractions,
         IsInt(p), IsInt(q), p \in Int \X {1} \/ q \in Int \X {1}
  PROVE  /\ IntOf(p) \in Int /\ IntOf(q) \in Int
         /\ Compare(op, IntOf(p) = IntOf(q), IntOf(p) < IntOf(q))
              = Compare(op, QEq(p, q), QLess(p, q))
<1>1. /\ IntOf(p) \in Int /\ IntOf(q) \in Int
      /\ QEq(p, q) <=> IntOf(p) = IntOf(q)
      /\ QLess(p, q) <=> IntOf(p) < IntOf(q)
  <2>1. CASE q \in Int \X {1}
    BY <2>1, OverOne, WholeCompares
  <2>2. CASE p \in Int \X {1}
    BY <2>2, OverOne, WholeCompares
  <2>3. QED
    BY <2>1, <2>2
<1>2. /\ QEq(p, q) = (IntOf(p) = IntOf(q))
      /\ QLess(p, q) = (IntOf(p) < IntOf(q))
  <2>1. QEq(p, q) \in BOOLEAN
    BY DEF QEq
  <2>2. QLess(p, q) \in BOOLEAN
    BY DEF QLess
  <2>3. (IntOf(p) < IntOf(q)) \in BOOLEAN
    BY <1>1
  <2>4. QED
    BY <1>1, <2>1, <2>2, <2>3, Zenon
<1>3. QED
  BY <1>1, <1>2, Zenon

-----------------------------------------------------------------------------
(* The numbers that are compared. *)
Left(x, y) == In(x.v.re, Common(x, y))
Right(x, y) == In(y.v.re, Common(x, y))

(* What the conversions make of two operands that may be compared: two     *)
(* values of one kind that are the numbers to be compared.                 *)
Converted(x, y, x1, y1) ==
  /\ x1.v.k \in WholeKinds \cup FloatKinds \cup ComplexKinds
  /\ SameKind(x1.v, y1.v)
  /\ x1.v.k \in WholeKinds =>
       /\ Left(x, y) = x.v.re /\ Right(x, y) = y.v.re
       /\ x.v.re \in Fractions /\ IsInt(x.v.re) /\ x1.v.re = Frac(IntOf(x.v.re))
       /\ y.v.re \in Fractions /\ IsInt(y.v.re) /\ y1.v.re = Frac(IntOf(y.v.re))
       /\ x.v.re \in Int \X {1} \/ y.v.re \in Int \X {1}
  /\ x1.v.k \in FloatKinds \cup ComplexKinds => x1.v.re = Left(x, y) /\ y1.v.re = Right(x, y)
  /\ x1.v.k \in ComplexKinds => ~Ordered(x, y) /\ x1.v.im = Frac(0) /\ y1.v.im = Frac(0)

LEMMA ConvertedIsCompared ==
  ASSUME NEW op \in Comparisons, NEW x, NEW y, NEW x1, NEW y1,
         Converted(x, y, x1, y1), Ordered(x, y) \/ op = "=="
  PROVE  typedBinaryOp(op, x1, y1) =
           Bool(Compare(op, QEq(Left(x, y), Right(x, y)), QLess(Left(x, y), Right(x, y))))
<1>1. CASE x1.v.k \in WholeKinds
  <2>1. /\ IntOf(x.v.re) \in Int /\ IntOf(y.v.re) \in Int
        /\ Compare(op, IntOf(x.v.re) = IntOf(y.v.re), IntOf(x.v.re) < IntOf(y.v.re))
             = Compare(op, QEq(x.v.re, y.v.re), QLess(x.v.re, y.v.re))
    BY <1>1, IntegersCompareAsNumbers, Zenon DEF Converted
  <2>2. SameKind(x1.v, y1.v) /\ x1.v.re = Frac(IntOf(x.v.re)) /\ y1.v.re = Frac(IntOf(y.v.re))
    BY <1>1, Zenon DEF Converted
  <2>3. typedBinaryOp(op, x1, y1)
          = Bool(Compare(op, IntOf(x.v.re) = IntOf(y.v.re), IntOf(x.v.re) < IntOf(y.v.re)))
    <3>1. PICK a \in Int, b \in Int : a = IntOf(x.v.re) /\ b = IntOf(y.v.re)
      BY <2>1, Zenon
    <3>2. x1.v.re = Frac(a) /\ y1.v.re = Frac(b)
      BY <2>2, <3>1, Zenon
    <3>3. typedBinaryOp(op, x1, y1) = Bool(Compare(op, a = b, a < b))
      BY <1>1, <2>2, <3>2, IntegersCompare
    <3>4. QED
      BY <3>1, <3>3, Zenon
  <2>4. Left(x, y) = x.v.re /\ Right(x, y) = y.v.re
    BY <1>1, Zenon DEF Converted
  <2>5. QED
    BY <2>1, <2>3, <2>4, Zenon
<1>2. CASE x1.v.k \in FloatKinds
  <2>1. SameKind(x1.v, y1.v) /\ x1.v.re = Left(x, y) /\ y1.v.re = Right(x, y)
    BY <1>2 DEF Converted
  <2>2. typedBinaryOp(op, x1, y1) =
          Bool(Compare(op, QEq(x1.v.re, y1.v.re), QLess(x1.v.re, y1.v.re)))
    BY <1>2, <2>1, FloatsCompare, Zenon
  <2>3. QED
    BY <2>1, <2>2, Zenon
<1>3. CASE x1.v.k \in ComplexKinds
  <2>1. op = "==" /\ Compare(op, QEq(Left(x, y), Right(x, y)), QLess(Left(x, y), Right(x, y))) = QEq(Left(x, y), Right(x, y))
    BY <1>3 DEF Converted, Compare
  <2>2. typedBinaryOp("==", x1, y1) = Bool(QEq(Left(x, y), Right(x, y)))
    <3>1. /\ SameKind(x1.v, y1.v) /\ x1.v.re = Left(x, y) /\ y1.v.re = Right(x, y)
          /\ x1.v.im = Frac(0) /\ y1.v.im = Frac(0)
      BY <1>3 DEF Converted
    <3>2. typedBinaryOp("==", x1, y1) = Bool(QEq(x1.v.re, y1.v.re))
      BY <1>3, <3>1, ComplexesCompare, Zenon
    <3>3. QED
      BY <3>1, <3>2, Zenon
  <2>3. QED
    BY <2>1, <2>2, Zenon
<1>4. QED
  BY <1>1, <1>2, <1>3 DEF Converted

(* Both operands are typed. *)
LEMMA TypedOperands ==
  ASSUME NEW x, NEW y, IsOperand(x), IsOperand(y), x.d # "", y.d # "", 
         SameKind(x.v, y.v), Real(x, y)
  PROVE  Converted(x, y, x, y)
<1>1. x.v.k \in TypedKinds /\ y.v.k = x.v.k
  BY OperandFields DEF SameKind
<1>2. ASSUME x.v.k \in WholeKinds
      PROVE  /\ x.v.re \in Int \X {1} /\ y.v.re \in Int \X {1}
             /\ x.v.re \in Fractions /\ IsInt(x.v.re) /\ x.v.re = Frac(IntOf(x.v.re))
             /\ y.v.re \in Fractions /\ IsInt(y.v.re) /\ y.v.re = Frac(IntOf(y.v.re))
  <2>1. x.v.re \in Int \X {1} /\ y.v.re \in Int \X {1}
    BY <1>1, <1>2, OperandFields, Zenon DEF WholeKinds
  <2>2. QED
    BY <2>1, OverOne, Zenon
<1>3. x.v.k \in WholeKinds \cup FloatKinds \cup ComplexKinds
  BY <1>1 DEF TypedKinds, WholeKinds, FloatKinds, ComplexKinds, Integers2
<1>4. x.v.k \in ComplexKinds => ~Ordered(x, y) /\ x.v.im = Frac(0) /\ y.v.im = Frac(0)
  BY DEF ComplexKinds, Ordered, Real
<1>5. Left(x, y) = x.v.re /\ Right(x, y) = y.v.re
  <2>1. Common(x, y) = Format(x.v)
    BY DEF Common
  <2>2. Format(y.v) = Format(x.v)
    BY <1>1, Zenon DEF SameKind, Format, Integers2
  <2>3. QED
    BY <2>1, <2>2, OperandFormat, Zenon DEF Left, Right
<1>6. QED
  BY <1>2, <1>3, <1>4, <1>5, Zenon DEF Converted

(* An untyped operand x is converted to the type of y. *)
LEMMA ToTyped ==
  ASSUME NEW x, NEW y, IsOperand(x), IsOperand(y), x.d = "", y.d # "",
         Fit(x, y), Real(x, y)
  PROVE  LET x1 == convertUntyped(x, y)
         IN /\ x1.v.k \in TypedKinds
            /\ Converted(x, y, x1, y) /\ Converted(y, x, y, x1)
<1> DEFINE x1 == convertUntyped(x, y)
<1> DEFINE f == Format(y.v)
<1>1. y.v.k \in TypedKinds /\ x.v.k \in DOMAIN Rank /\ x.v.im = Frac(0) /\ y.v.im = Frac(0)
  BY OperandFields, Zenon DEF Real
<1>2. /\ f \in {0} \cup Formats /\ In(y.v.re, f) = y.v.re
      /\ f = 0 <=> y.v.k \in Integers2 \cup {"untInt", "untRune"}
  BY OperandFormat
<1>3. /\ Left(x, y) = In(x.v.re, f) /\ Right(x, y) = y.v.re
      /\ Left(y, x) = y.v.re /\ Right(y, x) = In(x.v.re, f)
  <2>1. Common(x, y) = f /\ Common(y, x) = f
    BY Zenon DEF Common
  <2>2. QED
    BY <1>2, <2>1, Zenon DEF Left, Right
<1>4. y.v.k \in {"float", "complex"} => f # 0 /\ Round(Frac(0), f) = Frac(0)
  BY <1>2, RoundAssumption DEF Integers2
<1> HIDE DEF f
<1>5. CASE y.v.k \in Integers2
  <2>1. y.v \in IntValues /\ y.v.re \in Int \X {1} /\ x.v.re \in Fractions
    BY <1>1, <1>5, OperandFields
  <2>2. y.v.re \in Fractions /\ IsInt(y.v.re) /\ y.v.re = Frac(IntOf(y.v.re))
    BY <2>1, OverOne, Zenon
  <2>3. InRange(x.v.re, y.v)
    BY Zenon DEF Fit
  <2>4. IsInt(x.v.re)
    BY <1>5, <2>3 DEF InRange, Integers2
  <2>5. x1 = Result(y.d, Num(y.v.k, y.v.size, Frac(IntOf(x.v.re)), Frac(0)))
    <3>1. y.v.k \notin {"float", "complex"}
      BY <1>5 DEF Integers2
    <3>2. QED
      BY <1>1, <1>5, <2>1, <2>3, <2>4, <3>1, ConvertsToTyped, WrapKeeps, Zenon
  <2> HIDE DEF x1
  <2>6. x1.v.k = y.v.k /\ x1.v.size = y.v.size /\ x1.v.re = Frac(IntOf(x.v.re))
    BY <2>5 DEF Result, Num
  <2>7. /\ y.v.k \in WholeKinds
        /\ y.v.k \notin FloatKinds \cup ComplexKinds
        /\ SameKind(x1.v, y.v) /\ SameKind(y.v, x1.v)
    BY <1>5, <2>6 DEF Integers2, WholeKinds, FloatKinds, ComplexKinds, SameKind
  <2>8. Left(x, y) = x.v.re /\ Right(y, x) = x.v.re
    BY <1>2, <1>3, <1>5 DEF In
  <2>9. QED
    BY <1>1, <1>3, <2>1, <2>2, <2>4, <2>6, <2>7, <2>8, Zenon DEF Converted, x1
<1>6. CASE y.v.k \in {"float", "complex"}
  <2>1. x1 = Result(y.d, Num(y.v.k, y.v.size, Round(x.v.re, f), Frac(0)))
    BY <1>1, <1>4, <1>6, ConvertsToTyped, Zenon DEF f
  <2> HIDE DEF x1
  <2>2. x1.v.k = y.v.k /\ x1.v.size = y.v.size /\ x1.v.re = Round(x.v.re, f) /\ x1.v.im = Frac(0)
    BY <2>1 DEF Result, Num
  <2>3. /\ y.v.k \in FloatKinds \cup ComplexKinds
        /\ y.v.k \notin WholeKinds
        /\ SameKind(x1.v, y.v) /\ SameKind(y.v, x1.v)
    BY <1>6, <2>2 DEF Integers2, WholeKinds, FloatKinds, ComplexKinds, SameKind
  <2>4. y.v.k \in ComplexKinds => ~Ordered(x, y) /\ ~Ordered(y, x)
    BY DEF Ordered, ComplexKinds
  <2>5. x1.v.re = Left(x, y) /\ x1.v.re = Right(y, x)
    BY <1>3, <1>4, <1>6, <2>2 DEF In
  <2>6. QED
    BY <1>1, <1>3, <2>2, <2>3, <2>4, <2>5, Zenon DEF Converted, x1
<1>7. QED
  BY <1>1, <1>5, <1>6 DEF TypedKinds, Integers2

(* Of two whole untyped numbers, none is made an untyped integer. *)
LEMMA IntegersNotRaised ==
  ASSUME NEW j \in {"untInt", "untRune"}, NEW l \in {"untInt", "untRune"}
  PROVE  ~(Rank[l] > Rank[j] /\ l # "untRune")
<1>1. DOMAIN Rank = {"untInt", "untRune", "untFloat", "untComplex"}
  BY DEF Rank
<1>2. Rank["untInt"] \in Int /\ Rank["untRune"] \in Int /\ Rank["untInt"] <= Rank["untRune"]
  BY DEF Rank
<1>3. \A m, n \in Int : m <= n => ~(m > n) /\ ~(m > m)
  OBVIOUS
<1>4. CASE l = "untInt" /\ j = "untRune"
  BY <1>2, <1>3, <1>4
<1>5. CASE l = "untInt" /\ j = "untInt"
  BY <1>2, <1>3, <1>5
<1>6. QED
  BY <1>4, <1>5, Zenon

(* Both operands are untyped: both are raised to the higher of their kinds. *)
LEMMA RaisedKinds ==
  ASSUME NEW j \in DOMAIN Rank, NEW l \in DOMAIN Rank, NEW k, NEW m,
         k = IF Rank[l] > Rank[j] THEN l ELSE j,
         m = IF Rank[k] > Rank[l] THEN k ELSE l
  PROVE  /\ k \in {"untInt", "untRune", "untFloat", "untComplex"}
         /\ m = k
         /\ k \in {"untInt", "untRune"} => j \in {"untInt", "untRune"} /\ l \in {"untInt", "untRune"}
         /\ k = "untComplex" => j = "untComplex" \/ l = "untComplex"
         /\ k \in {"untFloat", "untComplex"} =>
              /\ ~({j, l} \subseteq {"untInt", "untRune"})
              /\ Rank[l] > Rank[j] /\ l # "untRune" /\ j # "untFloat" <=> j \in {"untInt", "untRune"}
              /\ Rank[k] > Rank[l] /\ k # "untRune" /\ l # "untFloat" <=> l \in {"untInt", "untRune"}
<1>1. /\ DOMAIN Rank = {"untInt", "untRune", "untFloat", "untComplex"}
      /\ Rank["untInt"] = 1 /\ Rank["untRune"] = 2 /\ Rank["untFloat"] = 3 /\ Rank["untComplex"] = 4
  BY DEF Rank
<1>2. CASE l = j
  BY <1>1, <1>2
<1>3. CASE l # j
  <2>1. Rank[l] \in Int /\ Rank[j] \in Int /\ Rank[l] # Rank[j]
    BY <1>1, <1>3
  <2>2. CASE Rank[l] > Rank[j]
    <3>1. k = l /\ m = l
      BY <2>2, <2>1
    <3>2. QED
      BY <1>1, <2>2, <3>1
  <2>3. CASE Rank[j] > Rank[l]
    <3>1. k = j /\ m = j
      BY <2>3, <2>1
    <3>2. QED
      BY <1>1, <2>3, <3>1
  <2>4. QED
    BY <2>1, <2>2, <2>3
<1>4. QED
  BY <1>2, <1>3

LEMMA UntypedOperands ==
  ASSUME NEW x, NEW y, IsOperand(x), IsOperand(y), x.d = "", y.d = "", Real(x, y)
  PROVE  LET x1 == convertUntyped(x, y)
         IN Converted(x, y, x1, convertUntyped(y, x1))
<1> DEFINE x1 == convertUntyped(x, y)
           y1 == convertUntyped(y, x1)
<1>1. x.v.k \in DOMAIN Rank /\ y.v.k \in DOMAIN Rank /\ x.v.im = Frac(0) /\ y.v.im = Frac(0)
  BY OperandFields, Zenon DEF Real
<1>2. /\ x1.v.k = IF Rank[y.v.k] > Rank[x.v.k] THEN y.v.k ELSE x.v.k
      /\ x1.v.re = IF Rank[y.v.k] > Rank[x.v.k] /\ y.v.k # "untRune" /\ x.v.k # "untFloat"
                   THEN Round(x.v.re, prec) ELSE x.v.re
      /\ x1.v.im = x.v.im
  BY <1>1, ConvertsToUntyped, Zenon
<1>3. x1.v.k \in DOMAIN Rank
  BY <1>1, <1>2, Zenon
<1>4. /\ y1.v.k = IF Rank[x1.v.k] > Rank[y.v.k] THEN x1.v.k ELSE y.v.k
      /\ y1.v.re = IF Rank[x1.v.k] > Rank[y.v.k] /\ x1.v.k # "untRune" /\ y.v.k # "untFloat"
                   THEN Round(y.v.re, prec) ELSE y.v.re
      /\ y1.v.im = y.v.im
  BY <1>1, <1>3, ConvertsToUntyped, Zenon
<1> HIDE DEF x1, y1
<1> DEFINE UntWhole == {"untInt", "untRune"}
<1>5. /\ x1.v.k \in {"untInt", "untRune", "untFloat", "untComplex"}
      /\ y1.v.k = x1.v.k
      /\ x1.v.k \in UntWhole => x.v.k \in UntWhole /\ y.v.k \in UntWhole
      /\ x1.v.k = "untComplex" => x.v.k = "untComplex" \/ y.v.k = "untComplex"
      /\ x1.v.k \in {"untFloat", "untComplex"} =>
           /\ ~({x.v.k, y.v.k} \subseteq UntWhole)
           /\ x1.v.re = IF x.v.k \in UntWhole THEN Round(x.v.re, prec) ELSE x.v.re
           /\ y1.v.re = IF y.v.k \in UntWhole THEN Round(y.v.re, prec) ELSE y.v.re
  <2>1. PICK j, l, k, m : j = x.v.k /\ l = y.v.k /\ k = x1.v.k /\ m = y1.v.k
    BY Zenon
  <2>2. /\ j \in DOMAIN Rank /\ l \in DOMAIN Rank
        /\ k = IF Rank[l] > Rank[j] THEN l ELSE j
        /\ m = IF Rank[k] > Rank[l] THEN k ELSE l
    BY <1>1, <1>2, <1>4, <2>1, Zenon
  <2>3. /\ k \in {"untInt", "untRune", "untFloat", "untComplex"}
        /\ m = k
        /\ k \in UntWhole => j \in UntWhole /\ l \in UntWhole
        /\ k = "untComplex" => j = "untComplex" \/ l = "untComplex"
        /\ k \in {"untFloat", "untComplex"} =>
             /\ ~({j, l} \subseteq UntWhole)
             /\ Rank[l] > Rank[j] /\ l # "untRune" /\ j # "untFloat" <=> j \in UntWhole
             /\ Rank[k] > Rank[l] /\ k # "untRune" /\ l # "untFloat" <=> l \in UntWhole
    BY <2>2, RaisedKinds
  <2> HIDE DEF UntWhole
  <2>4. /\ x1.v.re = IF Rank[l] > Rank[j] /\ l # "untRune" /\ j # "untFloat"
                     THEN Round(x.v.re, prec) ELSE x.v.re
        /\ y1.v.re = IF Rank[k] > Rank[l] /\ k # "untRune" /\ l # "untFloat"
                     THEN Round(y.v.re, prec) ELSE y.v.re
    BY <1>2, <1>4, <2>1, Zenon
  <2>5. QED
    BY <2>1, <2>3, <2>4, Zenon
<1>6. /\ x1.v.k \in WholeKinds \cup FloatKinds \cup ComplexKinds
      /\ SameKind(x1.v, y1.v)
      /\ x1.v.k \in ComplexKinds => ~Ordered(x, y)
      /\ x1.v.k \in WholeKinds => x1.v.k \in UntWhole
      /\ x1.v.k \in FloatKinds \cup ComplexKinds => x1.v.k \in {"untFloat", "untComplex"}
  BY <1>5 DEF WholeKinds, FloatKinds, ComplexKinds, SameKind, Integers2, Ordered
<1>7. ASSUME x1.v.k \in WholeKinds
      PROVE  /\ x.v.re \in Int \X {1} /\ y.v.re \in Int \X {1}
             /\ x.v.re \in Fractions /\ IsInt(x.v.re) /\ x1.v.re = Frac(IntOf(x.v.re))
             /\ y.v.re \in Fractions /\ IsInt(y.v.re) /\ y1.v.re = Frac(IntOf(y.v.re))
             /\ Left(x, y) = x.v.re /\ Right(x, y) = y.v.re
  <2>1. x1.v.k \in UntWhole /\ x.v.k \in UntWhole /\ y.v.k \in UntWhole
    BY <1>5, <1>6, <1>7
  <2>2. x.v.re \in Int \X {1} /\ y.v.re \in Int \X {1}
    BY <2>1, OperandFields
  <2>3. x1.v.re = x.v.re /\ y1.v.re = y.v.re
    <3>1. \A j, l \in UntWhole : ~(Rank[l] > Rank[j] /\ l # "untRune")
      BY IntegersNotRaised, Zenon
    <3>2. QED
      BY <1>2, <1>4, <2>1, <3>1, Zenon
  <2>4. Common(x, y) = 0
    BY <2>1 DEF Common
  <2>5. QED
    BY <2>2, <2>3, <2>4, OverOne DEF Left, Right, In
<1>8. ASSUME x1.v.k \in FloatKinds \cup ComplexKinds
      PROVE  x1.v.re = Left(x, y) /\ y1.v.re = Right(x, y)
  <2>1. Common(x, y) = prec
    <3>1. ~({x.v.k, y.v.k} \subseteq UntWhole)
      BY <1>5, <1>6, <1>8
    <3>2. QED
      BY <3>1 DEF Common
  <2>2. Left(x, y) = Round(x.v.re, prec) /\ Right(x, y) = Round(y.v.re, prec)
    <3>1. prec # 0
      BY PrecIsPositive
    <3>2. QED
      BY <2>1, <3>1, Zenon DEF Left, Right, In
  <2>3. /\ x.v.k \notin UntWhole => Round(x.v.re, prec) = x.v.re
        /\ y.v.k \notin UntWhole => Round(y.v.re, prec) = y.v.re
    <3>1. \A z : IsOperand(z) /\ z.v.k \in DOMAIN Rank /\ z.v.k \notin UntWhole
                 => Round(z.v.re, prec) = z.v.re
      <4> SUFFICES ASSUME NEW z, IsOperand(z), z.v.k \in DOMAIN Rank, z.v.k \notin UntWhole
                   PROVE  Round(z.v.re, prec) = z.v.re
        BY Zenon
      <4>1. z.v.k \in {"untFloat", "untComplex"}
        BY DEF Rank
      <4>2. Format(z.v) = prec /\ In(z.v.re, Format(z.v)) = z.v.re
        BY <4>1, OperandFormat, Zenon
      <4>3. prec # 0
        BY PrecIsPositive
      <4>4. QED
        BY <4>2, <4>3, Zenon DEF In
    <3>2. QED
      BY <1>1, <3>1, Zenon
  <2>4. QED
    BY <1>5, <1>6, <1>8, <2>2, <2>3, Zenon
<1>9. QED
  BY <1>1, <1>2, <1>4, <1>6, <1>7, <1>8, Zenon DEF Converted, x1, y1

(* The comparison of any two operands that may be compared. *)
MayCompare(op, x, y) ==
  /\ x.d # "" /\ y.d # "" => SameKind(x.v, y.v)
  /\ Fit(x, y) /\ Real(x, y)
  /\ Ordered(x, y) \/ op = "=="

LEMMA ConvertedCompares ==
  ASSUME NEW op \in Comparisons, NEW x, NEW y, IsOperand(x), IsOperand(y), MayCompare(op, x, y)
  PROVE  convertedBinaryOp(op, x, y) =
           Bool(Compare(op, QEq(Left(x, y), Right(x, y)), QLess(Left(x, y), Right(x, y))))
<1> DEFINE x1 == convertUntyped(x, y)
           y1 == convertUntyped(y, x1)
<1>1. convertedBinaryOp(op, x, y) = typedBinaryOp(op, x1, y1)
  BY Zenon DEF convertedBinaryOp
<1>2. Fit(x, y) /\ Fit(y, x) /\ Real(x, y) /\ Real(y, x)
  BY Zenon DEF MayCompare, Fit, Real
<1>3. Converted(x, y, x1, y1)
  <2>1. CASE x.d # "" /\ y.d # ""
    <3>1. x1 = x /\ y1 = y
      BY <2>1, OperandFields, TypedIsKept, Zenon
    <3>2. Converted(x, y, x, y)
      BY <2>1, <1>2, TypedOperands, Zenon DEF MayCompare
    <3>3. QED
      BY <3>1, <3>2, Zenon
  <2>2. CASE x.d = "" /\ y.d # ""
    <3>1. Converted(x, y, x1, y)
      BY <2>2, <1>2, ToTyped, Zenon
    <3>2. y1 = y
      BY <2>2, OperandFields, TypedIsKept, Zenon
    <3>3. QED
      BY <3>1, <3>2, Zenon
  <2>3. CASE x.d # "" /\ y.d = ""
    <3>1. Converted(x, y, x, convertUntyped(y, x))
      BY <2>3, <1>2, ToTyped, Zenon
    <3>2. x1 = x
      BY <2>3, OperandFields, TypedIsKept, Zenon
    <3>3. QED
      BY <3>1, <3>2, Zenon
  <2>4. CASE x.d = "" /\ y.d = ""
    BY <2>4, <1>2, UntypedOperands, Zenon
  <2>5. QED
    BY <2>1, <2>2, <2>3, <2>4, Zenon
<1> HIDE DEF x1, y1
<1>4. Ordered(x, y) \/ op = "=="
  BY Zenon DEF MayCompare
<1>5. typedBinaryOp(op, x1, y1) =
        Bool(Compare(op, QEq(Left(x, y), Right(x, y)), QLess(Left(x, y), Right(x, y))))
  BY <1>3, <1>4, ConvertedIsCompared
<1>6. QED
  BY <1>1, <1>5, Zenon

(* Typed operands of two types. *)
LEMMA TypesMismatch ==
  ASSUME NEW op, NEW x, NEW y, IsOperand(x), IsOperand(y), x.d # "", y.d # "", ~SameKind(x.v, y.v)
  PROVE  convertedBinaryOp(op, x, y) = Err("type mismatch")
<1>1. x.v.k \in TypedKinds /\ y.v.k \in TypedKinds
  BY OperandFields, Zenon
<1>2. convertUntyped(x, y) = x /\ convertUntyped(y, x) = y
  BY <1>1, TypedIsKept, Zenon
<1>3. convertedBinaryOp(op, x, y) = typedBinaryOp(op, x, y)
  BY <1>2, Zenon DEF convertedBinaryOp
<1>4. x.v.k \in DOMAIN Rank \cup {"int", "uint", "float", "complex", "bool", "String", "untString"}
  BY <1>1 DEF TypedKinds
<1>5. typedBinaryOp(op, x, y) = Err("type mismatch")
  BY <1>4, Zenon DEF typedBinaryOp
<1>6. QED
  BY <1>3, <1>5, Zenon

(* The format is the same from both sides. *)
LEMMA CommonSwaps ==
  ASSUME NEW x, NEW y, x.d # "" /\ y.d # "" => SameKind(x.v, y.v)
  PROVE  Left(y, x) = Right(x, y) /\ Right(y, x) = Left(x, y)
<1>1. Common(y, x) = Common(x, y)
  <2>1. CASE x.d # "" /\ y.d # ""
    <3>1. Format(x.v) = Format(y.v)
      BY <2>1, Zenon DEF Format, SameKind, Integers2
    <3>2. QED
      BY <2>1, <3>1, Zenon DEF Common
  <2>2. CASE ~(x.d # "" /\ y.d # "")
    <3>1. {x.v.k, y.v.k} = {y.v.k, x.v.k}
      OBVIOUS
    <3>2. QED
      BY <2>2, <3>1, Zenon DEF Common
  <2>3. QED
    BY <2>1, <2>2
<1>2. QED
  BY <1>1, Zenon DEF Left, Right

(* Numbers that differ after rounding differ, in the same order. *)
LEMMA OrderIsExact ==
  ASSUME NEW p \in OperandNumbers, NEW q \in OperandNumbers, NEW f \in {0} \cup Formats,
         p \in Int \X Nat, q \in Int \X Nat
  PROVE  /\ QLess(In(p, f), In(q, f)) => QLess(p, q)
         /\ ~QEq(In(p, f), In(q, f)) => ~QEq(p, q)
<1>1. CASE f = 0
  BY <1>1, Zenon DEF In
<1>2. CASE f # 0
  <2> DEFINE rp == Round(p, f)
             rq == Round(q, f)
  <2>1. In(p, f) = rp /\ In(q, f) = rq
    BY <1>2 DEF In
  <2>2. /\ rp \in Int \X Nat /\ rq \in Int \X Nat
        /\ p[2] = 0 => rp = p
        /\ q[2] = 0 => rq = q
        /\ QLeq(p, q) => QLeq(rp, rq)
        /\ QLeq(q, p) => QLeq(rq, rp)
    BY <1>2, RoundAssumption
  <2> HIDE DEF rp, rq
  <2>3. \A s, t \in Int \X Nat :
          /\ s # NaN /\ t # NaN /\ ~QLess(s, t) => QLeq(t, s)
          /\ QLess(s, t) => ~QLeq(t, s)
          /\ QEq(s, t) => QLeq(s, t) /\ QLeq(t, s)
          /\ QLeq(s, t) /\ QLeq(t, s) => QEq(s, t)
    <3> SUFFICES ASSUME NEW s \in Int \X Nat, NEW t \in Int \X Nat
                 PROVE  /\ s # NaN /\ t # NaN /\ ~QLess(s, t) => QLeq(t, s)
                        /\ QLess(s, t) => ~QLeq(t, s)
                        /\ QEq(s, t) => QLeq(s, t) /\ QLeq(t, s)
                        /\ QLeq(s, t) /\ QLeq(t, s) => QEq(s, t)
      OBVIOUS
    <3>1. PICK m \in Int, n \in Nat : s = <<m, n>>
      OBVIOUS
    <3>2. PICK k \in Int, l \in Nat : t = <<k, l>>
      OBVIOUS
    <3>3. PICK u \in Int, v \in Int : u = m * l /\ v = k * n
      BY <3>1, <3>2
    <3>4. s[1] = m /\ s[2] = n /\ t[1] = k /\ t[2] = l
      BY <3>1, <3>2
    <3>5. /\ QLess(s, t) <=> s # NaN /\ t # NaN /\ IF n = 0 /\ l = 0 THEN m < k ELSE u < v
          /\ QLess(t, s) <=> s # NaN /\ t # NaN /\ IF n = 0 /\ l = 0 THEN k < m ELSE v < u
          /\ QEq(s, t) <=> s # NaN /\ t # NaN /\ IF n = 0 /\ l = 0 THEN s = t ELSE u = v
          /\ QEq(t, s) <=> s # NaN /\ t # NaN /\ IF n = 0 /\ l = 0 THEN s = t ELSE u = v
      BY <3>3, <3>4, Zenon DEF QLess, QEq
    <3>6. n = 0 /\ l = 0 => (s = t <=> m = k)
      BY <3>1, <3>2
    <3>7. QED
      BY <3>5, <3>6 DEF QLeq
  <2>4. p = NaN => rp = NaN
    BY <2>2 DEF NaN
  <2>5. q = NaN => rq = NaN
    BY <2>2 DEF NaN
  <2>6. QLess(rp, rq) => QLess(p, q)
    <3> SUFFICES ASSUME QLess(rp, rq), ~QLess(p, q) PROVE FALSE
      BY Zenon DEF QLess
    <3>1. rp # NaN /\ rq # NaN
      BY Zenon DEF QLess
    <3>2. QLeq(q, p)
      BY <2>3, <2>4, <2>5, <3>1, Zenon
    <3>3. QED
      BY <2>2, <2>3, <3>2, Zenon
  <2>7. QEq(p, q) => QEq(rp, rq)
    BY <2>2, <2>3, Zenon
  <2>8. QED
    BY <2>1, <2>6, <2>7, Zenon
<1>3. QED
  BY <1>1, <1>2

(* Every comparison says what it ought to say. *)
LEMMA OperandsCompare ==
  ASSUME NEW op \in {"==", "!=", "<", "<=", ">"}, NEW x \in NumberOperands, NEW y \in NumberOperands
  PROVE  Compares(op, x, y, evalBinaryOp(op, x, y))
<1>1. IsOperand(x) /\ IsOperand(y)
  BY OperandsAssumption
<1>2. CASE x.d # "" /\ y.d # "" /\ ~SameKind(x.v, y.v)
  <2>1. ~SameKind(y.v, x.v)
    BY <1>2 DEF SameKind
  <2>2. \A o : convertedBinaryOp(o, x, y) = Err("type mismatch") /\ convertedBinaryOp(o, y, x) = Err("type mismatch")
    BY <1>1, <1>2, <2>1, TypesMismatch, Zenon
  <2>3. Err("type mismatch").err = "type mismatch" /\ Err("type mismatch").v.k # "bool"
    BY DEF Err, Nil
  <2>4. evalBinaryOp(op, x, y) = Err("type mismatch")
    <3>1. CASE op = "!="
      BY <2>2, <2>3, <3>1 DEF evalBinaryOp
    <3>2. CASE op = ">"
      BY <2>2, <3>2 DEF evalBinaryOp
    <3>3. CASE op \in {"==", "<", "<="}
      BY <2>2, <3>3 DEF evalBinaryOp
    <3>4. QED
      BY <3>1, <3>2, <3>3
  <2>5. QED
    BY <1>2, <2>3, <2>4, Zenon DEF Compares
<1>3. CASE ~(x.d # "" /\ y.d # "" /\ ~SameKind(x.v, y.v))
  <2> SUFFICES ASSUME Fit(x, y), Real(x, y), Ordered(x, y) \/ op \in {"==", "!="}
               PROVE  /\ evalBinaryOp(op, x, y).err = ""
                      /\ evalBinaryOp(op, x, y).v.b = Holds(op, Left(x, y), Right(x, y))
    <3>1. /\ x.v.re \in OperandNumbers /\ y.v.re \in OperandNumbers
          /\ x.v.re \in Int \X Nat /\ y.v.re \in Int \X Nat
          /\ Common(x, y) \in {0} \cup Formats
      <4>1. x.v.re \in OperandNumbers /\ y.v.re \in OperandNumbers
        BY DEF OperandNumbers
      <4>2. Format(x.v) \in {0} \cup Formats /\ Format(y.v) \in {0} \cup Formats
        BY <1>1, OperandFormat, Zenon
      <4>3. Common(x, y) \in {0} \cup Formats
        BY <4>2 DEF Common, Formats
      <4>4. QED
        BY <1>1, <4>1, <4>3, OperandFormat, Zenon
    <3>2. op = "<" /\ Holds(op, Left(x, y), Right(x, y)) => Holds(op, x.v.re, y.v.re)
      BY <3>1, OrderIsExact DEF Left, Right, Holds
    <3>3. op = ">" /\ Holds(op, Left(x, y), Right(x, y)) => Holds(op, x.v.re, y.v.re)
      BY <3>1, OrderIsExact DEF Left, Right, Holds
    <3>4. op = "!=" /\ Holds(op, Left(x, y), Right(x, y)) => Holds(op, x.v.re, y.v.re)
      BY <3>1, OrderIsExact DEF Left, Right, Holds
    <3>5. op \in {"<", ">", "!="} /\ Holds(op, Left(x, y), Right(x, y)) => Holds(op, x.v.re, y.v.re)
      BY <3>2, <3>3, <3>4
    <3>6. QED
      BY <1>3, <3>5, Zenon DEF Compares, Left, Right
  <2> DEFINE a == Left(x, y)
             b == Right(x, y)
  <2>1. \A c : Bool(c).err = "" /\ Bool(c).v.k = "bool" /\ Bool(c).v.b = c
    BY DEF Bool, Result
  <2>2. CASE op \in {"==", "<", "<="}
    <3>1. MayCompare(op, x, y)
      BY <1>3, <2>2 DEF MayCompare
    <3>2. convertedBinaryOp(op, x, y) = Bool(Compare(op, QEq(a, b), QLess(a, b)))
      BY <1>1, <2>2, <3>1, ConvertedCompares, Zenon DEF Comparisons
    <3>3. evalBinaryOp(op, x, y) = convertedBinaryOp(op, x, y)
      BY <2>2 DEF evalBinaryOp
    <3>4. Compare(op, QEq(a, b), QLess(a, b)) = Holds(op, a, b)
      BY <2>2 DEF Compare, Holds, QLeq
    <3>5. QED
      BY <2>1, <3>2, <3>3, <3>4, Zenon
  <2>3. CASE op = "!="
    <3>1. MayCompare("==", x, y)
      BY <1>3 DEF MayCompare
    <3>2. convertedBinaryOp("==", x, y) = Bool(Compare("==", QEq(a, b), QLess(a, b)))
      BY <1>1, <3>1, ConvertedCompares DEF Comparisons
    <3>3. Compare("==", QEq(a, b), QLess(a, b)) = QEq(a, b)
      BY DEF Compare
    <3>4. evalBinaryOp(op, x, y) = Bool(~QEq(a, b))
      <4> DEFINE eq == convertedBinaryOp("==", x, y)
      <4>1. eq.v.k = "bool" /\ eq.v.b = QEq(a, b)
        BY <3>2, <3>3, <2>1, Zenon
      <4>2. evalBinaryOp(op, x, y) = IF eq.v.k = "bool" THEN Bool(~eq.v.b) ELSE eq
        BY <2>3, Zenon DEF evalBinaryOp
      <4>3. QED
        BY <4>1, <4>2, Zenon
    <3>5. Holds(op, a, b) = ~QEq(a, b)
      BY <2>3, Zenon DEF Holds
    <3>6. QED
      BY <2>1, <3>4, <3>5, Zenon
  <2>4. CASE op = ">"
    <3>1. Ordered(x, y)
      BY <2>4
    <3>2. MayCompare("<", y, x)
      BY <1>3, <3>1 DEF MayCompare, Fit, Real, Ordered, SameKind
    <3>3. convertedBinaryOp("<", y, x) = Bool(Compare("<", QEq(b, a), QLess(b, a)))
      <4>1. convertedBinaryOp("<", y, x)
              = Bool(Compare("<", QEq(Left(y, x), Right(y, x)), QLess(Left(y, x), Right(y, x))))
        BY <1>1, <3>2, ConvertedCompares DEF Comparisons
      <4>2. Left(y, x) = b /\ Right(y, x) = a
        BY <1>3, CommonSwaps, Zenon
      <4>3. QED
        BY <4>1, <4>2, Zenon
    <3>4. Compare("<", QEq(b, a), QLess(b, a)) = QLess(b, a)
      BY DEF Compare
    <3>5. evalBinaryOp(op, x, y) = convertedBinaryOp("<", y, x)
      BY <2>4 DEF evalBinaryOp
    <3>6. Holds(op, a, b) = QLess(b, a)
      BY <2>4 DEF Holds
    <3>7. QED
      BY <2>1, <3>3, <3>4, <3>5, <3>6, Zenon
  <2>5. QED
    BY <2>2, <2>3, <2>4
<1>4. QED
  BY <1>2, <1>3

(* The operands are numbers. *)
OperandsInv ==
  \E x \in NumberOperands, y \in {<< >>} \cup {<<z>> : z \in NumberOperands} :
    input = [kind |-> "operands", x |-> x, y |-> y]

LEMMA OperandsAreNumbers == OperandsSpec => []OperandsInv
<1>1. OperandsInit => OperandsInv
  BY DEF OperandsInit, OperandsInv
<1>2. OperandsInv /\ [OperandsNext]_input => OperandsInv'
  <2> SUFFICES ASSUME OperandsInv, [OperandsNext]_input PROVE OperandsInv'
    OBVIOUS
  <2>1. PICK x \in NumberOperands, y \in {<< >>} \cup {<<z>> : z \in NumberOperands} :
          input = [kind |-> "operands", x |-> x, y |-> y]
    BY DEF OperandsInv
  <2>2. CASE OperandsNext
    <3>1. PICK z \in NumberOperands : input' = [input EXCEPT !.y = <<z>>]
      BY <2>2 DEF OperandsNext
    <3>2. input' = [kind |-> "operands", x |-> x, y |-> <<z>>]
      BY <2>1, <3>1
    <3>3. QED
      BY <3>2 DEF OperandsInv
  <2>3. CASE input' = input
    BY <2>1, <2>3 DEF OperandsInv
  <2>4. QED
    BY <2>2, <2>3
<1>3. QED
  BY <1>1, <1>2, PTL DEF OperandsSpec

LEMMA TwoOperands ==
  ASSUME OperandsInv, input.y # << >>
  PROVE  \E x \in NumberOperands, y \in NumberOperands :
           IsOperand(x) /\ IsOperand(y) /\ input.x = x /\ input.y[1] = y
<1>1. PICK x \in NumberOperands, y \in NumberOperands : input.x = x /\ input.y[1] = y
  BY DEF OperandsInv
<1>2. IsOperand(x) /\ IsOperand(y)
  BY OperandsAssumption
<1>3. QED
  BY <1>1, <1>2, Zenon

(* ==, !=, <, <= and > of evalBinaryOp compare two numbers of any kinds    *)
(* that fit each other's type, for operands and bytes of any size and any  *)
(* monotone rounding: as the numbers they are in the format in which they  *)
(* meet, and never as different numbers if they are equal, or in the wrong *)
(* order.  Typed operands of two types are refused.                        *)
THEOREM ComparisonsAreRight == OperandsSpec => []ComparisonsCompare
<1>1. OperandsInv => ComparisonsCompare
  <2> SUFFICES ASSUME OperandsInv, input.y # << >>,
                      NEW op \in {"==", "!=", "<", "<=", ">"}
               PROVE  Compares(op, input.x, input.y[1], evalBinaryOp(op, input.x, input.y[1]))
    BY Zenon DEF ComparisonsCompare
  <2>1. PICK x \in NumberOperands, y \in NumberOperands :
          IsOperand(x) /\ IsOperand(y) /\ input.x = x /\ input.y[1] = y
    BY TwoOperands
  <2>2. Compares(op, x, y, evalBinaryOp(op, x, y))
    BY OperandsCompare, Zenon
  <2>3. QED
    BY <2>1, <2>2, Zenon
<1>2. QED
  BY <1>1, OperandsAreNumbers, PTL

-----------------------------------------------------------------------------
(* The folding of constants.                                               *)
(*                                                                         *)
(* An operator on two integers of a type computes what the operator on     *)
(* constants does, and cuts it to the type: nothing, if it fits.  That the *)
(* bitwise operators give integers is an induction over their bits, by the *)
(* least number of bits for which it fails.                                *)

(* The sum of the first n terms of a function exists, and is an integer. *)
IsSum(f, g, n) == f = [i \in 0..n |-> IF i = 0 THEN 0 ELSE f[i - 1] + g[i - 1]]

LEMMA SumExists ==
  ASSUME NEW g, NEW n \in Nat
  PROVE  \E f : IsSum(f, g, n)
<1> DEFINE none == {m \in Nat : ~\E f : IsSum(f, g, m)}
           less == OpToRel(<, Nat)
<1> SUFFICES ASSUME none # {} PROVE FALSE
  OBVIOUS
<1>1. IsWellFoundedOn(less, Nat)
  BY NatLessThanWellFounded
<1>2. \A x, y \in none : x < y => <<x, y>> \in less
  BY DEF OpToRel
<1>3. none \subseteq Nat
  OBVIOUS
<1> HIDE DEF less, none
<1>4. PICK m \in none : \A x \in none : ~(<<x, m>> \in less)
  BY <1>1, <1>3, WFMin
<1>5. m \in Nat /\ ~\E f : IsSum(f, g, m)
  BY DEF none
<1>6. CASE m = 0
  <2>1. IsSum([i \in 0..0 |-> 0], g, 0)
    BY DEF IsSum
  <2>2. QED
    BY <1>5, <1>6, <2>1
<1>7. CASE m # 0
  <2>1. m - 1 \in Nat /\ m - 1 < m
    BY <1>5, <1>7
  <2>2. m - 1 \notin none
    BY <1>2, <1>4, <2>1
  <2>3. PICK f : IsSum(f, g, m - 1)
    BY <2>1, <2>2 DEF none
  <2> DEFINE h == [i \in 0..m |-> IF i = m THEN f[m - 1] + g[m - 1] ELSE f[i]]
  <2>4. \A i \in 0..(m - 1) : f[i] = IF i = 0 THEN 0 ELSE f[i - 1] + g[i - 1]
    BY <2>3 DEF IsSum
  <2>5. \A i \in 0..m : h[i] = IF i = 0 THEN 0 ELSE h[i - 1] + g[i - 1]
    BY <1>5, <1>7, <2>4
  <2>6. IsSum(h, g, m)
    BY <2>5 DEF IsSum
  <2>7. QED
    BY <1>5, <2>6
<1>8. QED
  BY <1>6, <1>7

LEMMA SumIsInteger ==
  ASSUME NEW n \in Nat, NEW g, \A i \in 0..(n - 1) : g[i] \in Int, NEW f, IsSum(f, g, n)
  PROVE  f[n] \in Int
<1> DEFINE none == {m \in Nat : m <= n /\ f[m] \notin Int}
           less == OpToRel(<, Nat)
<1> SUFFICES ASSUME none # {} PROVE FALSE
  OBVIOUS
<1>1. IsWellFoundedOn(less, Nat)
  BY NatLessThanWellFounded
<1>2. \A x, y \in none : x < y => <<x, y>> \in less
  BY DEF OpToRel
<1>3. none \subseteq Nat
  OBVIOUS
<1> HIDE DEF less, none
<1>4. PICK m \in none : \A x \in none : ~(<<x, m>> \in less)
  BY <1>1, <1>3, WFMin
<1>5. m \in 0..n /\ f[m] \notin Int
  BY DEF none
<1>6. f[m] = IF m = 0 THEN 0 ELSE f[m - 1] + g[m - 1]
  BY <1>5 DEF IsSum
<1>7. m # 0 /\ m - 1 \in Nat /\ m - 1 < m /\ m - 1 <= n /\ m - 1 \in 0..(n - 1)
  BY <1>5, <1>6
<1>8. m - 1 \notin none
  BY <1>2, <1>4, <1>7
<1>9. f[m - 1] \in Int /\ g[m - 1] \in Int
  BY <1>7, <1>8 DEF none
<1>10. QED
  BY <1>5, <1>6, <1>7, <1>9

(* Bitwise operators give integers. *)
LEMMA BitwiseIsInteger ==
  ASSUME NEW op \in [0..1 -> [0..1 -> Int]], NEW a \in Int, NEW b \in Int
  PROVE  Bitwise2(op, a, b) \in Int
<1> DEFINE g == [i \in 0..BigBits |-> 2^i * op[Bit(a, i)][Bit(b, i)]]
           sum == CHOOSE f : f = [i \in 0..BigBits |->
                    IF i = 0 THEN 0 ELSE f[i - 1] + 2^(i - 1) * op[Bit(a, i - 1)][Bit(b, i - 1)]]
<1>1. Bitwise2(op, a, b) = TwosComp(sum[BigBits], BigBits)
  BY Zenon DEF Bitwise2
<1>2. \A i \in 0..BigBits : 2^i \in Nat \ {0} /\ Bit(a, i) \in 0..1 /\ Bit(b, i) \in 0..1
  <2> SUFFICES ASSUME NEW i \in 0..BigBits
               PROVE  2^i \in Nat \ {0} /\ Bit(a, i) \in 0..1 /\ Bit(b, i) \in 0..1
    OBVIOUS
  <2>1. PICK p \in Nat \ {0} : p = 2^i
    BY BigBitsAssumption
  <2>2. (a \div p) \in Int /\ (b \div p) \in Int
    OBVIOUS
  <2>3. (a \div p) % 2 \in 0..1 /\ (b \div p) % 2 \in 0..1
    BY <2>2
  <2>4. QED
    BY <2>1, <2>3 DEF Bit
<1>3. \A i \in 0..BigBits : g[i] \in Int
  <2> SUFFICES ASSUME NEW i \in 0..BigBits PROVE g[i] \in Int
    OBVIOUS
  <2>1. PICK p \in Int : p = 2^i
    BY <1>2
  <2>2. PICK c \in Int : c = op[Bit(a, i)][Bit(b, i)]
    BY <1>2
  <2>3. g[i] = p * c
    BY <2>1, <2>2
  <2>4. p * c \in Int
    OBVIOUS
  <2>5. QED
    BY <2>3, <2>4, Zenon
<1>4. \A f : (f = [i \in 0..BigBits |->
                    IF i = 0 THEN 0 ELSE f[i - 1] + 2^(i - 1) * op[Bit(a, i - 1)][Bit(b, i - 1)]])
              <=> IsSum(f, g, BigBits)
  <2>1. \A i \in 0..BigBits : i # 0 => g[i - 1] = 2^(i - 1) * op[Bit(a, i - 1)][Bit(b, i - 1)]
    <3> SUFFICES ASSUME NEW i \in 0..BigBits, i # 0
                 PROVE  g[i - 1] = 2^(i - 1) * op[Bit(a, i - 1)][Bit(b, i - 1)]
      OBVIOUS
    <3>1. i - 1 \in 0..BigBits
      BY BigBitsAssumption
    <3>2. QED
      BY <3>1, Zenon
  <2> HIDE DEF g
  <2> SUFFICES ASSUME NEW f
               PROVE  [i \in 0..BigBits |->
                         IF i = 0 THEN 0 ELSE f[i - 1] + 2^(i - 1) * op[Bit(a, i - 1)][Bit(b, i - 1)]]
                        = [i \in 0..BigBits |-> IF i = 0 THEN 0 ELSE f[i - 1] + g[i - 1]]
    BY Zenon DEF IsSum
  <2>2. QED
    BY <2>1, Zenon
<1>5. BigBits \in Nat
  BY BigBitsAssumption
<1> HIDE DEF g
<1>6. PICK f : IsSum(f, g, BigBits)
  BY <1>5, SumExists, Zenon
<1>7. IsSum(sum, g, BigBits)
  BY <1>4, <1>6, Zenon
<1> HIDE DEF sum
<1>8. PICK s \in Int : s = sum[BigBits]
  <2>1. \A i \in 0..(BigBits - 1) : g[i] \in Int
    BY <1>3, <1>5
  <2>2. QED
    BY <1>5, <1>7, <2>1, SumIsInteger
<1>9. TwosComp(s, BigBits) \in Int
  <2>1. PICK p \in Nat \ {0} : p = 2^BigBits
    BY <1>2, <1>5
  <2>2. s % p \in Int
    OBVIOUS
  <2>3. QED
    BY <2>1, <2>2 DEF TwosComp, Low
<1>10. QED
  BY <1>1, <1>8, <1>9, Zenon

LEMMA BitwiseOpsAreIntegers ==
  ASSUME NEW a \in Int, NEW b \in Int
  PROVE  Or(a, b) \in Int /\ And(a, b) \in Int /\ Xor(a, b) \in Int /\ AndNot(a, b) \in Int
<1>1. /\ [p \in 0..1 |-> [q \in 0..1 |-> IF p + q > 0 THEN 1 ELSE 0]] \in [0..1 -> [0..1 -> Int]]
      /\ [p \in 0..1 |-> [q \in 0..1 |-> p * q]] \in [0..1 -> [0..1 -> Int]]
      /\ [p \in 0..1 |-> [q \in 0..1 |-> (p + q) % 2]] \in [0..1 -> [0..1 -> Int]]
      /\ [p \in 0..1 |-> [q \in 0..1 |-> p * (1 - q)]] \in [0..1 -> [0..1 -> Int]]
  OBVIOUS
<1>2. QED
  BY <1>1, BitwiseIsInteger, Zenon DEF Or, And, Xor, AndNot

(* Division of integers, and Euclid's remainder of a number that is not    *)
(* negative.                                                               *)
LEMMA QuotientIsInteger ==
  ASSUME NEW a \in Int, NEW b \in Int, b # 0
  PROVE  Quo(a, b) \in Int /\ (a >= 0 => Mod(a, b) = Rem(a, b)) /\ Mod(a, b) \in Int /\ Rem(a, b) \in Int
<1>1. PICK m \in Nat : m = Abs(b) /\ m > 0
  BY DEF Abs
<1>2. PICK e \in Nat : e = Abs(a)
  BY DEF Abs
<1>3. PICK c \in Int, r \in 0..(m - 1) : e % m = r /\ e = m * c + r /\ e \div m = c
  <2>1. e \in Int
    OBVIOUS
  <2>2. QED
    BY <1>1, <2>1, RemainderParts, Zenon
<1>4. PICK s \in Int, t \in Int : s = Sign(a) /\ t = Sign(b)
  BY DEF Sign
<1>5. Quo(a, b) = s * t * c
  BY <1>1, <1>2, <1>3, <1>4 DEF Quo
<1>6. s * t * c \in Int
  OBVIOUS
<1>7. PICK k \in Int : k = s * t * c
  BY <1>6
<1>8. Rem(a, b) = a - b * k
  BY <1>5, <1>7 DEF Rem
<1>9. Mod(a, b) = a % m /\ a % m \in Int
  BY <1>1 DEF Mod
<1>10. ASSUME a >= 0 PROVE a % m = a - b * k
  <2>1. e = a /\ a % m = r /\ a = m * c + r
    BY <1>2, <1>3, <1>10 DEF Abs
  <2>2. CASE a = 0
    <3>1. s = 0
      BY <1>4, <2>2 DEF Sign
    <3>2. k = 0
      BY <1>7, <3>1
    <3>3. a % m = 0
      BY <1>1, <2>2
    <3>4. QED
      BY <2>2, <3>2, <3>3
  <2>3. CASE a # 0 /\ b > 0
    <3>1. s = 1 /\ t = 1 /\ m = b
      BY <1>1, <1>4, <1>10, <2>3 DEF Sign, Abs
    <3>2. k = c
      BY <1>7, <3>1
    <3>3. QED
      BY <2>1, <3>1, <3>2
  <2>4. CASE a # 0 /\ b < 0
    <3>1. s = 1 /\ t = -1 /\ m = -b
      BY <1>1, <1>4, <1>10, <2>4 DEF Sign, Abs
    <3>2. k = -c
      BY <1>7, <3>1
    <3>3. b * k = m * c
      BY <3>1, <3>2
    <3>4. QED
      BY <2>1, <3>3
  <2>5. QED
    BY <2>2, <2>3, <2>4
<1>11. QED
  <2>1. a - b * k \in Int
    OBVIOUS
  <2>2. QED
    BY <1>5, <1>6, <1>8, <1>9, <1>10, <2>1, Zenon

(* The result of an integer operator, typed and untyped, before it is cut  *)
(* to a width.                                                             *)
TypedResult(op, a, b) == IF op = "%" THEN Rem(a, b) ELSE IntegerOp(op, a, b)
FoldedResult(op, a, b) == IF op = "%" THEN Mod(a, b) ELSE IntegerOp(op, a, b)

LEMMA ResultsAreIntegers ==
  ASSUME NEW op \in IntegerOps, NEW a \in Int, NEW b \in Int,
         op \in {"/", "%"} => b # 0, op = "%" => a >= 0
  PROVE  FoldedResult(op, a, b) \in Int /\ TypedResult(op, a, b) = FoldedResult(op, a, b)
<1>1. CASE op = "%"
  BY <1>1, QuotientIsInteger DEF FoldedResult, TypedResult
<1>2. CASE op = "/"
  BY <1>2, QuotientIsInteger DEF FoldedResult, TypedResult, IntegerOp
<1>3. CASE op \in {"+", "-", "*"}
  <2>1. a + b \in Int /\ a - b \in Int /\ a * b \in Int
    OBVIOUS
  <2>2. IntegerOp(op, a, b) \in {a + b, a - b, a * b}
    BY <1>3 DEF IntegerOp
  <2>3. QED
    BY <1>3, <2>1, <2>2 DEF FoldedResult, TypedResult
<1>4. CASE op \in {"|", "^", "&", "&^"}
  <2>1. IntegerOp(op, a, b) \in {Or(a, b), Xor(a, b), And(a, b), AndNot(a, b)}
    BY <1>4 DEF IntegerOp
  <2>2. IntegerOp(op, a, b) \in Int
    BY <2>1, BitwiseOpsAreIntegers
  <2>3. QED
    BY <1>4, <2>2 DEF FoldedResult, TypedResult
<1>5. QED
  BY <1>1, <1>2, <1>3, <1>4 DEF IntegerOps

(* An operator on integers of one kind. *)
LEMMA IntegersCompute ==
  ASSUME NEW op \in IntegerOps, NEW x, NEW y, NEW a \in Int, NEW b \in Int,
         x.v.k \in WholeKinds, SameKind(x.v, y.v),
         x.v.re = Frac(a), y.v.re = Frac(b)
  PROVE  typedBinaryOp(op, x, y) =
           IF op \in {"/", "%"} /\ b = 0 THEN Err("integer divide by zero")
           ELSE IF x.v.k \in Integers2 THEN Result(x.d, Wrapped(x.v, TypedResult(op, a, b)))
           ELSE Result("", Untyped(x.v.k, Frac(FoldedResult(op, a, b)), Frac(0)))
<1>1. IntOf(x.v.re) = a /\ IntOf(y.v.re) = b
  BY DEF IntOf, Frac
<1>2. op \notin Comparisons
  BY DEF Comparisons, IntegerOps
<1>3. typedBinaryOp(op, x, y) = integerBinary(op, x, y)
  <2>1. x.v.k \in DOMAIN Rank \cup {"int", "uint", "float", "complex", "bool", "String", "untString"}
    BY DEF WholeKinds, Integers2, Rank
  <2>2. QED
    BY <2>1 DEF typedBinaryOp, WholeKinds, Integers2
<1>4. QED
  BY <1>1, <1>2, <1>3, Zenon
     DEF integerBinary, typedInteger, untInteger, TypedResult, FoldedResult

(* A result that fits the type is not cut. *)
LEMMA WrappedKeeps ==
  ASSUME NEW v \in IntValues, NEW n \in Int, InRange(Frac(n), v)
  PROVE  /\ WrapInto(v, n) = Num(v.k, v.size, Frac(n), Frac(0))
         /\ Wrapped(v, n) = Num(v.k, v.size, Frac(n), Frac(0))
<1>1. Frac(n) \in Fractions /\ IntOf(Frac(n)) = n
  BY DEF Frac, Fractions, IntOf
<1>2. WrapInto(v, n) = Num(v.k, v.size, Frac(n), Frac(0))
  BY <1>1, WrapKeeps, Zenon
<1>3. CASE v.k = "int"
  BY <1>2, <1>3, Zenon DEF WrapInto, Wrapped
<1>4. CASE v.k # "int"
  <2>1. v.k \in {"int", "uint"}
    BY DEF IntValues
  <2>2. PICK m : m = 2^(ByteBits * v.size) - 1
    OBVIOUS
  <2>3. n \in 0..m
    BY <1>1, <1>4, <2>1, <2>2 DEF InRange
  <2>4. 2^(ByteBits * v.size) \in Nat
    BY PowersAssumption DEF IntValues
  <2>5. Abs(n) = n
    BY <2>2, <2>3, <2>4 DEF Abs
  <2>6. QED
    BY <1>2, <1>4, <2>5, Zenon DEF WrapInto, Wrapped
<1>5. QED
  BY <1>2, <1>3, <1>4

(* An untyped integer that fits a type, converted to it. *)
LEMMA TypedInteger ==
  ASSUME NEW v \in IntValues, NEW n \in Int, NEW x, x.v.k = "untInt",
         x.v.re = Frac(n), x.v.im = Frac(0), InRange(Frac(n), v)
  PROVE  convertUntyped(x, Result("T", v)) = Result("T", Num(v.k, v.size, Frac(n), Frac(0)))
<1> DEFINE y == Result("T", v)
<1>1. y.v = v /\ y.d = "T"
  BY DEF Result
<1>2. v.k \in Integers2 /\ v.k \in TypedKinds /\ x.v.k \in DOMAIN Rank
  BY DEF IntValues, Integers2, TypedKinds, Rank
<1>3. IsInt(x.v.re) /\ IntOf(x.v.re) = n
  BY DEF IsInt, IntOf, Frac
<1> HIDE DEF y
<1>4. convertUntyped(x, y) = Result(y.d, WrapInto(y.v, IntOf(x.v.re)))
  <2>1. v.k \notin {"float", "complex"}
    BY <1>2 DEF Integers2
  <2>2. QED
    BY <1>1, <1>2, <1>3, <2>1, ConvertsToTyped, Zenon
<1>5. WrapInto(v, n) = Num(v.k, v.size, Frac(n), Frac(0))
  BY WrappedKeeps, Zenon
<1>6. QED
  BY <1>1, <1>3, <1>4, <1>5, Zenon DEF y

(* An operator that is no comparison is applied to the converted operands. *)
LEMMA IntegerOpIsApplied ==
  ASSUME NEW op \in IntegerOps, NEW x, NEW y,
         convertUntyped(x, y) = x, convertUntyped(y, x) = y
  PROVE  evalBinaryOp(op, x, y) = typedBinaryOp(op, x, y)
<1>1. op \notin {"!=", ">", ">="}
  BY DEF IntegerOps
<1>2. evalBinaryOp(op, x, y) = convertedBinaryOp(op, x, y)
  BY <1>1 DEF evalBinaryOp
<1>3. QED
  BY <1>2, Zenon DEF convertedBinaryOp

(* Untyped and typed arithmetic agree. *)
LEMMA OperandsFold ==
  ASSUME NEW op \in IntegerOps, NEW v \in IntValues, NEW x, NEW y,
         IsOperand(x), IsOperand(y), x.v.k = "untInt", y.v.k = "untInt",
         InRange(x.v.re, v), InRange(y.v.re, v), op = "%" => x.v.re[1] >= 0
  PROVE  Agree(evalBinaryOp(op, x, y), evalBinaryOp(op, AsTyped(x, v), AsTyped(y, v)), v)
<1>1. PICK folded, typed : /\ folded = evalBinaryOp(op, x, y)
                           /\ typed = evalBinaryOp(op, AsTyped(x, v), AsTyped(y, v))
  BY Zenon
<1>2. x \in [d : {""}, v : UntIntegers, err : {""}] /\ y \in [d : {""}, v : UntIntegers, err : {""}]
  BY DEF IsOperand, IntValues, FloatValues, ComplexValues, UntFloats, UntComplexes, UntIntegers
<1>3. PICK a \in Int, b \in Int : x.v.re = Frac(a) /\ y.v.re = Frac(b)
  <2>1. x.v.re \in Int \X {1} /\ y.v.re \in Int \X {1}
    BY <1>2 DEF UntIntegers
  <2>2. QED
    BY <2>1, OverOne, Zenon
<1>4. x.v.im = Frac(0) /\ y.v.im = Frac(0)
  BY <1>2 DEF UntIntegers, Zero, Frac
<1>5. PICK tx, ty : /\ tx = Result("T", Num(v.k, v.size, Frac(a), Frac(0)))
                    /\ ty = Result("T", Num(v.k, v.size, Frac(b), Frac(0)))
  OBVIOUS
<1>6. AsTyped(x, v) = tx /\ AsTyped(y, v) = ty
  BY <1>3, <1>4, <1>5, TypedInteger, Zenon DEF AsTyped
<1>7. /\ tx.v.k = v.k /\ tx.v.size = v.size /\ tx.v.re = Frac(a) /\ tx.d = "T"
      /\ ty.v.k = v.k /\ ty.v.size = v.size /\ ty.v.re = Frac(b)
  BY <1>5 DEF Result, Num
<1>8. v.k \in Integers2 /\ v.k \in TypedKinds /\ v.k \in WholeKinds
  BY DEF IntValues, Integers2, TypedKinds, WholeKinds
<1>9. SameKind(tx.v, ty.v) /\ SameKind(x.v, y.v)
  BY <1>7 DEF SameKind, Integers2
<1>10. typed = IF op \in {"/", "%"} /\ b = 0 THEN Err("integer divide by zero")
              ELSE Result("T", Wrapped(tx.v, TypedResult(op, a, b)))
  <2>1. convertUntyped(tx, ty) = tx /\ convertUntyped(ty, tx) = ty
    BY <1>7, <1>8, TypedIsKept, Zenon
  <2>2. typed = typedBinaryOp(op, tx, ty)
    BY <1>1, <1>6, <2>1, IntegerOpIsApplied, Zenon
  <2>3. QED
    <3>1. tx.v.k \in WholeKinds /\ tx.v.k \in Integers2
      BY <1>7, <1>8, Zenon
    <3>2. typedBinaryOp(op, tx, ty) =
            IF op \in {"/", "%"} /\ b = 0 THEN Err("integer divide by zero")
            ELSE IF tx.v.k \in Integers2 THEN Result(tx.d, Wrapped(tx.v, TypedResult(op, a, b)))
            ELSE Result("", Untyped(tx.v.k, Frac(FoldedResult(op, a, b)), Frac(0)))
      <4>1. SameKind(tx.v, ty.v) /\ tx.v.re = Frac(a) /\ ty.v.re = Frac(b)
        BY <1>7, <1>9, Zenon
      <4>2. QED
        BY ONLY <3>1, <4>1, op \in IntegerOps, a \in Int, b \in Int, IntegersCompute, Zenon
    <3>3. QED
      BY <1>7, <2>2, <3>1, <3>2, Zenon
<1>11. folded = IF op \in {"/", "%"} /\ b = 0 THEN Err("integer divide by zero")
               ELSE Result("", Untyped("untInt", Frac(FoldedResult(op, a, b)), Frac(0)))
  <2>1. convertUntyped(x, y) = x /\ convertUntyped(y, x) = y
    <3>1. convertNumber(x.v, y.v) = x.v /\ convertNumber(y.v, x.v) = y.v
      BY DEF convertNumber, Integers2, Rank
    <3>2. convertUntyped(x, y) = Result("", x.v) /\ convertUntyped(y, x) = Result("", y.v)
      BY <3>1 DEF convertUntyped, Rank
    <3>3. Result("", x.v) = x /\ Result("", y.v) = y
      BY <1>2 DEF Result
    <3>4. QED
      BY <3>2, <3>3, Zenon
  <2>2. folded = typedBinaryOp(op, x, y)
    BY <1>1, <2>1, IntegerOpIsApplied, Zenon
  <2>3. x.v.k \in WholeKinds /\ x.v.k \notin Integers2
    BY DEF WholeKinds, Integers2
  <2>4. QED
    <3>1. typedBinaryOp(op, x, y) =
            IF op \in {"/", "%"} /\ b = 0 THEN Err("integer divide by zero")
            ELSE IF x.v.k \in Integers2 THEN Result(x.d, Wrapped(x.v, TypedResult(op, a, b)))
            ELSE Result("", Untyped(x.v.k, Frac(FoldedResult(op, a, b)), Frac(0)))
      BY <1>3, <1>9, <2>3, IntegersCompute
    <3>2. QED
      BY <2>2, <2>3, <3>1, Zenon
<1>12. ASSUME op \in {"/", "%"} /\ b = 0
       PROVE  folded.err = typed.err /\ folded.err # ""
  <2>1. folded = Err("integer divide by zero") /\ typed = Err("integer divide by zero")
    BY <1>10, <1>11, <1>12, Zenon
  <2>2. Err("integer divide by zero").err # ""
    BY DEF Err
  <2>3. QED
    BY <2>1, <2>2, Zenon
<1>13. ASSUME ~(op \in {"/", "%"} /\ b = 0)
       PROVE  /\ folded.err = typed.err
              /\ InRange(folded.v.re, v) => typed = convertUntyped(folded, Result("T", v))
  <2>1. x.v.re[1] = a
    BY <1>3 DEF Frac
  <2>2. PICK n \in Int : n = FoldedResult(op, a, b) /\ n = TypedResult(op, a, b)
    BY <1>13, <2>1, ResultsAreIntegers
  <2>3. folded = Result("", Untyped("untInt", Frac(n), Frac(0))) /\ typed = Result("T", Wrapped(tx.v, n))
    BY <1>10, <1>11, <1>13, <2>2, Zenon
  <2>4. /\ folded.err = "" /\ folded.v.k = "untInt" /\ folded.v.re = Frac(n) /\ folded.v.im = Frac(0)
        /\ typed.err = ""
    <3> DEFINE u == Untyped("untInt", Frac(n), Frac(0))
    <3>1. /\ Result("", u).err = "" /\ Result("", u).v.k = "untInt"
          /\ Result("", u).v.re = Frac(n) /\ Result("", u).v.im = Frac(0)
          /\ Result("T", Wrapped(tx.v, n)).err = ""
      BY DEF Result, Untyped
    <3>2. QED
      BY <2>3, <3>1, Zenon
  <2>5. ASSUME InRange(Frac(n), v)
        PROVE  typed = convertUntyped(folded, Result("T", v))
    <3>1. convertUntyped(folded, Result("T", v)) = Result("T", Num(v.k, v.size, Frac(n), Frac(0)))
      BY <2>4, <2>5, TypedInteger, Zenon
    <3>2. Wrapped(tx.v, n) = Wrapped(v, n)
      BY <1>7, Zenon DEF Wrapped
    <3>3. Wrapped(v, n) = Num(v.k, v.size, Frac(n), Frac(0))
      BY <2>5, WrappedKeeps, Zenon
    <3>4. QED
      BY <2>3, <3>1, <3>2, <3>3, Zenon
  <2>6. QED
    BY <2>4, <2>5, Zenon
<1>14. Agree(folded, typed, v)
  BY <1>12, <1>13, Zenon DEF Agree, AsTyped
<1>15. QED
  BY <1>1, <1>14, Zenon

(* evalBinaryOp folds untyped integers into what it computes for integers  *)
(* of a type, for integers of any size that fit the type.                  *)
THEOREM FoldingIsRight == OperandsSpec => []FoldingAgrees
<1>1. OperandsInv => FoldingAgrees
  <2> DEFINE types == {Num("int", 2, Frac(0), Frac(0)), Num("uint", 2, Frac(0), Frac(0))}
  <2> SUFFICES ASSUME OperandsInv, input.y # << >>,
                      input.x.v.k = "untInt", input.y[1].v.k = "untInt",
                      NEW op \in IntegerOps, NEW v \in types,
                      InRange(input.x.v.re, v), InRange(input.y[1].v.re, v),
                      op = "%" => input.x.v.re[1] >= 0
               PROVE  Agree(evalBinaryOp(op, input.x, input.y[1]),
                            evalBinaryOp(op, AsTyped(input.x, v), AsTyped(input.y[1], v)), v)
    BY Zenon DEF FoldingAgrees
  <2>1. PICK x \in NumberOperands, y \in NumberOperands :
          IsOperand(x) /\ IsOperand(y) /\ input.x = x /\ input.y[1] = y
    BY TwoOperands
  <2>2. v \in IntValues
    BY DEF IntValues, Num, Frac, Zero, Sizes
  <2>3. /\ x.v.k = "untInt" /\ y.v.k = "untInt" /\ InRange(x.v.re, v) /\ InRange(y.v.re, v)
        /\ op = "%" => x.v.re[1] >= 0
    BY <2>1, Zenon
  <2>4. Agree(evalBinaryOp(op, x, y), evalBinaryOp(op, AsTyped(x, v), AsTyped(y, v)), v)
    BY <2>1, <2>2, <2>3, OperandsFold, Zenon
  <2>5. QED
    BY <2>1, <2>4, Zenon
<1>2. QED
  BY <1>1, OperandsAreNumbers, PTL

-----------------------------------------------------------------------------
(* Slices and strings.                                                     *)

(* The value v has been read of a string s: its length, and bytes that are *)
(* the first of s.                                                         *)
ReadOf(v, s) ==
  /\ v.len = Len(s) /\ Len(v.str) <= Len(s)
  /\ \A i \in 1..Len(v.str) : v.str[i] = s[i]

IsBound(b) == b = {} \/ \E n \in Nat : b = {n}
BoundOr(b, n) == IF b = {} THEN n ELSE CHOOSE u \in b : TRUE

LEMMA BoundIsNatural ==
  ASSUME NEW b, IsBound(b), NEW n \in Nat
  PROVE  BoundOr(b, n) \in Nat
  BY DEF IsBound, BoundOr

LEMMA PartIsPrefix ==
  ASSUME NEW S, NEW s \in Seq(S), NEW t \in Seq(S), Len(t) <= Len(s),
         \A i \in 1..Len(t) : t[i] = s[i],
         NEW low \in Nat, NEW h \in Nat, low <= h, h <= Len(s),
         NEW part, part = IF low > Len(t) THEN << >>
                          ELSE SubSeq(t, low + 1, IF h > Len(t) THEN Len(t) ELSE h)
  PROVE  /\ Len(SubSeq(s, low + 1, h)) = h - low
         /\ Len(part) <= h - low
         /\ \A i \in 1..Len(part) : part[i] = SubSeq(s, low + 1, h)[i]
<1>1. Len(s) \in Nat /\ Len(t) \in Nat
  OBVIOUS
<1>2. PICK have \in Nat : have = IF h > Len(t) THEN Len(t) ELSE h
  BY <1>1
<1>3. have <= Len(t) /\ have <= h
  BY <1>1, <1>2
<1>4. /\ Len(SubSeq(s, low + 1, h)) = h - low
      /\ \A i \in 1..(h - low) : SubSeq(s, low + 1, h)[i] = s[low + i]
  BY <1>1
<1>5. CASE low > Len(t)
  BY <1>1, <1>4, <1>5
<1>6. CASE low <= Len(t)
  <2>1. part = SubSeq(t, low + 1, have)
    BY <1>1, <1>2, <1>6
  <2>2. low <= have
    BY <1>1, <1>2, <1>6
  <2>3. /\ Len(SubSeq(t, low + 1, have)) = have - low
        /\ \A i \in 1..(have - low) : SubSeq(t, low + 1, have)[i] = t[low + i]
    BY <1>1, <1>3, <2>2
  <2>4. \A i \in 1..(have - low) : t[low + i] = s[low + i] /\ i \in 1..(h - low)
    BY <1>1, <1>3, <2>2
  <2>5. Len(part) = have - low /\ Len(part) <= h - low
    BY <1>3, <2>1, <2>3
  <2>6. ASSUME NEW i \in 1..Len(part)
        PROVE  part[i] = SubSeq(s, low + 1, h)[i]
    <3>1. i \in 1..(have - low) /\ i \in 1..(h - low)
      BY <2>4, <2>5
    <3>2. part[i] = t[low + i] /\ t[low + i] = s[low + i]
      BY <2>1, <2>3, <2>4, <3>1
    <3>3. SubSeq(s, low + 1, h)[i] = s[low + i]
      BY <1>4, <3>1
    <3>4. QED
      BY <3>2, <3>3
  <2>7. QED
    BY <1>4, <2>5, <2>6
<1>7. low > Len(t) \/ low <= Len(t)
  BY <1>1
<1>8. QED
  BY <1>5, <1>6, <1>7, Zenon

(* A slice expression on a string that was read in part has the length of  *)
(* the slice of the whole, and bytes that are the first of it; it is an    *)
(* error if slicing the whole would panic.                                 *)
THEOREM StringSlicesArePrefixes ==
  ASSUME NEW S, NEW s \in Seq(S), NEW x, NEW low \in Nat, NEW high, NEW max,
         IsBound(high), IsBound(max),
         x.v \in [k : {"String"}, len : Nat, str : Seq(S)], ReadOf(x.v, s)
  PROVE  LET r == sliceString(x, low, high, max)
             h == BoundOr(high, Len(s))
         IN IF max = {} /\ low <= h /\ h <= Len(s)
            THEN r.err = "" /\ r.d = x.d /\ ReadOf(r.v, SubSeq(s, low + 1, h))
            ELSE r.err # ""
<1>1. PICK h \in Nat : h = BoundOr(high, Len(s))
  BY BoundIsNatural
<1>2. x.v.k = "String" /\ x.v.len = Len(s) /\ x.v.str \in Seq(S) /\ Len(x.v.str) <= Len(s)
  BY DEF ReadOf
<1>3. PICK part : part = IF low > Len(x.v.str) THEN << >>
                         ELSE SubSeq(x.v.str, low + 1, IF h > Len(x.v.str) THEN Len(x.v.str) ELSE h)
  BY Zenon
<1>4. sliceString(x, low, high, max) =
        IF max # {} THEN Err("full slice of string")
        ELSE IF low > h \/ h > Len(s) THEN Err("invalid slice index")
        ELSE Result(x.d, [x.v EXCEPT !.len = h - low, !.str = part])
  BY <1>1, <1>2, <1>3, Zenon DEF sliceString, BoundOr
<1>5. Err("full slice of string").err # "" /\ Err("invalid slice index").err # ""
  BY DEF Err
<1>6. CASE max = {} /\ low <= h /\ h <= Len(s)
  <2>1. PICK v : v = [x.v EXCEPT !.len = h - low, !.str = part]
    BY Zenon
  <2>2. v.len = h - low /\ v.str = part
    BY <2>1
  <2>3. /\ Len(SubSeq(s, low + 1, h)) = h - low
        /\ Len(part) <= h - low
        /\ \A i \in 1..Len(part) : part[i] = SubSeq(s, low + 1, h)[i]
    BY <1>2, <1>3, <1>6, PartIsPrefix DEF ReadOf
  <2>4. ReadOf(v, SubSeq(s, low + 1, h))
    BY <2>2, <2>3, Zenon DEF ReadOf
  <2>5. ~(low > h \/ h > Len(s))
    BY <1>6
  <2>6. sliceString(x, low, high, max) = Result(x.d, v)
    BY <1>4, <1>6, <2>1, <2>5, Zenon
  <2>7. Result(x.d, v).err = "" /\ Result(x.d, v).d = x.d /\ Result(x.d, v).v = v
    BY DEF Result
  <2>8. QED
    BY <1>1, <1>6, <2>4, <2>6, <2>7, Zenon
<1>7. CASE ~(max = {} /\ low <= h /\ h <= Len(s))
  <2>1. max # {} \/ low > h \/ h > Len(s)
    BY <1>7
  <2>2. QED
    BY <1>1, <1>4, <1>5, <1>7, <2>1, Zenon
<1>8. QED
  BY <1>6, <1>7

(* evalBinaryOp's sum of two strings that were read in part has the length *)
(* of the sum of the wholes, and bytes that are the first of it.           *)
THEOREM StringSumsArePrefixes ==
  ASSUME NEW S, NEW s \in Seq(S), NEW t \in Seq(S), NEW x, NEW y,
         x.v \in [k : {"String"}, len : Nat, str : Seq(S)], ReadOf(x.v, s),
         y.v \in [k : {"String"}, len : Nat, str : Seq(S)], ReadOf(y.v, t)
  PROVE  LET r == stringBinary("+", x, y)
         IN r.err = "" /\ r.d = x.d /\ ReadOf(r.v, s \o t)
<1>1. /\ x.v.len = Len(s) /\ x.v.str \in Seq(S) /\ Len(x.v.str) <= Len(s)
      /\ \A i \in 1..Len(x.v.str) : x.v.str[i] = s[i]
      /\ y.v.len = Len(t) /\ y.v.str \in Seq(S) /\ Len(y.v.str) <= Len(t)
      /\ \A i \in 1..Len(y.v.str) : y.v.str[i] = t[i]
  BY DEF ReadOf
<1>2. PICK a \in Seq(S), b \in Seq(S) : a = x.v.str /\ b = y.v.str
  BY <1>1, Zenon
<1>3. PICK sum : sum = IF Len(s) = Len(a) THEN a \o b ELSE a
  BY Zenon
<1>4. PICK v : v = [k |-> "String", len |-> Len(s) + Len(t), str |-> sum]
  BY Zenon
<1>5. stringBinary("+", x, y) = Result(x.d, v)
  BY <1>1, <1>2, <1>3, <1>4 DEF stringBinary
<1>6. /\ Len(s) \in Nat /\ Len(t) \in Nat /\ Len(s \o t) = Len(s) + Len(t)
      /\ \A i \in 1..Len(s) : (s \o t)[i] = s[i]
      /\ \A i \in 1..Len(t) : (s \o t)[Len(s) + i] = t[i]
  OBVIOUS
<1>7. /\ Len(sum) <= Len(s \o t)
      /\ \A i \in 1..Len(sum) : sum[i] = (s \o t)[i]
  <2>1. CASE Len(s) = Len(a)
    <3>1. sum = a \o b /\ Len(sum) = Len(a) + Len(b) /\ Len(a) \in Nat /\ Len(b) \in Nat
      BY <1>3, <2>1
    <3>2. PICK p \in Nat, q \in Nat : p = Len(a) /\ q = Len(b) /\ Len(sum) = p + q
      BY <3>1, Zenon
    <3>3. ASSUME NEW i \in 1..Len(sum) PROVE sum[i] = (s \o t)[i]
      <4>1. CASE i <= Len(a)
        BY <1>1, <1>2, <1>6, <2>1, <3>1, <4>1
      <4>2. CASE i > Len(a)
        <5>1. PICK j \in 1..Len(b) : i = Len(a) + j
          <6>1. i \in 1..(p + q) /\ i > p
            BY <3>2, <4>2, Zenon
          <6>2. i - p \in 1..q /\ i = p + (i - p)
            BY <6>1
          <6>3. QED
            BY <3>2, <6>2, Zenon
        <5>2. sum[i] = b[j]
          BY <3>1, <5>1
        <5>3. b[j] = t[j] /\ j \in 1..Len(t)
          BY <1>1, <1>2, <1>6, <3>1
        <5>4. (s \o t)[Len(s) + j] = t[j]
          BY <1>6, <5>3
        <5>5. QED
          BY <2>1, <5>1, <5>2, <5>3, <5>4
      <4>3. i <= Len(a) \/ i > Len(a)
        <5>1. i \in 1..(p + q)
          BY <3>2, Zenon
        <5>2. i <= p \/ i > p
          BY <5>1
        <5>3. QED
          BY <3>2, <5>2, Zenon
      <4>4. QED
        BY <4>1, <4>2, <4>3, Zenon
    <3>4. Len(sum) <= Len(s \o t)
      <4>1. q <= Len(t) /\ p = Len(s)
        BY <1>1, <1>2, <2>1, <3>2, Zenon
      <4>2. p + q <= p + Len(t)
        BY <1>6, <4>1
      <4>3. QED
        BY <1>6, <3>2, <4>1, <4>2, Zenon
    <3>5. QED
      BY <3>3, <3>4
  <2>2. CASE Len(s) # Len(a)
    <3>1. sum = a
      BY <1>3, <2>2
    <3>2. QED
      BY <1>1, <1>2, <1>6, <3>1
  <2>3. QED
    BY <2>1, <2>2
<1>8. v.len = Len(s) + Len(t) /\ v.str = sum
  BY <1>4
<1>9. ReadOf(v, s \o t)
  BY <1>6, <1>7, <1>8, Zenon DEF ReadOf
<1>10. Result(x.d, v).err = "" /\ Result(x.d, v).d = x.d /\ Result(x.d, v).v = v
  BY DEF Result
<1>11. QED
  BY <1>5, <1>9, <1>10, Zenon

(* A slice expression on a slice gives what the Go specification says:     *)
(* element i is element low + i of the slice, within its capacity; it is   *)
(* an error where the program would panic.                                 *)
THEOREM SlicesOfSlicesDenote ==
  ASSUME NEW x, NEW low \in Nat, NEW high, NEW max, IsBound(high), IsBound(max),
         NEW K, NEW E,
         x.v \in [k : K, elem : E, a : Nat, len : Nat, stride : Nat, cap : Nat], x.v.len <= x.v.cap
  PROVE  LET r == sliceSlice(x, low, high, max)
             h == BoundOr(high, x.v.len)
             m == BoundOr(max, x.v.cap)
         IN IF low <= h /\ h <= m /\ m <= x.v.cap
            THEN /\ r.err = "" /\ r.d = x.d /\ r.v.k = x.v.k /\ r.v.elem = x.v.elem
                 /\ r.v.len = h - low /\ r.v.cap = m - low /\ r.v.len <= r.v.cap
                 /\ \A i \in 0..(r.v.cap - 1) : /\ Element(r.v, i) = Element(x.v, low + i)
                                                /\ low + i < x.v.cap
            ELSE r.err # ""
<1>1. x.v.len \in Nat /\ x.v.cap \in Nat /\ x.v.a \in Nat /\ x.v.stride \in Nat
  OBVIOUS
<1>2. PICK h \in Nat, m \in Nat : h = BoundOr(high, x.v.len) /\ m = BoundOr(max, x.v.cap)
  BY <1>1, BoundIsNatural
<1>3. PICK v : v = cutSlice(x.v, low, h, m)
  BY Zenon
<1>4. sliceSlice(x, low, high, max) =
        IF high # {} /\ h > x.v.cap THEN Err("slice upper bound is too large")
        ELSE IF m > x.v.cap THEN Err("slice capacity is too large")
        ELSE IF low > h \/ h > m THEN Err("invalid slice index")
        ELSE Result(x.d, v)
  BY <1>2, <1>3, Zenon DEF sliceSlice, BoundOr
<1>5. /\ Err("slice upper bound is too large").err # "" /\ Err("slice capacity is too large").err # ""
      /\ Err("invalid slice index").err # ""
      /\ Result(x.d, v).err = "" /\ Result(x.d, v).d = x.d /\ Result(x.d, v).v = v
  BY DEF Err, Result
<1>6. CASE low <= h /\ h <= m /\ m <= x.v.cap
  <2>1. ~(h > x.v.cap) /\ ~(m > x.v.cap) /\ ~(low > h \/ h > m)
    BY <1>1, <1>6
  <2>2. sliceSlice(x, low, high, max) = Result(x.d, v)
    BY <1>4, <2>1, Zenon
  <2>3. /\ v.k = x.v.k /\ v.elem = x.v.elem /\ v.a = x.v.a + low * x.v.stride /\ v.stride = x.v.stride
        /\ v.len = h - low /\ v.cap = m - low
    BY <1>3 DEF cutSlice
  <2>4. v.len <= v.cap
    BY <1>6, <2>3
  <2>5. ASSUME NEW i \in 0..(v.cap - 1)
        PROVE  Element(v, i) = Element(x.v, low + i) /\ low + i < x.v.cap
    <3>1. i \in Nat /\ low + i < m
      BY <1>6, <2>3, <2>5
    <3>2. PICK a \in Nat, d \in Nat : a = x.v.a /\ d = x.v.stride
      BY <1>1
    <3>3. (a + low * d) + i * d = a + (low + i) * d
      BY <3>1
    <3>4. Element(v, i) = (a + low * d) + i * d /\ Element(x.v, low + i) = a + (low + i) * d
      BY <2>3, <3>2, Zenon DEF Element
    <3>5. QED
      BY <1>1, <1>6, <3>1, <3>3, <3>4
  <2>6. QED
    BY <1>2, <1>5, <1>6, <2>2, <2>3, <2>4, <2>5, Zenon
<1>7. CASE ~(low <= h /\ h <= m /\ m <= x.v.cap)
  <2>1. low > h \/ h > m \/ m > x.v.cap
    BY <1>1, <1>7
  <2>2. QED
    BY <1>2, <1>4, <1>5, <1>7, <2>1, Zenon
<1>8. QED
  BY <1>6, <1>7
=============================================================================
