---------------------------- MODULE Scatter_proofs ----------------------------
(***************************************************************************)
(* Proofs about the scatter path, for every number of clusters, cores and  *)
(* lines: the masks of its stages speak of the line at the head of their   *)
(* queue, the path implements the service that ScatterService states, and  *)
(* the simulator's broadcast path is the hardware's cycle by cycle.        *)
(*                                                                         *)
(* For the service, a hand-over only moves a line between parts of what is *)
(* on its way to a core: One, Shift and Rest below.  The simulator's       *)
(* queues are rings of two cells (Holding).                                *)
(***************************************************************************)
EXTENDS CosimScatter, FiniteSetTheorems, SequenceTheorems, WellFoundedInduction, TLAPS

\* A nonempty set of naturals has a least member: the priority encoders of
\* the code select a member of their argument.
LEMMA LeastMember ==
    ASSUME NEW T \in SUBSET Nat, T # {}
    PROVE  Lowest(T) \in T /\ \A j \in T : Lowest(T) <= j
<1> DEFINE LT == {ss \in Nat \X Nat : ss[1] < ss[2]}
<1>1. IsWellFoundedOn(LT, Nat)
  BY NatLessThanWellFounded DEF OpToRel
<1>2. PICK i \in T : \A j \in T : ~ (<<j, i>> \in LT)
  BY <1>1, WFMin
<1>3. ASSUME NEW j \in T, j < i
      PROVE  FALSE
  <2>1. <<j, i>> \in Nat \X Nat /\ <<j, i>>[1] < <<j, i>>[2]
    BY <1>3
  <2>2. <<j, i>> \in LT
    BY <2>1
  <2>3. QED  BY <1>2, <2>2
<1>4. \A j \in T : i <= j
  BY <1>3
<1>5. QED  BY <1>4 DEF Lowest

\* Ranges of d numbers follow each other: a number is in one of them.
LEMMA Times ==
    ASSUME NEW d \in Nat, NEW a \in Int, NEW b \in Int, a <= b
    PROVE  d * a <= d * b
  OBVIOUS

LEMMA Division ==
    ASSUME NEW d \in Nat \ {0}, NEW a \in Int
    PROVE  a \div d \in Int /\ d * (a \div d) <= a /\ a < d * (a \div d) + d
  OBVIOUS

LEMMA DivLess ==
    ASSUME NEW d \in Nat \ {0}, NEW a \in Int, NEW b \in Int
    PROVE  /\ a < d * b <=> a \div d < b
           /\ a <= b => a \div d <= b \div d
<1>1. a \div d \in Int /\ d * (a \div d) <= a /\ a < d * (a \div d) + d
  BY Division
<1>2. b \div d \in Int /\ d * (b \div d) <= b /\ b < d * (b \div d) + d
  BY Division
<1>. DEFINE q == a \div d
            r == b \div d
<1>. HIDE DEF q, r
<1>3. a < d * b => q < b
  <2>1. b <= q => d * b <= d * q
    BY <1>1, Times DEF q
  <2>2. QED  BY <1>1, <2>1 DEF q
<1>4. q < b => a < d * b
  <2>1. q + 1 <= b => d * (q + 1) <= d * b
    BY <1>1, Times DEF q
  <2>2. d * (q + 1) = d * q + d
    BY <1>1 DEF q
  <2>3. QED  BY <1>1, <2>1, <2>2 DEF q
<1>5. a <= b => q <= r
  <2>1. r + 1 <= q => d * (r + 1) <= d * q
    BY <1>1, <1>2, Times DEF q, r
  <2>2. d * (r + 1) = d * r + d
    BY <1>2 DEF r
  <2>3. QED  BY <1>1, <1>2, <2>1, <2>2 DEF q, r
<1>6. QED  BY <1>3, <1>4, <1>5 DEF q, r

LEMMA InRange ==
    ASSUME NEW d \in Nat \ {0}, NEW n \in Int, NEW a \in Int, d * n <= a, a < d * (n + 1)
    PROVE  a \div d = n /\ a % d = a - d * n /\ a % d \in 0 .. d - 1
<1>1. a \div d < n + 1
  BY DivLess
<1>2. n <= a \div d
  <2>1. ~ (a < d * n) => ~ (a \div d < n)
    BY DivLess
  <2>2. a \div d \in Int /\ d * n \in Int
    BY Division
  <2>3. QED  BY <2>1, <2>2
<1>3. a \div d = n
  BY <1>1, <1>2, Division
<1>4. a = d * (a \div d) + (a % d) /\ a % d \in 0 .. d - 1
  OBVIOUS
<1>5. QED  BY <1>3, <1>4

----------------------------------------------------------------------------
(* The masks *)

TypeOK ==
    /\ bcstQueue \in Seq(Lines) /\ bcstAccepted \subseteq Clusters
    /\ \A k \in Clusters : distQueue[k] \in Seq(Lines) /\ distAccepted[k] \subseteq Cores
    /\ \A c \in Cores : biuQueue[c] \in Seq(Lines) /\ bcastSent[c] \subseteq 1 .. Beats

IInv == TypeOK /\ MasksMatch

LEMMA ShiftSeq ==
    ASSUME NEW q \in Seq(Lines), NEW leaves \in BOOLEAN, leaves => q # <<>>,
           NEW F \in SUBSET Lines
    PROVE  /\ Shift(q, leaves, F) \in Seq(Lines)
           /\ ~leaves /\ q # <<>> => Shift(q, leaves, F) # <<>> /\ Head(Shift(q, leaves, F)) = Head(q)
           /\ ~leaves /\ F = {} => Shift(q, leaves, F) = q
<1> DEFINE rest == IF leaves THEN Tail(q) ELSE q
           l == CHOOSE x \in F : TRUE
<1>1. rest \in Seq(Lines) /\ (~leaves => rest = q)
  OBVIOUS
<1>2. Shift(q, leaves, F) = IF F = {} THEN rest ELSE Append(rest, l)
  BY DEF Shift
<1>3. F # {} => l \in Lines
  OBVIOUS
<1> HIDE DEF rest, l
<1>4. CASE F = {}
  BY <1>1, <1>2, <1>4
<1>5. CASE F # {}
  <2>1. Append(rest, l) \in Seq(Lines) /\ Append(rest, l) # <<>>
    BY <1>1, <1>3, <1>5
  <2>2. rest # <<>> => Head(Append(rest, l)) = Head(rest)
    BY <1>1, <1>3, <1>5
  <2>3. QED  BY <1>1, <1>2, <1>5, <2>1, <2>2
<1>6. QED  BY <1>4, <1>5

\* What enters a queue is the line at the head of the one before.
LEMMA Enters ==
    ASSUME IInv
    PROVE  /\ \A k \in Clusters : /\ FirstTo(k) \subseteq Lines
                                  /\ FirstTo(k) # {} => FirstTo(k) = {Head(bcstQueue)}
           /\ \A c \in Cores : FirstOf(c) \subseteq Lines
<1>1. \A s \in Seq(Lines) : s # <<>> => Head(s) \in Lines
  OBVIOUS
<1>2. \A c \in Cores : Home[c] \in Clusters
  BY ScatterAssumption
<1>3. \A k \in Clusters : k \in BcstAccept => bcstQueue # <<>>
  BY DEF BcstAccept
<1>4. \A k \in Clusters : \A c : c \in DistAccept(k) => distQueue[k] # <<>>
  BY DEF DistAccept, DistValids
<1>5. QED  BY <1>1, <1>2, <1>3, <1>4 DEF IInv, TypeOK, FirstTo, FirstOf

LEMMA InitMasks == Init => IInv
  BY DEF Init, IInv, TypeOK, MasksMatch

LEMMA CycleMasks ==
    ASSUME IInv, NEW offer \in SUBSET Lines, NEW taken, Cycle(offer, taken)
    PROVE  IInv'
<1>1. TypeOK /\ MasksMatch
  BY DEF IInv
<1>2. /\ bcstQueue' \in Seq(Lines) /\ bcstAccepted' \subseteq Clusters
      /\ bcstQueue' = <<>> => bcstAccepted' = {}
  <2> DEFINE leaves == bcstQueue # <<>> /\ BcstStep
             enters == IF Len(bcstQueue) < QueueDepth THEN offer ELSE {}
  <2>1. bcstQueue' = Shift(bcstQueue, leaves, enters) /\ bcstAccepted' = BcstMask
    BY DEF Cycle
  <2>2. bcstQueue \in Seq(Lines) /\ enters \in SUBSET Lines /\ leaves \in BOOLEAN
        /\ (leaves => bcstQueue # <<>>)
    BY <1>1 DEF TypeOK
  <2> HIDE DEF enters
  <2>3. /\ bcstQueue' \in Seq(Lines)
        /\ ~leaves /\ bcstQueue # <<>> => bcstQueue' # <<>>
    BY <2>1, <2>2, ShiftSeq
  <2>4. bcstQueue = <<>> => BcstMask = {}
    BY <1>1 DEF MasksMatch, BcstMask, BcstAccept
  <2>5. leaves => BcstMask = {}
    BY DEF BcstMask
  <2>6. BcstMask \subseteq Clusters
    BY <1>1 DEF TypeOK, BcstMask, BcstAccept
  <2>7. QED  BY <2>1, <2>3, <2>4, <2>5, <2>6
<1>3. ASSUME NEW k \in Clusters
      PROVE  /\ distQueue'[k] \in Seq(Lines) /\ distAccepted'[k] \subseteq Cores
             /\ distAccepted'[k] \subseteq
                    (IF distQueue'[k] = <<>> THEN {} ELSE Hits(k, Head(distQueue'[k])))
  <2>1. distQueue'[k] = Shift(distQueue[k], DistStep(k), FirstTo(k)) /\ distAccepted'[k] = DistMask(k)
    BY DEF Cycle
  <2>2. distQueue[k] \in Seq(Lines) /\ FirstTo(k) \in SUBSET Lines /\ DistStep(k) \in BOOLEAN
        /\ (DistStep(k) => distQueue[k] # <<>>)
    BY <1>1, Enters DEF TypeOK, DistStep
  <2>3. /\ distQueue'[k] \in Seq(Lines)
        /\ ~DistStep(k) /\ distQueue[k] # <<>>
              => distQueue'[k] # <<>> /\ Head(distQueue'[k]) = Head(distQueue[k])
    BY <2>1, <2>2, ShiftSeq
  <2>4. distQueue[k] = <<>> => DistMask(k) = {}
    BY <1>1 DEF MasksMatch, DistMask, DistAccept, DistValids
  <2>5. DistStep(k) => DistMask(k) = {}
    BY DEF DistMask
  <2>6. distQueue[k] # <<>> => DistMask(k) \subseteq Hits(k, Head(distQueue[k]))
    BY <1>1 DEF MasksMatch, DistMask, DistAccept, DistValids
  <2>7. \A l : Hits(k, l) \subseteq Cores
    BY DEF Hits
  <2>8. QED  BY <2>1, <2>3, <2>4, <2>5, <2>6, <2>7
<1>4. ASSUME NEW c \in Cores
      PROVE  /\ biuQueue'[c] \in Seq(Lines) /\ bcastSent'[c] \subseteq 1 .. Beats
             /\ bcastSent'[c] \subseteq
                    {b \in 1 .. Beats : biuQueue'[c] # <<>> /\ Addressee[Head(biuQueue'[c])][b] = c}
  <2>1. biuQueue'[c] = Shift(biuQueue[c], BiuStep(c), FirstOf(c)) /\ bcastSent'[c] = SentMask(c, taken)
    BY DEF Cycle
  <2>2. biuQueue[c] \in Seq(Lines) /\ FirstOf(c) \in SUBSET Lines /\ BiuStep(c) \in BOOLEAN
        /\ (BiuStep(c) => biuQueue[c] # <<>>)
    BY <1>1, Enters DEF TypeOK, BiuStep
  <2>3. /\ biuQueue'[c] \in Seq(Lines)
        /\ ~BiuStep(c) /\ biuQueue[c] # <<>>
              => biuQueue'[c] # <<>> /\ Head(biuQueue'[c]) = Head(biuQueue[c])
    BY <2>1, <2>2, ShiftSeq
  <2>4. Avail(c) \subseteq 1 .. Beats
    BY DEF Avail
  <2>5. Sends(c, taken) \subseteq Avail(c)
    <3>1. Avail(c) # {} => Lowest(Avail(c)) \in Avail(c)
      BY <2>4, ScatterAssumption, LeastMember
    <3>2. QED  BY <3>1 DEF Sends
  <2>6. biuQueue[c] = <<>> => SentMask(c, taken) = {}
    BY <1>1, <2>5 DEF MasksMatch, SentMask, Avail
  <2>7. BiuStep(c) => SentMask(c, taken) = {}
    BY DEF SentMask
  <2>8. \A b \in Avail(c) : Addressee[Head(biuQueue[c])][b] = c
    BY DEF Avail
  <2>9. \A b \in bcastSent[c] : b \in 1 .. Beats /\ Addressee[Head(biuQueue[c])][b] = c
    BY <1>1 DEF MasksMatch
  <2>10. \A b \in SentMask(c, taken) :
            b \in 1 .. Beats /\ Addressee[Head(biuQueue[c])][b] = c /\ ~BiuStep(c) /\ biuQueue[c] # <<>>
    BY <2>4, <2>5, <2>6, <2>7, <2>8, <2>9 DEF SentMask
  <2>11. QED  BY <2>1, <2>3, <2>10
<1>5. TypeOK'
  BY <1>2, <1>3, <1>4 DEF TypeOK
<1>6. MasksMatch'
  BY <1>2, <1>3, <1>4 DEF MasksMatch
<1>7. QED  BY <1>5, <1>6 DEF IInv

\* The masks in every behaviour of the path.
LEMMA NextMasks == IInv /\ [Next]_vars => IInv'
<1>1. ASSUME IInv, Next
      PROVE  IInv'
  <2>1. PICK offer \in {{}} \cup {{l} : l \in Lines \ UnderWay},
             taken \in SUBSET {c \in Cores : Avail(c) # {}} : Cycle(offer, taken)
    BY <1>1 DEF Next
  <2>2. offer \in SUBSET Lines
    OBVIOUS
  <2>3. QED  BY <1>1, <2>1, <2>2, CycleMasks
<1>2. IInv /\ UNCHANGED vars => IInv'
  BY DEF IInv, TypeOK, MasksMatch, vars
<1>3. QED  BY <1>1, <1>2

----------------------------------------------------------------------------
(* The refinement of ScatterService *)

\* The line of a set of at most one, as a sequence.
One(F) == IF F = {} THEN <<>> ELSE <<CHOOSE l \in F : TRUE>>

LEMMA OneSeq ==
    ASSUME NEW F \in SUBSET Lines
    PROVE  One(F) \in Seq(Lines) /\ \A l : F = {l} => One(F) = <<l>>
<1>1. CASE F = {}
  BY <1>1 DEF One
<1>2. CASE F # {}
  <2>1. PICK l \in F : l = CHOOSE x \in F : TRUE
    BY <1>2
  <2>2. One(F) = <<l>>
    BY <1>2, <2>1 DEF One
  <2>3. QED  BY <2>1, <2>2
<1>3. QED  BY <1>1, <1>2

LEMMA ShiftIs ==
    ASSUME NEW q \in Seq(Lines), NEW leaves \in BOOLEAN, NEW F \in SUBSET Lines, leaves => q # <<>>
    PROVE  /\ Shift(q, leaves, F) = Rest(q, leaves) \o One(F)
           /\ Rest(q, leaves) \in Seq(Lines)
<1>1. PICK r \in Seq(Lines) : r = Rest(q, leaves) /\ r = IF leaves THEN Tail(q) ELSE q
  <2>1. (IF leaves THEN Tail(q) ELSE q) \in Seq(Lines)
    BY HeadTailProperties
  <2>2. QED  BY <2>1 DEF Rest
<1>2. CASE F = {}
  <2>1. Shift(q, leaves, F) = r /\ One(F) = <<>>
    BY <1>1, <1>2 DEF Shift, One
  <2>2. QED  BY <1>1, <2>1, ConcatEmptySeq
<1>3. CASE F # {}
  <2>1. PICK l \in Lines : l = CHOOSE x \in F : TRUE
    BY <1>3
  <2>2. Shift(q, leaves, F) = Append(r, l) /\ One(F) = <<l>>
    BY <1>1, <1>3, <2>1 DEF Shift, One
  <2>3. Append(r, l) = r \o <<l>>
    BY AppendIsConcat
  <2>4. QED  BY Zenon, <1>1, <2>2, <2>3
<1>4. QED  BY <1>2, <1>3

\* Sequences of lines: what a queue hands over goes before its rest.
LEMMA Handed ==
    ASSUME NEW q \in Seq(Lines), q # <<>>
    PROVE  /\ Head(q) \in Lines /\ Tail(q) \in Seq(Lines)
           /\ <<Head(q)>> \o Tail(q) = q
           /\ \A t \in Seq(Lines) : /\ Tail(q \o t) = Tail(q) \o t /\ Head(q \o t) = Head(q)
                                    /\ q \o t # <<>>
<1>1. PICK h, r : h = Head(q) /\ r = Tail(q) /\ h \in Lines /\ r \in Seq(Lines)
  BY HeadTailProperties
<1>2. Len(r) = Len(q) - 1 /\ \A i \in 1 .. Len(r) : r[i] = q[i + 1]
  BY <1>1, HeadTailProperties
<1>3. <<h>> \in Seq(Lines) /\ Len(<<h>>) = 1 /\ <<h>>[1] = h
  BY <1>1
<1>4. Len(q) \in Nat \ {0} /\ h = q[1]
  BY <1>1
<1>5. <<h>> \o r = q
  <2>1. /\ <<h>> \o r \in Seq(Lines) /\ Len(<<h>> \o r) = Len(q)
        /\ \A i \in 1 .. Len(q) : (<<h>> \o r)[i] = IF i <= 1 THEN h ELSE r[i - 1]
    BY <1>1, <1>2, <1>3, <1>4, ConcatProperties
  <2>2. \A i \in 1 .. Len(q) : (<<h>> \o r)[i] = q[i]
    BY <1>2, <1>4, <2>1
  <2>3. QED  BY <2>1, <2>2, SeqEqual
<1>6. ASSUME NEW t \in Seq(Lines)
      PROVE  Tail(q \o t) = r \o t /\ Head(q \o t) = h /\ q \o t # <<>>
  <2>1. q \o t = <<h>> \o (r \o t) /\ r \o t \in Seq(Lines)
    BY <1>1, <1>3, <1>5, ConcatAssociative, ConcatProperties
  <2>2. PICK u \in Seq(Lines) : u = r \o t
    BY <2>1
  <2>3. Tail(<<h>> \o u) = u /\ Head(<<h>> \o u) = h /\ <<h>> \o u # <<>>
    BY <1>1
  <2>4. QED  BY <2>1, <2>2, <2>3
<1>7. QED  BY <1>1, <1>5, <1>6

\* What DRAMIf hands to a cluster leaves what it still has for it.
LEMMA CentralHands ==
    ASSUME IInv, NEW offer \in SUBSET Lines, NEW taken, Cycle(offer, taken), NEW k \in Clusters
    PROVE  /\ Rest(bcstQueue, k \in bcstAccepted) \in Seq(Lines)
           /\ Rest(bcstQueue, k \in bcstAccepted)' \in Seq(Lines)
           /\ One(FirstTo(k)) \o Rest(bcstQueue, k \in bcstAccepted)'
                = Rest(bcstQueue, k \in bcstAccepted)
                    \o One(IF Len(bcstQueue) < QueueDepth THEN offer ELSE {})
<1>1. PICK m, F : m = bcstQueue /\ F = IF Len(bcstQueue) < QueueDepth THEN offer ELSE {}
  OBVIOUS
<1>2. m \in Seq(Lines) /\ F \in SUBSET Lines /\ (m = <<>> => bcstAccepted = {})
  BY <1>1 DEF IInv, TypeOK, MasksMatch
<1>3. One(F) \in Seq(Lines)
  BY <1>2, OneSeq
<1>4. PICK leaves \in BOOLEAN : leaves <=> m # <<>> /\ BcstStep
  OBVIOUS
<1>5. bcstQueue' = Rest(m, leaves) \o One(F) /\ Rest(m, leaves) \in Seq(Lines)
  <2>1. bcstQueue' = Shift(m, leaves, F)
    <3>1. (bcstQueue # <<>> /\ BcstStep) = leaves
      BY <1>1, <1>4
    <3>2. QED  BY <1>1, <3>1 DEF Cycle
  <2>2. QED  BY <1>2, <1>4, <2>1, ShiftIs
<1>6. PICK before \in BOOLEAN : before <=> k \in bcstAccepted
  OBVIOUS
<1>7. PICK now \in BOOLEAN : now <=> k \in BcstAccept
  OBVIOUS
<1>8. PICK after \in BOOLEAN : after <=> k \in bcstAccepted'
  OBVIOUS
<1>9. /\ after <=> ~BcstStep /\ (before \/ now)
      /\ BcstStep => before \/ now
      /\ now => m # <<>> /\ ~before
      /\ before => m # <<>>
  BY <1>1, <1>2, <1>6, <1>7, <1>8 DEF Cycle, BcstMask, BcstStep, BcstAccept
<1>10. Rest(bcstQueue, k \in bcstAccepted)' = Rest(bcstQueue', after)
  BY <1>8 DEF Rest
<1>11. Rest(bcstQueue, k \in bcstAccepted) = Rest(m, before)
  BY <1>1, <1>6 DEF Rest
<1>12. One(FirstTo(k)) = IF now THEN <<Head(m)>> ELSE <<>>
  BY <1>1, <1>7 DEF FirstTo, One
<1>13. m # <<>> => /\ Head(m) \in Lines /\ Tail(m) \in Seq(Lines) /\ <<Head(m)>> \o Tail(m) = m
                   /\ Tail(m \o One(F)) = Tail(m) \o One(F)
  BY <1>2, <1>3, Handed
<1>14. Rest(bcstQueue', after) = IF before \/ now THEN Tail(m) \o One(F) ELSE m \o One(F)
  BY <1>4, <1>5, <1>9, <1>13 DEF Rest
<1>15. Rest(m, before) \in Seq(Lines) /\ Rest(bcstQueue', after) \in Seq(Lines)
  <2>1. m \o One(F) \in Seq(Lines) /\ (m # <<>> => Tail(m) \o One(F) \in Seq(Lines))
    BY <1>2, <1>3, <1>13, ConcatProperties
  <2>2. QED  BY <1>2, <1>9, <1>13, <1>14, <2>1 DEF Rest
<1>16. (IF now THEN <<Head(m)>> ELSE <<>>) \o Rest(bcstQueue', after) = Rest(m, before) \o One(F)
  <2>1. CASE now
    <3>1. <<Head(m)>> \o (Tail(m) \o One(F)) = (<<Head(m)>> \o Tail(m)) \o One(F)
      <4>1. m # <<>> /\ Head(m) \in Lines /\ Tail(m) \in Seq(Lines)
        BY <1>9, <1>13, <2>1
      <4>2. <<Head(m)>> \in Seq(Lines)
        BY <4>1
      <4>3. QED  BY <1>3, <4>1, <4>2, ConcatAssociative
    <3>2. QED  BY <1>9, <1>13, <1>14, <2>1, <3>1 DEF Rest
  <2>2. CASE ~now
    <3>1. Rest(bcstQueue', after) = Rest(m, before) \o One(F)
      BY <1>14, <2>2 DEF Rest
    <3>2. QED  BY <1>15, <2>2, <3>1, ConcatEmptySeq
  <2>3. QED  BY <2>1, <2>2
<1>17. QED  BY <1>1, <1>10, <1>11, <1>12, <1>15, <1>16

\* What a distributor hands to a core leaves what it still has for it, unless
\* the line has nothing for the core and goes.
LEMMA DistributorHands ==
    ASSUME IInv, NEW offer \in SUBSET Lines, NEW taken, Cycle(offer, taken),
           NEW c \in Cores, NEW k, k = Home[c]
    PROVE  /\ Rest(distQueue[k], c \in distAccepted[k]) \in Seq(Lines)
           /\ Rest(distQueue[k], c \in distAccepted[k])' \in Seq(Lines)
           /\ \E skip \in BOOLEAN :
                 /\ skip => /\ Rest(distQueue[k], c \in distAccepted[k]) # <<>>
                            /\ c \notin Hits(k, Head(Rest(distQueue[k], c \in distAccepted[k])))
                 /\ One(FirstOf(c)) \o Rest(distQueue[k], c \in distAccepted[k])'
                      = Rest(Rest(distQueue[k], c \in distAccepted[k]), skip) \o One(FirstTo(k))
<1>1. PICK d, F : d = distQueue[k] /\ F = FirstTo(k)
  OBVIOUS
<1>2. k \in Clusters
  BY ScatterAssumption
<1>3. /\ d \in Seq(Lines) /\ F \in SUBSET Lines
      /\ distAccepted[k] \subseteq IF d = <<>> THEN {} ELSE Hits(k, Head(d))
  BY <1>1, <1>2, Enters DEF IInv, TypeOK, MasksMatch
<1>4. One(F) \in Seq(Lines)
  BY <1>3, OneSeq
<1>5. PICK leaves \in BOOLEAN : leaves <=> DistStep(k)
  OBVIOUS
<1>6. leaves => d # <<>>
  BY <1>1, <1>5 DEF DistStep
<1>7. PICK q : q = distQueue'[k] /\ q = Rest(d, leaves) \o One(F) /\ Rest(d, leaves) \in Seq(Lines)
  <2>1. DistStep(k) = leaves
    BY <1>5 DEF DistStep
  <2>2. distQueue'[k] = Shift(d, leaves, F)
    BY <1>1, <1>2, <2>1 DEF Cycle
  <2>3. QED  BY <1>3, <1>6, <2>2, ShiftIs
<1>8. PICK before \in BOOLEAN : before <=> c \in distAccepted[k]
  OBVIOUS
<1>9. PICK now \in BOOLEAN : now <=> c \in DistAccept(k)
  OBVIOUS
<1>10. PICK after \in BOOLEAN : after <=> c \in distAccepted'[k]
  OBVIOUS
<1>11. PICK hit \in BOOLEAN : hit <=> d # <<>> /\ c \in Hits(k, Head(d))
  OBVIOUS
<1>12. /\ after <=> ~leaves /\ (before \/ now)
       /\ now => d # <<>> /\ ~before /\ hit
       /\ before => d # <<>> /\ hit
       /\ leaves /\ hit => before \/ now
  <2>1. distAccepted'[k] = DistMask(k)
    BY <1>2 DEF Cycle
  <2>2. after <=> ~leaves /\ (before \/ now)
    BY <1>5, <1>8, <1>9, <1>10, <2>1 DEF DistMask
  <2>3. now => d # <<>> /\ ~before /\ hit
    BY <1>1, <1>8, <1>9, <1>11 DEF DistAccept, DistValids
  <2>4. before => d # <<>> /\ hit
    BY <1>3, <1>8, <1>11
  <2>5. leaves /\ hit => before \/ now
    BY <1>1, <1>5, <1>8, <1>9, <1>11 DEF DistAccept, DistStep, DistValids
  <2>6. QED  BY <2>2, <2>3, <2>4, <2>5
<1>13. Rest(distQueue[k], c \in distAccepted[k])' = Rest(q, after)
  BY <1>7, <1>10 DEF Rest
<1>14. Rest(distQueue[k], c \in distAccepted[k]) = Rest(d, before)
  BY <1>1, <1>8 DEF Rest
<1>15. One(FirstOf(c)) = IF now THEN <<Head(d)>> ELSE <<>>
  <2>1. FirstOf(c) = IF now THEN {Head(d)} ELSE {}
    BY <1>1, <1>9 DEF FirstOf
  <2>2. \A x : One({x}) = <<x>>
    BY DEF One
  <2>3. QED  BY <2>1, <2>2 DEF One
<1>16. d # <<>> => /\ Head(d) \in Lines /\ Tail(d) \in Seq(Lines) /\ <<Head(d)>> \o Tail(d) = d
                   /\ Tail(d \o One(F)) = Tail(d) \o One(F)
  BY <1>3, <1>4, Handed
<1>17. PICK skip \in BOOLEAN : skip <=> leaves /\ ~hit
  OBVIOUS
<1>18. Rest(q, after) = IF before \/ now \/ skip THEN Tail(d) \o One(F) ELSE d \o One(F)
  BY <1>6, <1>7, <1>12, <1>16, <1>17 DEF Rest
<1>19. Rest(d, before) \in Seq(Lines) /\ Rest(q, after) \in Seq(Lines)
  <2>1. d \o One(F) \in Seq(Lines) /\ (d # <<>> => Tail(d) \o One(F) \in Seq(Lines))
    BY <1>3, <1>4, <1>16, ConcatProperties
  <2>2. before \/ now \/ skip => d # <<>>
    BY <1>6, <1>12, <1>17
  <2>3. QED  BY <1>3, <1>12, <1>16, <1>18, <2>1, <2>2 DEF Rest
<1>20. skip => ~before /\ ~now /\ d # <<>> /\ c \notin Hits(k, Head(d))
  BY <1>6, <1>11, <1>12, <1>17
<1>21. (IF now THEN <<Head(d)>> ELSE <<>>) \o Rest(q, after) = Rest(Rest(d, before), skip) \o One(F)
  <2>1. CASE now
    <3>1. <<Head(d)>> \o (Tail(d) \o One(F)) = (<<Head(d)>> \o Tail(d)) \o One(F)
      <4>1. d # <<>> /\ Head(d) \in Lines /\ Tail(d) \in Seq(Lines)
        BY <1>12, <1>16, <2>1
      <4>2. <<Head(d)>> \in Seq(Lines)
        BY <4>1
      <4>3. QED  BY <1>4, <4>1, <4>2, ConcatAssociative
    <3>2. Rest(Rest(d, before), skip) = d
      BY <1>12, <1>20, <2>1 DEF Rest
    <3>3. QED  BY <1>12, <1>16, <1>18, <2>1, <3>1, <3>2
  <2>2. CASE ~now
    <3>1. Rest(q, after) = Rest(Rest(d, before), skip) \o One(F)
      BY <1>18, <1>20, <2>2 DEF Rest
    <3>2. QED  BY <1>19, <2>2, <3>1, ConcatEmptySeq
  <2>3. QED  BY <2>1, <2>2
<1>22. skip => Rest(d, before) # <<>> /\ c \notin Hits(k, Head(Rest(d, before)))
  BY <1>20 DEF Rest
<1>23. QED  BY <1>1, <1>13, <1>14, <1>15, <1>19, <1>21, <1>22

LEMMA Associative ==
    ASSUME NEW b \in Seq(Lines), NEW d \in Seq(Lines), NEW m \in Seq(Lines)
    PROVE  (b \o d) \o m = b \o (d \o m)
  BY SMTT(30), ConcatAssociative

\* A cycle takes nothing from what is on its way to a core but the line that
\* its state machine is done with and one that has nothing for it, and adds
\* the line that the interface takes, if any.
LEMMA CoreShifts ==
    ASSUME IInv, NEW offer \in SUBSET Lines, NEW taken, Cycle(offer, taken), NEW c \in Cores
    PROVE  \E d \in Seq(Lines), m \in Seq(Lines), skip \in BOOLEAN :
              /\ Coming(c) = (biuQueue[c] \o d) \o m
              /\ skip => d # <<>> /\ c \notin Hits(Home[c], Head(d))
              /\ Coming(c)' = ((Rest(biuQueue[c], BiuStep(c)) \o Rest(d, skip)) \o m)
                                 \o One(IF Len(bcstQueue) < QueueDepth THEN offer ELSE {})
<1>1. PICK k, o : k = Home[c] /\ o = One(IF Len(bcstQueue) < QueueDepth THEN offer ELSE {})
  OBVIOUS
<1>2. k \in Clusters /\ o \in Seq(Lines)
  <2>1. (IF Len(bcstQueue) < QueueDepth THEN offer ELSE {}) \in SUBSET Lines
    OBVIOUS
  <2>2. QED  BY <1>1, <2>1, OneSeq, ScatterAssumption
<1>3. PICK b, d, m, d2, m2, f, g :
          /\ b = biuQueue[c] /\ d = Rest(distQueue[k], c \in distAccepted[k])
          /\ m = Rest(bcstQueue, k \in bcstAccepted)
          /\ d2 = Rest(distQueue[k], c \in distAccepted[k])'
          /\ m2 = Rest(bcstQueue, k \in bcstAccepted)'
          /\ f = One(FirstOf(c)) /\ g = One(FirstTo(k))
  OBVIOUS
<1>4. m \in Seq(Lines) /\ m2 \in Seq(Lines) /\ g \o m2 = m \o o
  BY <1>1, <1>2, <1>3, CentralHands
<1>5. /\ d \in Seq(Lines) /\ d2 \in Seq(Lines)
      /\ \E skip \in BOOLEAN : /\ skip => d # <<>> /\ c \notin Hits(k, Head(d))
                               /\ f \o d2 = Rest(d, skip) \o g
  BY <1>1, <1>3, DistributorHands
<1>6. PICK skip \in BOOLEAN : /\ skip => d # <<>> /\ c \notin Hits(k, Head(d))
                              /\ f \o d2 = Rest(d, skip) \o g
  BY <1>5
<1>7. b \in Seq(Lines) /\ f \in Seq(Lines) /\ g \in Seq(Lines)
  BY <1>2, <1>3, Enters, OneSeq DEF IInv, TypeOK
<1>8. PICK r, x : r = Rest(b, BiuStep(c)) /\ x = Rest(d, skip)
  OBVIOUS
<1>9. r \in Seq(Lines) /\ x \in Seq(Lines) /\ biuQueue'[c] = r \o f
  <2>1. BiuStep(c) \in BOOLEAN /\ (BiuStep(c) => b # <<>>)
    BY <1>3 DEF BiuStep
  <2>2. biuQueue'[c] = Shift(b, BiuStep(c), FirstOf(c)) /\ FirstOf(c) \in SUBSET Lines
    BY <1>3, Enters DEF Cycle
  <2>3. biuQueue'[c] = r \o f /\ r \in Seq(Lines)
    BY <1>3, <1>7, <1>8, <2>1, <2>2, ShiftIs
  <2>4. x \in Seq(Lines)
    BY <1>5, <1>6, <1>8, Handed DEF Rest
  <2>5. QED  BY <2>3, <2>4
<1>10. Coming(c) = (b \o d) \o m /\ Coming(c)' = ((r \o f) \o d2) \o m2
  BY <1>1, <1>3, <1>9 DEF Coming
<1>11. ((r \o f) \o d2) \o m2 = ((r \o x) \o m) \o o
  <2>1. /\ r \in Seq(Lines) /\ x \in Seq(Lines) /\ f \in Seq(Lines) /\ g \in Seq(Lines)
        /\ d2 \in Seq(Lines) /\ m \in Seq(Lines) /\ m2 \in Seq(Lines) /\ o \in Seq(Lines)
    BY Zenon, <1>2, <1>4, <1>5, <1>7, <1>9
  <2>2. f \o d2 = x \o g
    BY Zenon, <1>6, <1>8
  <2>3. (r \o f) \o d2 = r \o (f \o d2) /\ (r \o x) \o g = r \o (x \o g)
    <3>1. r \in Seq(Lines) /\ f \in Seq(Lines) /\ d2 \in Seq(Lines)
      BY Zenon, <2>1
    <3>2. r \in Seq(Lines) /\ x \in Seq(Lines) /\ g \in Seq(Lines)
      BY Zenon, <2>1
    <3>3. (r \o f) \o d2 = r \o (f \o d2)
      BY <3>1, Associative
    <3>4. (r \o x) \o g = r \o (x \o g)
      BY <3>2, Associative
    <3>5. QED  BY Zenon, <3>3, <3>4
  <2>4. PICK y : y = r \o x
    OBVIOUS
  <2>5. y \in Seq(Lines)
    BY <2>1, <2>4, ConcatProperties
  <2>6. (y \o g) \o m2 = y \o (g \o m2) /\ (y \o m) \o o = y \o (m \o o)
    <3>1. g \in Seq(Lines) /\ m2 \in Seq(Lines)
      BY Zenon, <2>1
    <3>2. m \in Seq(Lines) /\ o \in Seq(Lines)
      BY Zenon, <2>1
    <3>3. (y \o g) \o m2 = y \o (g \o m2)
      BY <2>5, <3>1, Associative
    <3>4. (y \o m) \o o = y \o (m \o o)
      BY <2>5, <3>2, Associative
    <3>5. QED  BY Zenon, <3>3, <3>4
  <2>7. (r \o f) \o d2 = y \o g
    BY Zenon, <2>2, <2>3, <2>4
  <2>8. ((r \o f) \o d2) \o m2 = (y \o m) \o o
    BY Zenon, <1>4, <2>6, <2>7
  <2>9. QED  BY Zenon, <2>4, <2>8
<1>12. /\ Coming(c) = (biuQueue[c] \o d) \o m
       /\ skip => d # <<>> /\ c \notin Hits(Home[c], Head(d))
       /\ Coming(c)' = ((Rest(biuQueue[c], BiuStep(c)) \o Rest(d, skip)) \o m)
                          \o One(IF Len(bcstQueue) < QueueDepth THEN offer ELSE {})
  BY Zenon, <1>1, <1>3, <1>6, <1>8, <1>10, <1>11
<1>13. d \in Seq(Lines) /\ m \in Seq(Lines) /\ skip \in BOOLEAN
  BY Zenon, <1>4, <1>5, <1>6
<1>14. QED  BY Zenon, <1>12, <1>13

\* A sequence without its item i, as the prover can use it.
LEMMA RemoveIs ==
    ASSUME NEW q, NEW i
    PROVE  Service!RemoveAt(q, i) = SubSeq(q, 1, i - 1) \o SubSeq(q, i + 1, Len(q))
  BY DEF Service!RemoveAt

\* Leaving out the first of the lines behind those of b.
LEMMA Without ==
    ASSUME NEW b \in Seq(Lines), NEW u \in Seq(Lines), u # <<>>
    PROVE  /\ Len(b) + 1 \in DOMAIN (b \o u) /\ (b \o u)[Len(b) + 1] = Head(u)
           /\ Service!RemoveAt(b \o u, Len(b) + 1) = b \o Tail(u)
<1>1. PICK n, k, s, t : n = Len(b) /\ k = Len(u) /\ s = b \o u /\ t = Tail(u)
  OBVIOUS
<1>2. n \in Nat /\ k \in Nat /\ k >= 1 /\ Head(u) = u[1]
  BY <1>1
<1>3. /\ s \in Seq(Lines) /\ Len(s) = n + k
      /\ \A i \in 1 .. n + k : s[i] = IF i <= n THEN b[i] ELSE u[i - n]
  BY <1>1, ConcatProperties
<1>4. t \in Seq(Lines) /\ Len(t) = k - 1 /\ \A i \in 1 .. k - 1 : t[i] = u[i + 1]
  BY <1>1, HeadTailProperties
<1>5. n + 1 \in DOMAIN s /\ s[n + 1] = Head(u)
  BY <1>2, <1>3
<1>6. \A i \in 1 .. n + k : s[i] \in Lines
  BY <1>3
<1>7. SubSeq(s, 1, n) = b
  <2>1. PICK x : x = SubSeq(s, 1, n)
    OBVIOUS
  <2>2. /\ x \in Seq(Lines) /\ Len(x) = IF 1 <= n THEN n - 1 + 1 ELSE 0
        /\ \A i \in 1 .. n - 1 + 1 : x[i] = s[1 + i - 1]
    <3>1. \A i \in 1 .. n : s[i] \in Lines
      BY <1>2, <1>6
    <3>2. QED  BY <1>2, <2>1, <3>1, SubSeqProperties
  <2>3. Len(x) = Len(b) /\ \A i \in 1 .. Len(b) : x[i] = b[i]
    BY <1>1, <1>2, <1>3, <2>2
  <2>4. QED  BY <2>1, <2>2, <2>3, SeqEqual
<1>8. SubSeq(s, n + 2, n + k) = t
  <2>1. PICK x : x = SubSeq(s, n + 2, n + k)
    OBVIOUS
  <2>2. /\ x \in Seq(Lines) /\ Len(x) = IF n + 2 <= n + k THEN (n + k) - (n + 2) + 1 ELSE 0
        /\ \A i \in 1 .. (n + k) - (n + 2) + 1 : x[i] = s[n + 2 + i - 1]
    <3>1. \A i \in n + 2 .. n + k : s[i] \in Lines
      BY <1>2, <1>6
    <3>2. n + 2 \in Int /\ n + k \in Int
      BY <1>2
    <3>3. QED  BY <2>1, <3>1, <3>2, SubSeqProperties
  <2>3. Len(x) = Len(t)
    BY <1>2, <1>4, <2>2
  <2>4. ASSUME NEW i \in 1 .. Len(t)
        PROVE  x[i] = t[i]
    <3>1. i \in 1 .. k - 1 /\ n + 2 + i - 1 \in 1 .. n + k /\ ~(n + 2 + i - 1 <= n)
          /\ n + 2 + i - 1 - n = i + 1 /\ i \in 1 .. (n + k) - (n + 2) + 1
      BY <1>2, <1>4, <2>4
    <3>2. PICK j : j = n + 2 + i - 1
      OBVIOUS
    <3>3. x[i] = s[j]
      BY <2>2, <3>1, <3>2
    <3>4. s[j] = u[j - n] /\ j - n = i + 1
      <4>1. j \in 1 .. n + k /\ ~(j <= n) /\ j - n = i + 1
        BY <1>2, <3>1, <3>2
      <4>2. QED  BY <1>3, <4>1
    <3>5. x[i] = u[i + 1]
      BY Zenon, <3>3, <3>4
    <3>6. QED  BY <1>4, <3>1, <3>5
  <2>5. QED  BY <1>4, <2>1, <2>2, <2>3, <2>4, SeqEqual
<1>9. Service!RemoveAt(s, n + 1) = SubSeq(s, 1, n) \o SubSeq(s, n + 2, n + k)
  <2>1. PICK p : p = n + 1
    OBVIOUS
  <2>2. p - 1 = n /\ p + 1 = n + 2
    BY <1>2, <2>1
  <2>3. Service!RemoveAt(s, p) = SubSeq(s, 1, p - 1) \o SubSeq(s, p + 1, Len(s))
    BY RemoveIs
  <2>4. QED  BY Zenon, <1>3, <2>1, <2>2, <2>3
<1>10. QED  BY <1>1, <1>5, <1>7, <1>8, <1>9

\* What a core's state machine sends is the first entry that the core has not
\* received of the first line on its way.
LEMMA CoreSends ==
    ASSUME IInv, NEW taken, NEW c \in Cores
    PROVE  LET L == [d \in Cores |-> Coming(d)][c]
           IN  /\ biuQueue[c] # <<>> =>
                     /\ L # <<>> /\ Head(L) = Head(biuQueue[c])
                     /\ Service!Remaining(c) = Avail(c)
               /\ Sends(c, taken) # {} =>
                     /\ biuQueue[c] # <<>> /\ Avail(c) # {}
                     /\ Sends(c, taken) = {Service!First(Avail(c))}
                     /\ Lowest(Sends(c, taken)) = Service!First(Avail(c))
               /\ BiuStep(c) => biuQueue[c] # <<>> /\ Avail(c) = {}
<1>1. PICK b, r, L : /\ b = biuQueue[c] /\ L = Coming(c)
                     /\ r = Rest(distQueue[Home[c]], c \in distAccepted[Home[c]])
                              \o Rest(bcstQueue, Home[c] \in bcstAccepted)
  OBVIOUS
<1>2. [d \in Cores |-> Coming(d)][c] = L
  BY <1>1
<1>3. b \in Seq(Lines) /\ r \in Seq(Lines) /\ L = b \o r
  <2>1. PICK k \in Clusters : k = Home[c]
    BY ScatterAssumption
  <2>2. PICK x, y : x = Rest(distQueue[k], c \in distAccepted[k]) /\ y = Rest(bcstQueue, k \in bcstAccepted)
    OBVIOUS
  <2>3. /\ bcstQueue \in Seq(Lines) /\ (bcstQueue = <<>> => bcstAccepted = {})
        /\ distQueue[k] \in Seq(Lines) /\ (distQueue[k] = <<>> => distAccepted[k] = {})
        /\ b \in Seq(Lines)
    BY <1>1 DEF IInv, TypeOK, MasksMatch
  <2>4. x \in Seq(Lines)
    <3>1. distQueue[k] # <<>> => Tail(distQueue[k]) \in Seq(Lines)
      BY Zenon, <2>3, Handed
    <3>2. c \in distAccepted[k] => distQueue[k] # <<>>
      BY Zenon, <2>3
    <3>3. QED  BY Zenon, <2>2, <2>3, <3>1, <3>2 DEF Rest
  <2>5. y \in Seq(Lines)
    <3>1. bcstQueue # <<>> => Tail(bcstQueue) \in Seq(Lines)
      BY Zenon, <2>3, Handed
    <3>2. k \in bcstAccepted => bcstQueue # <<>>
      BY Zenon, <2>3
    <3>3. QED  BY Zenon, <2>2, <2>3, <3>1, <3>2 DEF Rest
  <2>6. L = (b \o x) \o y /\ r = x \o y
    BY <1>1, <2>1, <2>2 DEF Coming
  <2>7. x \o y \in Seq(Lines)
    BY <2>4, <2>5, ConcatProperties
  <2>8. (b \o x) \o y = b \o (x \o y)
    <3>1. b \in Seq(Lines)
      BY Zenon, <2>3
    <3>2. QED  BY Zenon, <2>4, <2>5, <3>1, Associative
  <2>9. QED  BY Zenon, <2>3, <2>6, <2>7, <2>8
<1>4. ASSUME b # <<>>
      PROVE  L # <<>> /\ Head(L) = Head(b) /\ Service!Remaining(c) = Avail(c)
  <2>1. L # <<>> /\ Head(L) = Head(b)
    BY <1>3, <1>4, Handed
  <2>2. Service!Remaining(c) = {e \in 1 .. Beats : Addressee[Head(b)][e] = c} \ bcastSent[c]
    BY <1>2, <2>1 DEF Service!Remaining, Service!For
  <2>3. QED  BY <1>1, <1>4, <2>1, <2>2 DEF Avail
<1>5. ASSUME Sends(c, taken) # {}
      PROVE  /\ b # <<>> /\ Avail(c) # {}
             /\ Sends(c, taken) = {Service!First(Avail(c))}
             /\ Lowest(Sends(c, taken)) = Service!First(Avail(c))
  <2>1. Avail(c) # {} /\ Sends(c, taken) = {Lowest(Avail(c))} /\ b # <<>> /\ Avail(c) \subseteq Nat
    <3>1. Avail(c) # {} /\ Sends(c, taken) = {Lowest(Avail(c))}
      BY Zenon, <1>5 DEF Sends
    <3>2. b # <<>>
      BY Zenon, <1>1, <3>1 DEF Avail
    <3>3. 1 .. Beats \subseteq Nat
      BY ScatterAssumption
    <3>4. Avail(c) \subseteq 1 .. Beats
      BY DEF Avail
    <3>5. QED  BY Zenon, <3>1, <3>2, <3>3, <3>4
  <2>2. PICK a \in Nat : a = Lowest(Avail(c))
    BY <2>1, LeastMember
  <2>3. Lowest({a}) = a
    BY LeastMember
  <2>4. Service!First(Avail(c)) = a
    BY <2>2 DEF Service!First, Lowest
  <2>5. QED  BY <2>1, <2>2, <2>3, <2>4
<1>6. BiuStep(c) => b # <<>> /\ Avail(c) = {}
  BY <1>1 DEF BiuStep
<1>7. QED  BY <1>1, <1>2, <1>4, <1>5, <1>6

\* What is on its way to a core after a cycle.
LEMMA CoreTakes ==
    ASSUME IInv, NEW offer \in SUBSET Lines, NEW taken, Cycle(offer, taken), NEW c \in Cores
    PROVE  \E useful \in Service!Useful(c, BiuStep(c)) :
              Coming(c)' = (IF BiuStep(c) THEN Tail(useful) ELSE useful)
                              \o One(IF Len(bcstQueue) < QueueDepth THEN offer ELSE {})
<1>1. PICK b, o, L, step :
          /\ b = biuQueue[c] /\ o = One(IF Len(bcstQueue) < QueueDepth THEN offer ELSE {})
          /\ L = Coming(c) /\ step = BiuStep(c)
  OBVIOUS
<1>2. b \in Seq(Lines) /\ step \in BOOLEAN /\ (step => b # <<>>)
  BY <1>1 DEF IInv, TypeOK, BiuStep
<1>3. PICK d \in Seq(Lines), m \in Seq(Lines), skip \in BOOLEAN :
          /\ L = (b \o d) \o m
          /\ skip => d # <<>> /\ c \notin Hits(Home[c], Head(d))
          /\ Coming(c)' = ((Rest(b, step) \o Rest(d, skip)) \o m) \o o
  BY Zenon, <1>1, CoreShifts
<1>4. PICK r, x : r = Rest(b, step) /\ x = Rest(d, skip)
  OBVIOUS
<1>5. r \in Seq(Lines) /\ x \in Seq(Lines)
  <2>1. b # <<>> => Tail(b) \in Seq(Lines)
    BY <1>2, Handed
  <2>2. d # <<>> => Tail(d) \in Seq(Lines)
    BY Handed
  <2>3. QED  BY Zenon, <1>2, <1>3, <1>4, <2>1, <2>2 DEF Rest
<1>6. PICK v : v = x \o m
  OBVIOUS
<1>7. v \in Seq(Lines) /\ (r \o x) \o m = r \o v
  <2>1. v \in Seq(Lines)
    BY <1>5, <1>6, ConcatProperties
  <2>2. (r \o x) \o m = r \o (x \o m)
    <3>1. r \in Seq(Lines)
      BY Zenon, <1>5
    <3>2. x \in Seq(Lines)
      BY Zenon, <1>5
    <3>3. QED  BY Zenon, <3>1, <3>2, Associative
  <2>3. QED  BY Zenon, <1>6, <2>1, <2>2
<1>8. b \o v \in Service!Useful(c, step)
  <2>1. [e \in Cores |-> Coming(e)][c] = L
    BY <1>1
  <2>2. PICK u : u = d \o m
    OBVIOUS
  <2>3. u \in Seq(Lines) /\ L = b \o u
    <3>1. u \in Seq(Lines)
      BY <2>2, ConcatProperties
    <3>2. (b \o d) \o m = b \o (d \o m)
      BY Zenon, <1>2, Associative
    <3>3. QED  BY Zenon, <1>3, <2>2, <3>1, <3>2
  <2>4. CASE ~skip
    <3>1. b \o v = L
      BY Zenon, <1>4, <1>6, <2>2, <2>3, <2>4 DEF Rest
    <3>2. QED  BY Zenon, <2>1, <3>1 DEF Service!Useful
  <2>5. CASE skip
    <3>1. d # <<>> /\ c \notin Hits(Home[c], Head(d))
      BY Zenon, <1>3, <2>5
    <3>2. u # <<>> /\ Head(u) = Head(d) /\ Tail(u) = Tail(d) \o m
      BY Zenon, <2>2, <3>1, Handed
    <3>3. Tail(u) = v
      BY Zenon, <1>4, <1>6, <2>5, <3>2 DEF Rest
    <3>4. PICK n : n = Len(b) + 1
      OBVIOUS
    <3>5. n \in DOMAIN L /\ L[n] = Head(d) /\ Service!RemoveAt(L, n) = b \o v
      BY Zenon, <1>2, <2>3, <3>2, <3>3, <3>4, Without
    <3>6. Service!For(L[n], c) = {}
      <4>1. \A e \in 1 .. Beats : Addressee[Head(d)][e] # c
        BY Zenon, <3>1 DEF Hits
      <4>2. QED  BY <3>5, <4>1 DEF Service!For
    <3>7. step => n # 1
      BY <1>2, <3>4
    <3>8. n \in Service!Useless(c)
      BY Zenon, <2>1, <3>5, <3>6 DEF Service!Useless
    <3>9. n \in Service!Useless(c) \ (IF step THEN {1} ELSE {})
      BY <1>2, <3>7, <3>8
    <3>10. QED  BY Zenon, <2>1, <3>5, <3>9 DEF Service!Useful
  <2>6. QED  BY <2>4, <2>5
<1>9. r = IF step THEN Tail(b) ELSE b
  BY Zenon, <1>4 DEF Rest
<1>10. r \o v = IF step THEN Tail(b \o v) ELSE b \o v
  <2>1. step => Tail(b \o v) = Tail(b) \o v
    <3>1. step => b # <<>>
      BY Zenon, <1>2
    <3>2. b # <<>> => Tail(b \o v) = Tail(b) \o v
      BY <1>2, <1>7, Handed
    <3>3. QED  BY Zenon, <3>1, <3>2
  <2>2. CASE step
    BY Zenon, <1>9, <2>1, <2>2
  <2>3. CASE ~step
    BY Zenon, <1>9, <2>3
  <2>4. QED  BY <2>2, <2>3
<1>11. Coming(c)' = (IF step THEN Tail(b \o v) ELSE b \o v) \o o
  BY Zenon, <1>3, <1>4, <1>7, <1>10
<1>12. QED  BY Zenon, <1>1, <1>8, <1>11

\* A cycle is a step of the service.
LEMMA ServiceStep ==
    ASSUME IInv, NEW offer \in {{}} \cup {{l} : l \in Lines}, NEW taken, Cycle(offer, taken)
    PROVE  Service!Next
<1>1. offer \in SUBSET Lines
  OBVIOUS
<1>2. PICK receive, finish, take, lines :
          /\ receive = {c \in Cores : Sends(c, taken) # {}}
          /\ finish = {c \in Cores : BiuStep(c)}
          /\ take = One(IF Len(bcstQueue) < QueueDepth THEN offer ELSE {})
          /\ lines = [c \in Cores |-> Coming(c)]
  OBVIOUS
<1>3. \A c \in Cores :
          /\ biuQueue[c] # <<>> =>
                /\ lines[c] # <<>> /\ Head(lines[c]) = Head(biuQueue[c])
                /\ Service!Remaining(c) = Avail(c)
          /\ Sends(c, taken) # {} =>
                /\ biuQueue[c] # <<>> /\ Avail(c) # {}
                /\ Sends(c, taken) = {Service!First(Avail(c))}
                /\ Lowest(Sends(c, taken)) = Service!First(Avail(c))
          /\ BiuStep(c) => biuQueue[c] # <<>> /\ Avail(c) = {}
  BY <1>2, CoreSends
<1>4. receive \in SUBSET {c \in Cores : Service!Remaining(c) # {}}
  BY <1>2, <1>3
<1>5. finish \in SUBSET {c \in Cores : lines[c] # <<>> /\ Service!Remaining(c) = {}}
  BY <1>2, <1>3
<1>6. event' = [c \in Cores |->
          IF c \in receive THEN <<Head(lines[c]), Service!First(Service!Remaining(c))>> ELSE None]
  <2>1. event' = [c \in Cores |->
            IF Sends(c, taken) = {} THEN None
            ELSE <<Head(biuQueue[c]), Lowest(Sends(c, taken))>>]
    BY DEF Cycle
  <2>2. \A c \in Cores :
            (IF Sends(c, taken) = {} THEN None
             ELSE <<Head(biuQueue[c]), Lowest(Sends(c, taken))>>)
              = IF c \in receive THEN <<Head(lines[c]), Service!First(Service!Remaining(c))>> ELSE None
    BY <1>2, <1>3
  <2>3. QED  BY <2>1, <2>2
<1>7. bcastSent' = [c \in Cores |->
          IF c \in finish THEN {}
          ELSE bcastSent[c] \cup
                 (IF c \in receive THEN {Service!First(Service!Remaining(c))} ELSE {})]
  <2>1. bcastSent' = [c \in Cores |-> SentMask(c, taken)]
    BY DEF Cycle
  <2>2. \A c \in Cores :
            SentMask(c, taken)
              = IF c \in finish THEN {}
                ELSE bcastSent[c] \cup
                       (IF c \in receive THEN {Service!First(Service!Remaining(c))} ELSE {})
    BY <1>2, <1>3 DEF SentMask
  <2>3. QED  BY <2>1, <2>2
<1>8. take \in {<<>>} \cup {<<l>> : l \in Lines}
  <2>1. CASE (IF Len(bcstQueue) < QueueDepth THEN offer ELSE {}) = {}
    BY <1>2, <2>1 DEF One
  <2>2. CASE (IF Len(bcstQueue) < QueueDepth THEN offer ELSE {}) # {}
    <3>1. PICK l \in Lines : (IF Len(bcstQueue) < QueueDepth THEN offer ELSE {}) = {l}
      BY <2>2
    <3>2. take = <<l>>
      BY <1>2, <3>1 DEF One
    <3>3. QED  BY <3>2
  <2>3. QED  BY <2>1, <2>2
<1>9. \A c \in Cores : \E useful \in Service!Useful(c, c \in finish) :
          Coming(c)' = (IF c \in finish THEN Tail(useful) ELSE useful) \o take
  <2> SUFFICES ASSUME NEW c \in Cores
               PROVE  \E useful \in Service!Useful(c, c \in finish) :
                        Coming(c)' = (IF c \in finish THEN Tail(useful) ELSE useful) \o take
    OBVIOUS
  <2>1. (c \in finish) = BiuStep(c)
    BY <1>2 DEF BiuStep
  <2>2. QED  BY Zenon, <1>1, <1>2, <2>1, CoreTakes
<1>10. [c \in Cores |-> Coming(c)]' = [c \in Cores |-> [e \in Cores |-> Coming(e)]'[c]]
  OBVIOUS
<1>11. \E t \in {<<>>} \cup {<<l>> : l \in Lines} :
          \A c \in Cores : \E useful \in Service!Useful(c, c \in finish) :
              [e \in Cores |-> Coming(e)]'[c] = (IF c \in finish THEN Tail(useful) ELSE useful) \o t
  <2>1. \A c \in Cores : [e \in Cores |-> Coming(e)]'[c] = Coming(c)'
    OBVIOUS
  <2>2. \A c \in Cores : \E useful \in Service!Useful(c, c \in finish) :
            [e \in Cores |-> Coming(e)]'[c] = (IF c \in finish THEN Tail(useful) ELSE useful) \o take
    BY Zenon, <1>9, <2>1
  <2>3. QED  BY Zenon, <1>8, <2>2
<1>12. /\ finish \in SUBSET {c \in Cores : [e \in Cores |-> Coming(e)][c] # <<>> /\ Service!Remaining(c) = {}}
       /\ event' = [c \in Cores |->
              IF c \in receive
              THEN <<Head([e \in Cores |-> Coming(e)][c]), Service!First(Service!Remaining(c))>>
              ELSE None]
  BY Zenon, <1>2, <1>5, <1>6
<1>13. QED  BY Zenon, <1>4, <1>7, <1>10, <1>11, <1>12 DEF Service!Next

LEMMA ServiceInit == Init => Service!Init
<1> SUFFICES ASSUME Init PROVE Service!Init
  OBVIOUS
<1>1. ASSUME NEW c \in Cores
      PROVE  Coming(c) = <<>>
  <2>1. /\ biuQueue[c] = <<>> /\ bcstQueue = <<>> /\ bcstAccepted = {}
        /\ distQueue[Home[c]] = <<>> /\ distAccepted[Home[c]] = {}
    BY ScatterAssumption DEF Init
  <2>2. Coming(c) = (<<>> \o <<>>) \o <<>>
    BY <2>1 DEF Coming, Rest
  <2>3. <<>> \in Seq(Lines)
    OBVIOUS
  <2>4. QED  BY <2>2, <2>3, ConcatEmptySeq
<1>2. [c \in Cores |-> Coming(c)] = [c \in Cores |-> <<>>]
  BY <1>1
<1>3. QED  BY <1>2 DEF Init, Service!Init

----------------------------------------------------------------------------
(* A queue of the simulator: a ring of two cells *)

RingQueue ==
    [head : 0 .. 1, tail : 0 .. 1, maybeFull : BOOLEAN,
     data : [0 .. 1 -> {Line(l) : l \in Lines} \cup {None}]]

\* The queue holds the lines of s, oldest first.
Holding(q, s) ==
    /\ q \in RingQueue /\ s \in Seq(Lines) /\ Len(s) \in 0 .. QueueDepth
    /\ q.tail = IF Len(s) = 1 THEN 1 - q.head ELSE q.head
    /\ Len(s) = 0 => ~q.maybeFull
    /\ Len(s) = 2 => q.maybeFull /\ q.data[1 - q.head] = Line(s[2])
    /\ s # <<>> => q.data[q.head] = Line(s[1])

LEMMA TheOne == \A x : S!The({x}) = x
  BY DEF S!The

LEMMA TwoCells ==
    ASSUME NEW q \in RingQueue
    PROVE  S!Capacity(q) = 2 /\ q.head \in 0 .. 1 /\ q.tail \in 0 .. 1
<1>1. PICK n \in Nat : n = 1
  OBVIOUS
<1>2. Cardinality(0 .. n) = n + 1
  BY FS_Interval
<1>3. S!Cardinality(0 .. 1) = Cardinality(0 .. 1)
  BY DEF S!Cardinality, Cardinality
<1>4. DOMAIN q.data = 0 .. 1 /\ q.head \in 0 .. 1 /\ q.tail \in 0 .. 1
  BY DEF RingQueue
<1>5. QED  BY <1>1, <1>2, <1>3, <1>4 DEF S!Capacity

LEMMA ItemsHeld ==
    ASSUME NEW q, NEW s, Holding(q, s)
    PROVE  /\ DOMAIN S!QItems(q) = 1 .. Len(s)
           /\ \A i \in 1 .. Len(s) : S!QItems(q)[i] = Line(s[i])
           /\ S!QEmpty(q) <=> s = <<>>
           /\ S!QFull(q) <=> ~ (Len(s) < QueueDepth)
           /\ S!QFront(q) = IF s = <<>> THEN {} ELSE {Line(Head(s))}
<1>1. PICK n \in 0 .. 2 : n = Len(s)
  BY DEF Holding, QueueDepth
<1>2. /\ q \in RingQueue /\ s \in Seq(Lines)
      /\ q.tail = IF n = 1 THEN 1 - q.head ELSE q.head
      /\ n = 0 => ~q.maybeFull
      /\ n = 2 => q.maybeFull /\ q.data[1 - q.head] = Line(s[2])
      /\ s # <<>> => q.data[q.head] = Line(s[1])
  BY <1>1 DEF Holding
<1>3. (s = <<>> <=> n = 0) /\ (s # <<>> => Head(s) = s[1])
  BY <1>1, <1>2
<1>4. S!Capacity(q) = 2 /\ q.head \in 0 .. 1 /\ q.tail \in 0 .. 1
  BY <1>2, TwoCells
<1>5. S!QEmpty(q) <=> s = <<>>
  BY <1>2, <1>3, <1>4 DEF S!QEmpty
<1>6. S!QFull(q) <=> ~ (n < 2)
  BY <1>2, <1>4 DEF S!QFull
<1>7. S!QFront(q) = IF s = <<>> THEN {} ELSE {Line(Head(s))}
  BY <1>2, <1>3, <1>5 DEF S!QFront
<1>8. S!QSize(q) = n
  BY <1>2, <1>4 DEF S!QSize
<1>9. S!QItems(q) = [i \in 1 .. n |-> q.data[(q.head + i - 1) % 2]]
  BY <1>4, <1>8 DEF S!QItems
<1>10. ASSUME NEW i \in 1 .. n
       PROVE  q.data[(q.head + i - 1) % 2] = Line(s[i])
  <2>1. i = 1 \/ (i = 2 /\ n = 2)
    OBVIOUS
  <2>2. CASE i = 1
    <3>1. (q.head + i - 1) % 2 = q.head /\ s # <<>>
      BY <1>3, <1>4, <2>2
    <3>2. QED  BY <1>2, <2>2, <3>1
  <2>3. CASE i = 2 /\ n = 2
    <3>1. (q.head + i - 1) % 2 = 1 - q.head
      BY <1>4, <2>3
    <3>2. QED  BY <1>2, <2>3, <3>1
  <2>4. QED  BY <2>1, <2>2, <2>3
<1>11. QED  BY <1>1, <1>5, <1>6, <1>7, <1>9, <1>10 DEF QueueDepth

LEMMA PushHeld ==
    ASSUME NEW q, NEW s, Holding(q, s), Len(s) < QueueDepth, NEW l \in Lines
    PROVE  Holding(S!QPush(q, Line(l)), Append(s, l))
<1> DEFINE p == S!QPush(q, Line(l))
           h == q.head
           t == Append(s, l)
<1>1. PICK n \in 0 .. 1 : n = Len(s)
  BY DEF Holding, QueueDepth
<1>2. /\ q \in RingQueue /\ s \in Seq(Lines)
      /\ q.tail = IF n = 1 THEN 1 - h ELSE h
      /\ s # <<>> => q.data[h] = Line(s[1])
  BY <1>1 DEF Holding
<1>3. S!Capacity(q) = 2 /\ h \in 0 .. 1 /\ q.tail \in 0 .. 1 /\ ~S!QFull(q)
  BY <1>2, TwoCells, ItemsHeld
<1>4. S!Advance(q, q.tail) = 1 - q.tail
  BY <1>3 DEF S!Advance
<1>5. p = [head |-> h, tail |-> 1 - q.tail, maybeFull |-> TRUE,
           data |-> [q.data EXCEPT ![q.tail] = Line(l)]]
  BY <1>2, <1>3, <1>4 DEF S!QPush, RingQueue
<1>6. p \in RingQueue
  BY <1>2, <1>3, <1>5 DEF RingQueue
<1>7. p.head = h /\ p.tail = 1 - q.tail /\ p.maybeFull /\ p.data = [q.data EXCEPT ![q.tail] = Line(l)]
  BY <1>5
<1>8. DOMAIN q.data = 0 .. 1
  BY <1>2 DEF RingQueue
<1>9. /\ t \in Seq(Lines) /\ Len(t) = n + 1 /\ t # <<>>
      /\ t[n + 1] = l
      /\ n = 1 => t[1] = s[1] /\ s # <<>>
  BY <1>1, <1>2
<1> HIDE DEF p, h, t
<1>10. CASE n = 0
  <2>1. p.data[h] = Line(l)
    BY <1>2, <1>3, <1>7, <1>8, <1>10
  <2>2. p.tail = 1 - h /\ t[1] = l /\ Len(t) = 1
    BY <1>2, <1>7, <1>9, <1>10
  <2>3. Holding(p, t)
    BY <1>6, <1>7, <1>9, <2>1, <2>2 DEF Holding, QueueDepth
  <2>4. QED  BY <2>3 DEF p, t
<1>11. CASE n = 1
  <2>1. p.data[1 - h] = Line(l) /\ p.data[h] = Line(s[1])
    BY <1>2, <1>3, <1>7, <1>8, <1>9, <1>11
  <2>2. p.tail = h /\ t[2] = l /\ t[1] = s[1] /\ Len(t) = 2
    BY <1>2, <1>3, <1>7, <1>9, <1>11
  <2>3. PICK m \in 0 .. 2 : m = Len(t) /\ m = 2
    BY <2>2
  <2>4. p.data[1 - p.head] = Line(t[2]) /\ p.data[p.head] = Line(t[1]) /\ p.tail = p.head
    BY <1>7, <2>1, <2>2
  <2>5. Holding(p, t)
    BY <1>6, <1>7, <1>9, <2>3, <2>4 DEF Holding, QueueDepth
  <2>6. QED  BY <2>5 DEF p, t
<1>12. QED  BY <1>10, <1>11

LEMMA PopHeld ==
    ASSUME NEW q, NEW s, Holding(q, s), s # <<>>
    PROVE  Holding(S!QPop(q), Tail(s))
<1> DEFINE p == S!QPop(q)
           h == q.head
           t == Tail(s)
<1>1. PICK n \in 1 .. 2 : n = Len(s)
  <2>1. s \in Seq(Lines) /\ Len(s) \in 0 .. 2
    BY DEF Holding, QueueDepth
  <2>2. Len(s) # 0
    BY <2>1
  <2>3. QED  BY <2>1, <2>2
<1>2. /\ q \in RingQueue /\ s \in Seq(Lines)
      /\ q.tail = IF n = 1 THEN 1 - h ELSE h
      /\ n = 2 => q.data[1 - h] = Line(s[2])
  BY <1>1 DEF Holding
<1>3. S!Capacity(q) = 2 /\ h \in 0 .. 1 /\ q.tail \in 0 .. 1 /\ ~S!QEmpty(q)
  BY <1>2, TwoCells, ItemsHeld
<1>4. S!Advance(q, q.head) = 1 - h
  BY <1>3 DEF S!Advance
<1>5. p = [head |-> 1 - h, tail |-> q.tail, maybeFull |-> FALSE,
           data |-> [q.data EXCEPT ![h] = None]]
  BY <1>2, <1>3, <1>4 DEF S!QPop, RingQueue
<1>6. p \in RingQueue
  BY <1>2, <1>3, <1>5 DEF RingQueue
<1>7. p.head = 1 - h /\ p.tail = q.tail /\ ~p.maybeFull /\ p.data = [q.data EXCEPT ![h] = None]
  BY <1>5
<1>8. DOMAIN q.data = 0 .. 1
  BY <1>2 DEF RingQueue
<1>9. /\ t \in Seq(Lines) /\ Len(t) = n - 1
      /\ n = 2 => t[1] = s[2]
      /\ t = <<>> <=> n = 1
  BY <1>1, <1>2
<1> HIDE DEF p, h, t
<1>10. CASE n = 1
  <2>1. p.tail = p.head /\ t = <<>> /\ Len(t) = 0
    BY <1>2, <1>3, <1>7, <1>9, <1>10
  <2>2. Holding(p, t)
    BY <1>6, <1>7, <1>9, <2>1 DEF Holding, QueueDepth
  <2>3. QED  BY <2>2 DEF p, t
<1>11. CASE n = 2
  <2>1. p.data[1 - h] = Line(s[2])
    BY <1>2, <1>3, <1>7, <1>8, <1>11
  <2>2. p.tail = 1 - p.head /\ Len(t) = 1
    BY <1>2, <1>3, <1>7, <1>9, <1>11
  <2>3. Holding(p, t)
    BY <1>6, <1>7, <1>9, <1>11, <2>1, <2>2 DEF Holding, QueueDepth
  <2>4. QED  BY <2>3 DEF p, t
<1>12. QED  BY <1>10, <1>11

\* The cell operations of a cycle do what Shift does.
Shifted(q, leaves, F) ==
    LET rest == IF leaves THEN S!QPop(q) ELSE q
    IN  IF F = {} THEN rest ELSE S!QPush(rest, Line(CHOOSE l \in F : TRUE))

LEMMA ShiftHeld ==
    ASSUME NEW q, NEW s, Holding(q, s), NEW leaves \in BOOLEAN, leaves => s # <<>>,
           NEW F \in SUBSET Lines, F # {} => Len(s) < QueueDepth
    PROVE  Holding(Shifted(q, leaves, F), Shift(s, leaves, F))
<1> DEFINE p == IF leaves THEN S!QPop(q) ELSE q
           rest == IF leaves THEN Tail(s) ELSE s
           l == CHOOSE x \in F : TRUE
<1>1. Holding(p, rest)
  BY PopHeld
<1>2. F # {} => Len(rest) < QueueDepth
  BY DEF Holding, QueueDepth
<1>3. F # {} => l \in Lines
  OBVIOUS
<1>4. /\ Shifted(q, leaves, F) = IF F = {} THEN p ELSE S!QPush(p, Line(l))
      /\ Shift(s, leaves, F) = IF F = {} THEN rest ELSE Append(rest, l)
  BY DEF Shifted, Shift
<1> HIDE DEF p, rest, l
<1>5. QED  BY <1>1, <1>2, <1>3, <1>4, PushHeld

----------------------------------------------------------------------------
(* Numbers of distributors and of cores *)

Dists == 0 .. Cardinality(Clusters) - 1

LEMMA Numbers ==
    /\ \A k \in Clusters : Number(k) \in Dists
    /\ \A d \in Dists : \E k \in Clusters : Number(k) = d
    /\ \A k, m \in Clusters : Number(k) = Number(m) => k = m
  BY PUAssumption DEF Dists

LEMMA Lanes ==
    ASSUME NEW c \in Cores
    PROVE  /\ Home[c] \in Clusters
           /\ Lane(c) \in 0 .. Width - 1
           /\ Min(PUs) + Number(Home[c]) * Width + Lane(c) = PU[c]
           /\ (PU[c] - Min(PUs)) \div Width = Number(Home[c])
<1> DEFINE W == Width
           n == Number(Home[c])
           a == PU[c] - Min(PUs)
<1>1. Home[c] \in Clusters
  BY ScatterAssumption
<1>2. W \in Nat \ {0} /\ a \in Int /\ W * n <= a /\ a < W * (n + 1) /\ PU[c] \in Nat /\ Min(PUs) \in Nat
  BY PUAssumption
<1>3. n \in Int
  BY <1>1, Numbers, FS_CardinalityType, PUAssumption DEF Dists
<1> HIDE DEF W, n
<1>4. a \div W = n /\ a % W = a - W * n /\ a % W \in 0 .. W - 1
  <2> HIDE DEF a
  <2>1. QED  BY <1>2, <1>3, InRange
<1>5. Lane(c) = a % W
  BY DEF Lane, W
<1>6. W * n = n * W /\ W * n \in Int
  BY <1>2, <1>3
<1>7. Min(PUs) + n * W + Lane(c) = PU[c]
  BY <1>2, <1>4, <1>5, <1>6
<1>8. QED  BY <1>1, <1>4, <1>5, <1>7 DEF W, n

LEMMA SameLane ==
    ASSUME NEW c \in Cores, NEW d \in Cores, Home[c] = Home[d], Lane(c) = Lane(d)
    PROVE  c = d
<1>1. PU[c] = PU[d]
  BY Lanes
<1>2. QED  BY <1>1, PUAssumption

\* A distributor presents a line on the lanes of its cores that the line is for.
LEMMA LineLanes ==
    ASSUME NEW k \in Clusters, NEW l \in Lines, NEW x
    PROVE  x \in S!BcastValidsMask(Line(l), Min(PUs) + Number(k) * Width)
              <=> \E c \in Hits(k, l) : x = Lane(c)
<1> DEFINE start == Min(PUs) + Number(k) * Width
<1>1. x \in S!BcastValidsMask(Line(l), start)
         <=> x \in 0 .. Width - 1 /\ \E b \in 1 .. Beats : start + x = PU[Addressee[l][b]]
  BY DEF S!BcastValidsMask, Line, BeatsOf
<1>2. \A b \in 1 .. Beats : Addressee[l][b] \in Cores
  BY ScatterAssumption
<1>3. ASSUME NEW c \in Hits(k, l), x = Lane(c)
      PROVE  x \in S!BcastValidsMask(Line(l), start)
  <2>1. c \in Cores /\ Home[c] = k
    BY DEF Hits
  <2>2. PICK b \in 1 .. Beats : Addressee[l][b] = c
    BY DEF Hits
  <2>3. start + x = PU[Addressee[l][b]] /\ x \in 0 .. Width - 1
    BY <1>3, <2>1, <2>2, Lanes
  <2> HIDE DEF start
  <2>4. QED  BY <1>1, <2>3
<1>4. ASSUME x \in S!BcastValidsMask(Line(l), start)
      PROVE  \E c \in Hits(k, l) : x = Lane(c)
  <2>1. PICK b \in 1 .. Beats : start + x = PU[Addressee[l][b]]
    BY <1>1, <1>4
  <2>2. PICK c \in Cores : c = Addressee[l][b]
    BY <1>2
  <2>3. start + x = PU[c] /\ x \in 0 .. Width - 1
    BY <1>1, <1>4, <2>1, <2>2
  <2> DEFINE W == Width
             n == Number(k)
             a == PU[c] - Min(PUs)
  <2>4. W \in Nat \ {0} /\ n \in Int /\ Min(PUs) \in Int /\ PU[c] \in Int
    BY Numbers, FS_CardinalityType, PUAssumption DEF Dists
  <2>5. a = n * W + x /\ x \in 0 .. W - 1 /\ a \in Int
    <3>1. n * W \in Int
      BY <2>4
    <3>2. QED  BY <2>3, <2>4, <3>1
  <2>6. (PU[c] - Min(PUs)) \div Width = Number(Home[c])
    BY Lanes
  <2>7. a \div W = Number(Home[c])
    BY <2>6
  <2> HIDE DEF W, n, a, start
  <2>8. n * W = W * n /\ W * (n + 1) = W * n + W /\ W * n \in Int
    BY <2>4
  <2>9. W * n <= a /\ a < W * (n + 1)
    BY <2>4, <2>5, <2>8
  <2>10. a \div W = n
    BY <2>4, <2>5, <2>9, InRange
  <2>11. Home[c] = k
    BY <2>7, <2>10, Lanes, Numbers DEF n
  <2>12. c \in Hits(k, l)
    BY <2>2, <2>11 DEF Hits
  <2>13. Min(PUs) + Number(k) * Width + Lane(c) = PU[c] /\ Lane(c) \in Int
    BY <2>11, Lanes
  <2>14. x = Lane(c)
    <3>1. PICK m \in Int : m = Number(k) * Width
      BY <2>4 DEF W, n
    <3>2. Min(PUs) + m + x = PU[c] /\ x \in Int
      BY <2>3, <3>1 DEF start
    <3>3. Min(PUs) + m + Lane(c) = PU[c]
      BY <2>13, <3>1
    <3>4. QED  BY <2>4, <2>13, <3>2, <3>3
  <2>15. QED  BY <2>12, <2>14
<1>5. QED  BY <1>3, <1>4

----------------------------------------------------------------------------
(* The simulator in lockstep *)

\* Its queues hold the hardware's lines, its masks name the same receivers.
Mirror ==
    /\ Holding(soft.egress, bcstQueue)
    /\ DOMAIN soft.queues = Dists
    /\ soft.distAccepted \subseteq Dists
    /\ \A k \in Clusters :
          /\ Number(k) \in soft.distAccepted <=> k \in bcstAccepted
          /\ Holding(soft.queues[Number(k)], distQueue[k])
          /\ \A x : x \in soft.puAccepted[Number(k)] <=> \E c \in distAccepted[k] : x = Lane(c)

CosimInv == IInv /\ Mirror

Start(k) == Min(PUs) + Number(k) * Width

\* The lanes that a distributor presents its first line on, and those that
\* take it, are those of the cores that the hardware's does.
LEMMA SamePresented ==
    ASSUME CosimInv, NEW k \in Clusters, NEW c \in Cores, Home[c] = k
    PROVE  /\ Lane(c) \in S!Presented(soft, Number(k), Start(k)) <=> c \in DistValids(k)
           /\ Lane(c) \in SoftMasks[Number(k)] <=> c \in DistAccept(k)
<1> DEFINE d == Number(k)
           q == soft.queues[d]
<1>1. /\ d \in Dists /\ DOMAIN soft.queues = Dists
      /\ Holding(q, distQueue[k])
      /\ \A x : x \in soft.puAccepted[d] <=> \E e \in distAccepted[k] : x = Lane(e)
      /\ distQueue[k] \in Seq(Lines)
      /\ distAccepted[k] \subseteq (IF distQueue[k] = <<>> THEN {} ELSE Hits(k, Head(distQueue[k])))
  BY Numbers DEF CosimInv, Mirror, IInv, MasksMatch, TypeOK
<1>2. \A l : \A e \in Hits(k, l) : e \in Cores /\ Home[e] = k
  BY DEF Hits
<1>3. Lane(c) \in soft.puAccepted[d] <=> c \in distAccepted[k]
  BY <1>1, <1>2, SameLane
<1>4. S!QFront(q) = IF distQueue[k] = <<>> THEN {} ELSE {Line(Head(distQueue[k]))}
  BY <1>1, ItemsHeld
<1>5. Lane(c) \in S!Presented(soft, d, Start(k))
         <=> /\ \E bl \in S!QFront(q) : Lane(c) \in S!BcastValidsMask(bl, Start(k))
             /\ Lane(c) \notin soft.puAccepted[d]
  BY DEF S!Presented
<1>6. distQueue[k] # <<>> =>
         (Lane(c) \in S!BcastValidsMask(Line(Head(distQueue[k])), Start(k))
             <=> c \in Hits(k, Head(distQueue[k])))
  <2>1. distQueue[k] # <<>> => Head(distQueue[k]) \in Lines
    BY <1>1
  <2>2. QED  BY <1>2, <2>1, LineLanes, SameLane DEF Start
<1>7. Lane(c) \in S!Presented(soft, d, Start(k)) <=> c \in DistValids(k)
  BY <1>3, <1>4, <1>5, <1>6 DEF DistValids
<1>8. Lane(c) \in SoftMasks[d]
         <=> /\ \E e \in Readies : Number(Home[e]) = d /\ Lane(c) = Lane(e)
             /\ Lane(c) \in S!Presented(soft, d, Start(k))
  BY <1>1 DEF SoftMasks, Start
<1>9. (\E e \in Readies : Number(Home[e]) = d /\ Lane(c) = Lane(e)) <=> c \in Readies
  <2>1. \A e \in Readies : e \in Cores /\ Home[e] \in Clusters
    BY ScatterAssumption DEF Readies
  <2>2. QED  BY <2>1, Numbers, SameLane
<1>10. QED  BY <1>7, <1>8, <1>9 DEF DistAccept

\* A distributor's step is the hardware's.
LEMMA SameDistStep ==
    ASSUME CosimInv, NEW k \in Clusters
    PROVE  LET next == S!DistStep(soft, Number(k), Start(k), SoftMasks[Number(k)])
           IN  /\ next.queue = IF DistStep(k) THEN S!QPop(soft.queues[Number(k)])
                               ELSE soft.queues[Number(k)]
               /\ \A x : x \in next.puAccepted <=> \E c \in DistMask(k) : x = Lane(c)
<1> DEFINE d == Number(k)
           q == soft.queues[d]
           taken == soft.puAccepted[d] \cup SoftMasks[d]
           done == \E bl \in S!QFront(q) : S!BcastValidsMask(bl, Start(k)) \subseteq taken
           next == S!DistStep(soft, d, Start(k), SoftMasks[d])
<1>1. /\ d \in Dists /\ DOMAIN soft.queues = Dists
      /\ Holding(q, distQueue[k])
      /\ \A x : x \in soft.puAccepted[d] <=> \E e \in distAccepted[k] : x = Lane(e)
      /\ distQueue[k] \in Seq(Lines)
      /\ distAccepted[k] \subseteq (IF distQueue[k] = <<>> THEN {} ELSE Hits(k, Head(distQueue[k])))
  BY Numbers DEF CosimInv, Mirror, IInv, MasksMatch, TypeOK
<1>2. \A l : \A e \in Hits(k, l) : e \in Cores /\ Home[e] = k
  BY DEF Hits
<1>3. S!QFront(q) = IF distQueue[k] = <<>> THEN {} ELSE {Line(Head(distQueue[k]))}
  BY <1>1, ItemsHeld
<1>4. \A x : x \in SoftMasks[d] <=> \E c \in DistAccept(k) : x = Lane(c)
  <2>1. \A x : x \in SoftMasks[d] => \E e \in Readies : Number(Home[e]) = d /\ x = Lane(e)
    BY <1>1 DEF SoftMasks
  <2>2. \A e \in Readies : e \in Cores /\ Home[e] \in Clusters
    BY ScatterAssumption DEF Readies
  <2>3. \A c \in DistAccept(k) : c \in Cores /\ Home[c] = k
    BY <1>2 DEF DistAccept, DistValids
  <2>4. QED  BY <2>1, <2>2, <2>3, Numbers, SamePresented
<1>5. \A x : x \in taken <=> \E c \in distAccepted[k] \cup DistAccept(k) : x = Lane(c)
  BY <1>1, <1>4
<1>6. done <=> DistStep(k)
  <2>1. CASE distQueue[k] = <<>>
    BY <1>3, <2>1 DEF DistStep
  <2>2. CASE distQueue[k] # <<>>
    <3> DEFINE l == Head(distQueue[k])
    <3>1. l \in Lines
      BY <1>1, <2>2
    <3>2. done <=> S!BcastValidsMask(Line(l), Start(k)) \subseteq taken
      BY <1>3, <2>2
    <3> HIDE DEF done, taken, l
    <3>3. \A x : x \in S!BcastValidsMask(Line(l), Start(k)) <=> \E c \in Hits(k, l) : x = Lane(c)
      BY <3>1, LineLanes DEF Start
    <3>4. \A c \in distAccepted[k] \cup DistAccept(k) : c \in Hits(k, l)
      BY <1>1, <2>2 DEF DistAccept, DistValids, l
    <3>5. S!BcastValidsMask(Line(l), Start(k)) \subseteq taken
             <=> Hits(k, l) \subseteq distAccepted[k] \cup DistAccept(k)
      BY <1>2, <1>5, <3>3, <3>4, SameLane
    <3>6. DistStep(k) <=> Hits(k, l) \subseteq distAccepted[k] \cup DistAccept(k)
      BY <2>2 DEF DistStep, DistAccept, DistValids, l
    <3>7. QED  BY <3>2, <3>5, <3>6
  <2>3. QED  BY <2>1, <2>2
<1>7. /\ next.queue = IF done THEN S!QPop(q) ELSE q
      /\ next.puAccepted = IF done THEN {} ELSE taken
  BY DEF S!DistStep
<1> HIDE DEF done, taken, next, q
<1>8. \A x : x \in next.puAccepted <=> \E c \in DistMask(k) : x = Lane(c)
  BY <1>5, <1>6, <1>7 DEF DistMask
<1>9. QED  BY <1>6, <1>7, <1>8 DEF next, q

\* The central queue hands its first line to the same distributors, and lets
\* it go in the same cycle.
LEMMA SamePush ==
    ASSUME CosimInv
    PROVE  /\ S!CentralPush(soft) \subseteq Dists
           /\ \A k \in Clusters : Number(k) \in S!CentralPush(soft) <=> k \in BcstAccept
           /\ (~S!QEmpty(soft.egress) /\ soft.distAccepted \cup S!CentralPush(soft) = DOMAIN soft.queues)
                 <=> bcstQueue # <<>> /\ BcstStep
<1>1. /\ Holding(soft.egress, bcstQueue) /\ DOMAIN soft.queues = Dists
      /\ soft.distAccepted \subseteq Dists
      /\ \A k \in Clusters : /\ Number(k) \in soft.distAccepted <=> k \in bcstAccepted
                             /\ Holding(soft.queues[Number(k)], distQueue[k])
      /\ bcstAccepted \subseteq Clusters
  BY DEF CosimInv, Mirror, IInv, TypeOK
<1>2. S!QEmpty(soft.egress) <=> bcstQueue = <<>>
  BY <1>1, ItemsHeld
<1>3. \A k \in Clusters : S!QFull(soft.queues[Number(k)]) <=> ~ (Len(distQueue[k]) < QueueDepth)
  BY <1>1, ItemsHeld
<1>4. S!CentralPush(soft) \subseteq Dists
  BY <1>1 DEF S!CentralPush
<1>5. \A k \in Clusters : Number(k) \in S!CentralPush(soft) <=> k \in BcstAccept
  BY <1>1, <1>2, <1>3, Numbers DEF S!CentralPush, BcstAccept
<1>6. (soft.distAccepted \cup S!CentralPush(soft) = Dists) <=> BcstStep
  <2>1. BcstStep <=> \A k \in Clusters : k \in bcstAccepted \cup BcstAccept
    BY <1>1 DEF BcstStep, BcstAccept
  <2>2. (soft.distAccepted \cup S!CentralPush(soft) = Dists)
           <=> \A d \in Dists : d \in soft.distAccepted \cup S!CentralPush(soft)
    BY <1>1, <1>4
  <2>3. QED  BY <1>1, <1>5, <2>1, <2>2, Numbers
<1>7. QED  BY <1>1, <1>2, <1>4, <1>5, <1>6

LEMMA CentralHeld ==
    ASSUME CosimInv
    PROVE  /\ S!QFull(soft.egress) <=> ~ (Len(bcstQueue) < QueueDepth)
           /\ S!QFront(soft.egress) = IF bcstQueue = <<>> THEN {} ELSE {Line(Head(bcstQueue))}
<1>1. Holding(soft.egress, bcstQueue)
  BY DEF CosimInv, Mirror
<1>2. S!QFull(soft.egress) <=> ~ (Len(bcstQueue) < QueueDepth)
  BY <1>1, ItemsHeld
<1>3. S!QFront(soft.egress) = IF bcstQueue = <<>> THEN {} ELSE {Line(Head(bcstQueue))}
  BY <1>1, ItemsHeld
<1>4. QED  BY <1>2, <1>3

LEMMA CycleMirrors ==
    ASSUME CosimInv, NEW offer, offer = {} \/ \E l \in Lines : offer = {l}, NEW taken,
           Both(offer, taken)
    PROVE  Mirror'
<1> DEFINE push == S!CentralPush(soft)
           pop == ~S!QEmpty(soft.egress) /\ soft.distAccepted \cup push = DOMAIN soft.queues
           line == IF S!QFull(soft.egress) THEN {} ELSE {Line(l) : l \in offer}
           enters == IF Len(bcstQueue) < QueueDepth THEN offer ELSE {}
           rest == IF pop THEN S!QPop(soft.egress) ELSE soft.egress
           dist(d) == S!DistStep(soft, d, Min(PUs) + d * Width, SoftMasks[d])
           next == S!BcstStep(soft, Min(PUs), SoftMasks, line)
<1>1. /\ Holding(soft.egress, bcstQueue) /\ DOMAIN soft.queues = Dists
      /\ soft.distAccepted \subseteq Dists
      /\ \A k \in Clusters : /\ Number(k) \in soft.distAccepted <=> k \in bcstAccepted
                             /\ Holding(soft.queues[Number(k)], distQueue[k])
      /\ bcstAccepted \subseteq Clusters /\ bcstQueue \in Seq(Lines) /\ IInv
  BY DEF CosimInv, Mirror, IInv, TypeOK
<1>2. Cycle(offer, taken) /\ soft' = next
  BY DEF Both, SoftCycle
<1>3. /\ next.egress = IF line = {} THEN rest ELSE S!QPush(rest, S!The(line))
      /\ next.distAccepted = IF pop THEN {} ELSE soft.distAccepted \cup push
      /\ DOMAIN next.queues = DOMAIN soft.queues
      /\ \A d \in DOMAIN soft.queues :
            /\ next.queues[d] = IF d \in push
                                THEN S!QPush(dist(d).queue, S!The(S!QFront(soft.egress)))
                                ELSE dist(d).queue
            /\ next.puAccepted[d] = dist(d).puAccepted
  BY DEF S!BcstStep
<1>4. /\ push \subseteq Dists /\ \A k \in Clusters : Number(k) \in push <=> k \in BcstAccept
      /\ pop <=> bcstQueue # <<>> /\ BcstStep
  BY SamePush
<1>5. /\ S!QFull(soft.egress) <=> ~ (Len(bcstQueue) < QueueDepth)
      /\ S!QFront(soft.egress) = IF bcstQueue = <<>> THEN {} ELSE {Line(Head(bcstQueue))}
  BY CentralHeld
<1>6. /\ enters \in SUBSET Lines /\ (enters # {} => Len(bcstQueue) < QueueDepth)
      /\ (line = {} <=> enters = {})
      /\ (enters # {} => S!The(line) = Line(CHOOSE l \in enters : TRUE))
  <2>1. CASE offer = {} \/ ~ (Len(bcstQueue) < QueueDepth)
    BY <1>5, <2>1
  <2>2. CASE offer # {} /\ Len(bcstQueue) < QueueDepth
    <3>1. PICK l \in Lines : offer = {l}
      BY <2>2
    <3>2. line = {Line(l)} /\ enters = {l}
      BY <1>5, <2>2, <3>1
    <3> HIDE DEF line, enters
    <3>3. S!The(line) = Line(l) /\ (CHOOSE x \in enters : TRUE) = l
      BY <3>2, TheOne
    <3>4. QED  BY <2>2, <3>1, <3>2, <3>3
  <2>3. QED  BY <2>1, <2>2
<1> HIDE DEF push, pop, line, enters, next
<1>7. Holding(next.egress, bcstQueue')
  <2>1. bcstQueue' = Shift(bcstQueue, bcstQueue # <<>> /\ BcstStep, enters)
    BY <1>2 DEF Cycle, enters
  <2>2. next.egress = Shifted(soft.egress, bcstQueue # <<>> /\ BcstStep, enters)
    BY <1>3, <1>4, <1>6 DEF Shifted
  <2>3. QED  BY <1>1, <1>6, <2>1, <2>2, ShiftHeld
<1>8. \A k \in Clusters : Number(k) \in next.distAccepted <=> k \in bcstAccepted'
  <2>1. bcstAccepted' = BcstMask
    BY <1>2 DEF Cycle
  <2>2. (~pop /\ BcstStep) => \A k \in Clusters : k \notin BcstAccept /\ k \notin bcstAccepted
    BY <1>1, <1>4 DEF BcstAccept, IInv, MasksMatch
  <2>3. QED  BY <1>1, <1>3, <1>4, <2>1, <2>2 DEF BcstMask
<1>9. ASSUME NEW k \in Clusters
      PROVE  /\ Holding(next.queues[Number(k)], distQueue'[k])
             /\ \A x : x \in next.puAccepted[Number(k)] <=> \E c \in distAccepted'[k] : x = Lane(c)
  <2> DEFINE d == Number(k)
             q == soft.queues[d]
             step == S!DistStep(soft, d, Start(k), SoftMasks[d])
  <2>1. /\ step.queue = IF DistStep(k) THEN S!QPop(q) ELSE q
        /\ \A x : x \in step.puAccepted <=> \E c \in DistMask(k) : x = Lane(c)
    BY SameDistStep
  <2>2. dist(d) = step
    BY DEF Start
  <2> HIDE DEF step, dist, q
  <2>3. d \in DOMAIN soft.queues
    BY <1>1, Numbers
  <2>4. /\ next.queues[d] = IF d \in push THEN S!QPush(step.queue, S!The(S!QFront(soft.egress)))
                            ELSE step.queue
        /\ next.puAccepted[d] = step.puAccepted
    BY <1>3, <2>2, <2>3
  <2>5. distQueue'[k] = Shift(distQueue[k], DistStep(k), FirstTo(k)) /\ distAccepted'[k] = DistMask(k)
    BY <1>2 DEF Cycle
  <2>6. /\ FirstTo(k) \in SUBSET Lines
        /\ DistStep(k) \in BOOLEAN /\ (DistStep(k) => distQueue[k] # <<>>)
        /\ d \in push <=> FirstTo(k) # {}
        /\ FirstTo(k) # {} => /\ Len(distQueue[k]) < QueueDepth
                              /\ FirstTo(k) = {Head(bcstQueue)} /\ bcstQueue # <<>>
    BY <1>1, <1>4, Enters DEF DistStep, FirstTo, BcstAccept
  <2>7. FirstTo(k) # {} => S!The(S!QFront(soft.egress)) = Line(CHOOSE l \in FirstTo(k) : TRUE)
    BY <1>5, <2>6, TheOne
  <2>8. next.queues[d] = Shifted(q, DistStep(k), FirstTo(k))
    BY <2>1, <2>4, <2>6, <2>7 DEF Shifted
  <2>9. Holding(q, distQueue[k])
    BY <1>1 DEF q
  <2>10. Holding(next.queues[d], distQueue'[k])
    BY <2>5, <2>6, <2>8, <2>9, ShiftHeld
  <2>11. QED  BY <2>1, <2>4, <2>5, <2>10
<1>10. DOMAIN next.queues = Dists /\ next.distAccepted \subseteq Dists
  BY <1>1, <1>3, <1>4
<1>11. QED  BY <1>2, <1>7, <1>8, <1>9, <1>10 DEF Mirror

LEMMA InitMirrors == CosimInit => CosimInv
<1> SUFFICES ASSUME CosimInit PROVE CosimInv
  OBVIOUS
<1> DEFINE empty == S!FixedLenQueue(2)
<1>1. Init /\ soft = S!NewBcst(Cardinality(Clusters))
  BY DEF CosimInit
<1>2. empty \in RingQueue /\ empty.head = 0 /\ empty.tail = 0 /\ ~empty.maybeFull
  BY DEF S!FixedLenQueue, RingQueue
<1>3. Holding(empty, <<>>)
  <2> HIDE DEF empty
  <2>1. QED  BY <1>2 DEF Holding, QueueDepth
<1>4. /\ soft.egress = empty /\ soft.distAccepted = {} /\ DOMAIN soft.queues = Dists
      /\ \A d \in Dists : soft.queues[d] = empty /\ soft.puAccepted[d] = {}
  BY <1>1 DEF S!NewBcst, Dists
<1> HIDE DEF empty
<1>5. /\ bcstQueue = <<>> /\ bcstAccepted = {}
      /\ \A k \in Clusters : distQueue[k] = <<>> /\ distAccepted[k] = {}
  BY <1>1 DEF Init
<1>6. Mirror
  BY <1>3, <1>4, <1>5, Numbers DEF Mirror
<1>7. QED  BY <1>1, <1>6, InitMasks DEF CosimInv

LEMMA NextMirrors == CosimInv /\ [CosimNext]_cosimVars => CosimInv'
<1>1. ASSUME CosimInv, CosimNext
      PROVE  CosimInv'
  <2>1. PICK offer \in Offers, taken \in SUBSET {c \in Cores : Avail(c) # {}} : Both(offer, taken)
    BY <1>1 DEF CosimNext
  <2>2. offer = {} \/ \E l \in Lines : offer = {l}
    BY DEF Offers
  <2>3. IInv' /\ Mirror'
    BY <1>1, <2>1, <2>2, CycleMasks, CycleMirrors DEF CosimInv, Both
  <2>4. QED  BY <2>3 DEF CosimInv
<1>2. ASSUME CosimInv, UNCHANGED cosimVars
      PROVE  CosimInv'
  BY <1>2 DEF CosimInv, IInv, TypeOK, MasksMatch, Mirror, cosimVars, vars
<1>3. QED  BY <1>1, <1>2

----------------------------------------------------------------------------
(* What the run checks *)

\* In each stage of the scatter path the mask of receivers that have the line
\* is about the line at the head of its queue, for whatever lines are offered
\* and however long each core takes.
THEOREM MasksAreOfHead == Spec => []MasksMatch
<1>1. IInv => MasksMatch
  BY DEF IInv
<1>2. QED  BY <1>1, NextMasks, InitMasks, PTL DEF Spec

\* The scatter path implements the service: every entry of a broadcast line
\* reaches its core once, in the order of the lines and of their entries,
\* whatever lines are offered and however the distributors, the cores and
\* their event queues get ahead of each other.
THEOREM ScatterDelivers == Spec => ImplementsService
<1>1. IInv /\ [Next]_vars
        => [Service!Next]_<<[c \in Cores |-> Coming(c)], bcastSent, event>>
  <2>1. ASSUME IInv, Next
        PROVE  Service!Next
    <3>1. PICK offer \in {{}} \cup {{l} : l \in Lines \ UnderWay},
               taken \in SUBSET {c \in Cores : Avail(c) # {}} : Cycle(offer, taken)
      BY <2>1 DEF Next
    <3>2. offer \in {{}} \cup {{l} : l \in Lines}
      OBVIOUS
    <3>3. QED  BY <2>1, <3>1, <3>2, ServiceStep
  <2>2. UNCHANGED vars => UNCHANGED <<[c \in Cores |-> Coming(c)], bcastSent, event>>
    BY DEF vars, Coming
  <2>3. QED  BY <2>1, <2>2
<1>2. QED  BY <1>1, NextMasks, InitMasks, ServiceInit, PTL DEF Spec, ImplementsService, Service!Spec

\* The simulator's central queue and distributors hold the same lines and
\* name the same receivers as the hardware's after every cycle.
THEOREM SimulatorAgrees == CosimSpec => []DistributorsAgree
<1>1. CosimInv => DistributorsAgree
  <2> SUFFICES ASSUME CosimInv PROVE DistributorsAgree
    OBVIOUS
  <2> DEFINE lines(q) == [i \in DOMAIN S!QItems(q) |-> S!QItems(q)[i].line]
  <2>1. IInv /\ Mirror
    BY DEF CosimInv
  <2>2. ASSUME NEW q, NEW s, Holding(q, s)
        PROVE  lines(q) = s
    <3> DEFINE items == S!QItems(q)
    <3>1. DOMAIN items = 1 .. Len(s)
      BY <2>2, ItemsHeld
    <3>2. \A i \in 1 .. Len(s) : items[i] = Line(s[i])
      BY <2>2, ItemsHeld
    <3>3. s \in Seq(Lines)
      BY <2>2 DEF Holding
    <3> HIDE DEF items
    <3>4. \A l : Line(l).line = l
      BY DEF Line
    <3>5. \A i \in 1 .. Len(s) : items[i].line = s[i]
      BY <3>2, <3>4
    <3>6. [i \in DOMAIN items |-> items[i].line] = [i \in 1 .. Len(s) |-> s[i]]
      BY <3>1, <3>5
    <3>7. QED  BY <3>3, <3>6 DEF items
  <2>3. soft.distAccepted = {Number(k) : k \in bcstAccepted}
    <3>1. bcstAccepted \subseteq Clusters
      BY <2>1 DEF IInv, TypeOK
    <3>2. QED  BY <2>1, <3>1, Numbers DEF Mirror
  <2>4. \A k \in Clusters : soft.puAccepted[Number(k)] = {Lane(c) : c \in distAccepted[k]}
    BY <2>1 DEF Mirror
  <2>5. /\ lines(soft.egress) = bcstQueue
        /\ \A k \in Clusters : lines(soft.queues[Number(k)]) = distQueue[k]
    <3> HIDE DEF lines
    <3>1. QED  BY <2>1, <2>2 DEF Mirror
  <2>6. MasksMatch
    BY <2>1 DEF IInv
  <2>7. QED  BY <2>3, <2>4, <2>5, <2>6 DEF DistributorsAgree
<1>2. QED  BY <1>1, InitMirrors, NextMirrors, PTL DEF CosimSpec

=============================================================================
