----------------------------- MODULE FeedProofs -----------------------------
(***************************************************************************)
(* Proofs about the two jobs of the cron: what EcosystemFeed says of       *)
(* events that are posted twice and of the backlog, and what DailyDigest   *)
(* says of days with two digests and of days with none, hold in every      *)
(* behaviour of CronTick, for any number of ticks, kinds, events, faults   *)
(* and days, and any window and cap.                                       *)
(***************************************************************************)
EXTENDS CronTick, FiniteSetTheorems, WellFoundedInduction, TLAPS

Event == [kind : Kinds, postable : BOOLEAN]

Tick == [pc : {"idle", "collect", "mark", "post", "sent"}, kinds : SUBSET Kinds,
         todo : SUBSET Nat, posted : Int, began : Nat]

Active(t) == ticks[t].pc # "idle"

FeedTypeOK ==
    /\ chain \in Seq(Event)
    /\ channel \in Seq(Nat)
    /\ \A i \in DOMAIN channel : channel[i] \in OnChain
    /\ bootstrapped \in BOOLEAN
    /\ ticks \in [Ticks -> Tick]
    /\ backlog \subseteq OnChain
    /\ \A t \in Ticks :
        /\ ticks[t].todo \subseteq OnChain
        /\ ticks[t].began <= Len(chain)
        /\ ~ Active(t) => ticks[t].todo = {}
        /\ ticks[t].pc = "sent" => ticks[t].todo # {}
        /\ ticks[t].pc = "mark" => ticks[t].kinds = {}

Posted(e) == \E i \in DOMAIN channel : channel[i] = e

\* Nothing is posted, and no tick means to, until the flag is put.
SilentAtFirst ==
    ~ bootstrapped => /\ channel = <<>> /\ backlog = {}
                      /\ \A t \in Ticks : ticks[t].pc \notin {"post", "sent"}

\* What another tick has before it is raced, and so is what is seen by now.
SharedIsRaced ==
    \A t \in Ticks : \A e \in ticks[t].todo :
        /\ e \in seen => e \in raced
        /\ \A u \in Ticks \ {t} : Active(u) => e \in raced

\* A post is marked, or about to be, or its mark was lost.
PostsMarked ==
    \A e \in OnChain : Posted(e) =>
        \/ e \in unmarked \cup raced \cup seen
        \/ \E t \in Ticks : ticks[t].pc = "sent" /\ Current(t) = e

PostedOnce ==
    \A i, j \in DOMAIN channel :
        i # j /\ channel[i] = channel[j] => channel[i] \in unmarked \cup raced

\* The tick may turn out to be the one that bootstraps.
Bootstrapping(t) ==
    ticks[t].pc = "mark" \/ (ticks[t].pc = "collect" /\ ~ bootstrapped)

\* What was on chain when it began, of the kinds it has been through, is silent:
\* before it, marked, or out of the window.
BootstrapCovers ==
    \A t \in Ticks : Bootstrapping(t) =>
        \A e \in 1 .. ticks[t].began :
            chain[e].kind \notin ticks[t].kinds /\ e \notin missed \cup raced =>
                /\ ~ Posted(e)
                /\ e \in ticks[t].todo \/ Handled(e)

BacklogSilent ==
    \A e \in backlog : e \notin missed \cup raced =>
        /\ ~ Posted(e)
        /\ Handled(e)
        /\ \A t \in Ticks : e \notin ticks[t].todo

FeedInv ==
    /\ FeedTypeOK /\ SilentAtFirst /\ SharedIsRaced /\ PostsMarked /\ PostedOnce
    /\ BootstrapCovers /\ BacklogSilent

-----------------------------------------------------------------------------
Ran(t) == rounds[t].pc # "idle"

DigestTypeOK ==
    /\ day \in Days
    /\ lastDigest \in 0 .. day
    /\ rounds \in [Rounds -> [pc : {"idle", "due", "posted"}, today : Days]]
    /\ digests \in [Days -> Nat]
    /\ ticked \subseteq 1 .. day
    /\ \A t \in Rounds : rounds[t].today <= day

\* A tick that is to bring about the digest of the day it began on.
Trying(t, d) == Ran(t) /\ rounds[t].today = d

Excused(d) == d \in faulty \cup crossed \cup overlapped

\* A tick that is not of today ran across midnight; two of today overlap.
StragglersKnown ==
    /\ \A t \in Rounds : Ran(t) /\ rounds[t].today # day => day \in crossed
    /\ \A t, u \in Rounds : t # u /\ Ran(t) /\ Ran(u) => Excused(day)

NothingAhead == \A d \in Days : d > day => digests[d] = 0

\* Once today has its digest, the key says so, or the tick that is to write it
\* is on its way; and a tick that is still to post is out of order.
DigestKnown ==
    digests[day] > 0 =>
        /\ \/ lastDigest = day \/ Excused(day)
           \/ \E t \in Rounds : rounds[t].pc = "posted" /\ rounds[t].today = day
        /\ \A t \in Rounds : rounds[t].pc = "due" => Excused(day)

\* The key and the ticks that are about to write it speak the truth, and a day
\* with a tick has its digest, in the making or abandoned by the last of them.
DayInHand ==
    /\ lastDigest = day => digests[day] > 0
    /\ \A t \in Rounds : rounds[t].pc = "posted" /\ rounds[t].today = day => digests[day] > 0
    /\ day \in ticked =>
        digests[day] > 0 \/ day \in abandoned \/ \E t \in Rounds : Trying(t, day)

DigestInv ==
    /\ DigestTypeOK /\ StragglersKnown /\ NothingAhead /\ DigestKnown /\ DayInHand
    /\ DigestsExplained /\ EveryDayCovered

-----------------------------------------------------------------------------
(* The daily digest.                                                         *)

LEMMA DigestBase == DigestInit => DigestInv
  BY DigestAssumption DEF DigestInit, DigestInv, DigestTypeOK, StragglersKnown, Ran, NothingAhead,
     DigestKnown, DayInHand, Trying, DigestsExplained, EveryDayCovered, Days, Excused

\* A tick that ends where it is.
LEMMA DigestEnds ==
    ASSUME DigestInv, NEW t \in Rounds, rounds[t].pc # "idle",
           rounds' = [rounds EXCEPT ![t].pc = "idle"],
           UNCHANGED <<day, digests, ticked, crossed, overlapped>>,
           \/ /\ lastDigest' = lastDigest /\ faulty' = faulty \cup {day}
              /\ abandoned' = abandoned \cup {rounds[t].today}
           \/ /\ rounds[t].pc = "posted" /\ abandoned' = abandoned
              /\ lastDigest' = rounds[t].today /\ faulty' = faulty
    PROVE  DigestInv'
  <1> USE DEF DigestInv, DigestTypeOK
  <1>1. DigestTypeOK'
    BY DEF Days
  <1>2. /\ faulty \subseteq faulty'
        /\ \A u \in Rounds : /\ rounds'[u].today = rounds[u].today
                             /\ u # t => rounds'[u].pc = rounds[u].pc
        /\ rounds'[t].pc = "idle"
    OBVIOUS
  <1>3. StragglersKnown'
    BY <1>2 DEF StragglersKnown, Ran, Excused
  <1>4. NothingAhead'
    BY DEF NothingAhead, Days
  <1>5. DigestKnown'
    BY <1>2 DEF DigestKnown, StragglersKnown, Ran, Excused
  <1>6. DayInHand'
    BY <1>2 DEF DayInHand, Trying, Ran
  <1>7. DigestsExplained' /\ EveryDayCovered'
    BY <1>2 DEF DigestsExplained, EveryDayCovered, Days
  <1> QED
    BY <1>1, <1>3, <1>4, <1>5, <1>6, <1>7

LEMMA DigestRead ==
    ASSUME DigestInv, NEW t \in Rounds, Read(t)
    PROVE  DigestInv'
  <1> USE DEF DigestInv, DigestTypeOK, Read
  <1>1. DigestTypeOK'
    BY DEF Days
  <1>2. /\ overlapped \subseteq overlapped'
        /\ \A u \in Rounds : u # t => rounds'[u] = rounds[u]
        /\ rounds'[t].today = day
        /\ rounds'[t].pc = IF lastDigest = day THEN "idle" ELSE "due"
        /\ \A u \in Rounds : u # t /\ Ran(u) => day \in overlapped'
    BY DEF Running, Ran
  <1>3. StragglersKnown'
    BY <1>2 DEF StragglersKnown, Ran, Excused
  <1>4. NothingAhead'
    BY DEF NothingAhead, Days
  <1>5. DigestKnown'
    BY <1>2 DEF DigestKnown, Ran, Excused
  <1>6. DayInHand'
    BY <1>2 DEF DayInHand, Trying, Ran
  <1>7. DigestsExplained' /\ EveryDayCovered'
    BY <1>2 DEF DigestsExplained, EveryDayCovered, Days
  <1> QED
    BY <1>1, <1>3, <1>4, <1>5, <1>6, <1>7

LEMMA DigestPost ==
    ASSUME DigestInv, NEW t \in Rounds, Post(t)
    PROVE  DigestInv'
  <1> USE DEF DigestInv, DigestTypeOK, Post, Goto, BuildDigest
  <1>1. DigestTypeOK'
    BY DEF Days
  <1>2. /\ \A u \in Rounds : /\ rounds'[u].today = rounds[u].today
                             /\ u # t => rounds'[u].pc = rounds[u].pc
        /\ rounds[t].pc = "due" /\ rounds'[t].pc = "posted"
        /\ digests'[day] = digests[day] + 1
        /\ \A d \in Days : d # day => digests'[d] = digests[d]
    BY DEF Days
  <1>3. StragglersKnown'
    BY <1>2 DEF StragglersKnown, Ran, Excused
  <1>4. NothingAhead'
    BY <1>2 DEF NothingAhead, Days
  <1>5. DigestKnown'
    BY <1>2 DEF DigestKnown, StragglersKnown, Ran, Excused
  <1>6. DayInHand'
    BY <1>2 DEF DayInHand, Trying, Ran
  <1>7. DigestsExplained'
    BY <1>2 DEF DigestsExplained, DigestKnown, Excused, Days
  <1>8. EveryDayCovered'
    BY <1>2 DEF EveryDayCovered, Days
  <1> QED
    BY <1>1, <1>3, <1>4, <1>5, <1>6, <1>7, <1>8

LEMMA DigestMidnight ==
    ASSUME DigestInv, Midnight
    PROVE  DigestInv'
  <1> USE DEF DigestInv, DigestTypeOK, Midnight
  <1>1. DigestTypeOK'
    BY DigestAssumption DEF Days
  <1>2. /\ crossed \subseteq crossed' /\ day' = day + 1
        /\ \A t \in Rounds : Ran(t) => day' \in crossed' /\ day \in crossed'
        /\ \A t \in Rounds : rounds[t].today # day'
    BY DEF Running, Ran, Days
  <1>3. StragglersKnown'
    BY <1>2 DEF StragglersKnown, Ran, Excused
  <1>4. NothingAhead' /\ digests[day'] = 0
    BY <1>1, <1>2 DEF NothingAhead, Days
  <1>5. DigestKnown'
    BY <1>1, <1>4 DEF DigestKnown
  <1>6. DayInHand'
    BY <1>2 DEF DayInHand, Days
  <1>7. DigestsExplained'
    BY <1>2 DEF DigestsExplained
  <1>8. EveryDayCovered'
    <2>1. \A t \in Rounds : Trying(t, day) => day \in abandoned'
      BY DEF Trying, Ran, Running
    <2> QED
      BY <1>2, <2>1 DEF EveryDayCovered, DayInHand, Days
  <1> QED
    BY <1>1, <1>3, <1>4, <1>5, <1>6, <1>7, <1>8

LEMMA DigestStep ==
    ASSUME DigestInv, DigestNext
    PROVE  DigestInv'
  <1>1. CASE \E t \in Rounds : Read(t)
    BY <1>1, DigestRead
  <1>2. CASE \E t \in Rounds : Post(t)
    BY <1>2, DigestPost
  <1>3. ASSUME NEW t \in Rounds, Mark(t)
        PROVE  DigestInv'
    <2>1. /\ rounds[t].pc = "posted" /\ rounds' = [rounds EXCEPT ![t].pc = "idle"]
          /\ lastDigest' = rounds[t].today
          /\ UNCHANGED <<day, digests, ticked, faulty, crossed, overlapped, abandoned>>
      BY <1>3 DEF Mark, Goto
    <2> QED
      BY <2>1, DigestEnds
  <1>4. ASSUME NEW t \in Rounds, RoundFails(t)
        PROVE  DigestInv'
    <2>1. /\ rounds[t].pc # "idle" /\ rounds' = [rounds EXCEPT ![t].pc = "idle"]
          /\ faulty' = faulty \cup {day}
          /\ abandoned' = abandoned \cup {rounds[t].today}
          /\ UNCHANGED <<day, lastDigest, digests, ticked, crossed, overlapped>>
      BY <1>4 DEF RoundFails, Goto
    <2> QED
      BY <2>1, DigestEnds
  <1>5. CASE Midnight
    BY <1>5, DigestMidnight
  <1> QED
    BY <1>1, <1>2, <1>3, <1>4, <1>5 DEF DigestNext

LEMMA DigestStutter ==
    ASSUME DigestInv, UNCHANGED digestVars
    PROVE  DigestInv'
  BY DEF digestVars, DigestInv, DigestTypeOK, StragglersKnown, Ran, NothingAhead,
     DigestKnown, DayInHand, Trying, DigestsExplained, EveryDayCovered, Days, Excused

-----------------------------------------------------------------------------
(* Events and the window.                                                    *)

LEMMA MinIn ==
    ASSUME NEW S \in SUBSET Nat, S # {}
    PROVE  Min(S) \in S
  <1>1. PICK x \in S : \A y \in S : <<y, x>> \notin OpToRel(<, Nat)
    BY NatLessThanWellFounded, WFMin
  <1>2. \A y \in S : ~ (y < x)
    BY <1>1 DEF OpToRel
  <1>3. \A y \in S : x <= y
    BY <1>2
  <1> QED
    BY <1>3 DEF Min

LEMMA CurrentIn ==
    ASSUME FeedTypeOK, NEW t \in Ticks, ticks[t].todo # {}
    PROVE  Current(t) \in ticks[t].todo
  BY MinIn DEF Current, FeedTypeOK, Tick

\* The newer events of a kind are finitely many.
Newer(e) == {f \in OfKind(chain[e].kind) : f > e}

LEMMA NewerFinite ==
    ASSUME FeedTypeOK, NEW e
    PROVE  IsFiniteSet(Newer(e)) /\ Cardinality(Newer(e)) \in Nat
  <1>1. IsFiniteSet(OnChain)
    BY FS_Interval DEF OnChain, FeedTypeOK
  <1>2. Newer(e) \subseteq OnChain
    BY DEF Newer, OfKind
  <1> QED
    BY <1>1, <1>2, FS_Subset, FS_CardinalityType

LEMMA InWindow ==
    ASSUME FeedTypeOK, NEW e \in OnChain, NEW n, NEW k
    PROVE  e \in Newest(k, n) <=> chain[e].kind = k /\ Cardinality(Newer(e)) < n
  BY DEF Newest, OfKind, Newer

\* A query that is cut short returns nothing that a full one does not.
LEMMA WindowGrows ==
    ASSUME FeedTypeOK, NEW n \in Nat, NEW w \in Nat, n <= w, NEW k
    PROVE  Newest(k, n) \subseteq Newest(k, w) /\ Newest(k, n) \subseteq OnChain
  <1>1. Newest(k, n) \subseteq OnChain
    BY DEF Newest, OfKind
  <1>2. ASSUME NEW e \in Newest(k, n)
        PROVE  e \in Newest(k, w)
    <2>1. Cardinality(Newer(e)) < n /\ chain[e].kind = k
      BY <1>1, <1>2, InWindow
    <2> QED
      BY <1>1, <1>2, <2>1, InWindow, NewerFinite
  <1> QED
    BY <1>1, <1>2

\* An event is added behind the others.
LEMMA ChainGrows ==
    ASSUME FeedTypeOK, NEW k \in Kinds, NEW b \in BOOLEAN, Emit(k, b)
    PROVE  /\ chain' \in Seq(Event) /\ Len(chain') = Len(chain) + 1
           /\ OnChain \subseteq OnChain'
           /\ \A e \in OnChain : chain'[e] = chain[e]
  <1> DEFINE new == [kind |-> k, postable |-> b]
  <1>1. new \in Event
    BY DEF Event
  <1>2. chain' = Append(chain, new)
    BY DEF Emit
  <1> HIDE DEF new
  <1> QED
    BY <1>1, <1>2 DEF FeedTypeOK, OnChain

\* What newer events pushed out of the window stays out.
LEMMA HandledStays ==
    ASSUME FeedTypeOK, NEW k \in Kinds, NEW b \in BOOLEAN, Emit(k, b)
    PROVE  \A e \in OnChain : Handled(e) => Handled(e)'
  <1>1. ASSUME NEW e \in OnChain, Handled(e), e \notin seen
        PROVE  e \notin Newest(chain[e].kind, Window)'
    <2>1. ~ (Cardinality(Newer(e)) < Window)
      BY <1>1, InWindow DEF Handled
    <2>2. Newer(e) \subseteq Newer(e)'
      BY ChainGrows DEF Newer, OfKind
    <2>3. IsFiniteSet(Newer(e)')
      <3>1. IsFiniteSet(OnChain')
        BY ChainGrows, FS_Interval DEF OnChain
      <3>2. Newer(e)' \subseteq OnChain'
        BY DEF Newer, OfKind
      <3> QED
        BY <3>1, <3>2, FS_Subset
    <2>4. /\ Cardinality(Newer(e)) <= Cardinality(Newer(e)')
          /\ Cardinality(Newer(e)) \in Nat /\ Cardinality(Newer(e)') \in Nat
      BY <2>2, <2>3, FS_Subset, FS_CardinalityType
    <2>5. ~ (Cardinality(Newer(e)') < Window)
      BY <2>1, <2>4, FeedAssumption
    <2> QED
      BY <2>5 DEF Newest, Newer
  <1>2. seen' = seen
    BY DEF Emit
  <1> QED
    BY <1>1, <1>2 DEF Handled

LEMMA FeedBase == FeedInit => FeedInv
  <1> SUFFICES ASSUME FeedInit
               PROVE  FeedInv
    OBVIOUS
  <1>1. Idle \in Tick /\ Idle.pc = "idle" /\ Idle.todo = {} /\ Idle.began = 0
    BY DEF Idle, Tick
  <1>2. chain = <<>> /\ chain \in Seq(Event) /\ channel \in Seq(Nat) /\ Len(chain) = 0
    BY DEF FeedInit
  <1>3. \A t \in Ticks : ticks[t] = Idle
    BY DEF FeedInit
  <1>4. FeedTypeOK
    <2>1. bootstrapped \in BOOLEAN /\ ticks \in [Ticks -> Tick]
      BY <1>1 DEF FeedInit
    <2>2. backlog \subseteq OnChain
      BY DEF FeedInit
    <2> QED
      BY <1>1, <1>2, <1>3, <2>1, <2>2 DEF FeedTypeOK, Active, FeedInit
  <1>5. SilentAtFirst /\ SharedIsRaced /\ BootstrapCovers
    BY <1>1, <1>3 DEF SilentAtFirst, SharedIsRaced, BootstrapCovers, Bootstrapping, FeedInit
  <1>6. PostsMarked /\ PostedOnce /\ BacklogSilent
    BY DEF PostsMarked, PostedOnce, BacklogSilent, Posted, FeedInit
  <1> QED
    BY <1>4, <1>5, <1>6 DEF FeedInv

-----------------------------------------------------------------------------
(* The feed, action by action.                                               *)

LEMMA EmitKeepsFeed ==
    ASSUME FeedInv, NEW k \in Kinds, NEW b \in BOOLEAN, Emit(k, b)
    PROVE  FeedInv'
  <1> USE DEF FeedInv
  <1>1. /\ UNCHANGED <<seen, bootstrapped, ticks, channel, unmarked, backlog, missed, raced>>
        /\ \A e \in Nat : Posted(e)' <=> Posted(e)
        /\ \A t \in Ticks : Current(t)' = Current(t)
    BY DEF Emit, Posted, Current
  <1>2. /\ chain' \in Seq(Event) /\ Len(chain') = Len(chain) + 1
        /\ OnChain \subseteq OnChain'
        /\ \A e \in OnChain : chain'[e] = chain[e] /\ (Handled(e) => Handled(e)')
    BY ChainGrows, HandledStays
  <1>3. OnChain' \subseteq OnChain \cup {Len(chain) + 1} /\ Len(chain) \in Nat
    BY <1>2 DEF OnChain, FeedTypeOK
  <1>4. FeedTypeOK'
    BY <1>1, <1>2, <1>3 DEF FeedTypeOK, Active, Tick
  <1>5. SilentAtFirst' /\ SharedIsRaced' /\ PostedOnce'
    BY <1>1 DEF SilentAtFirst, SharedIsRaced, Active, PostedOnce
  <1>6. PostsMarked'
    <2>1. ASSUME NEW e \in OnChain', Posted(e)'
          PROVE  e \in OnChain /\ Posted(e)
      BY <1>1, <2>1 DEF Posted, FeedTypeOK
    <2> QED
      BY <1>1, <2>1 DEF PostsMarked
  <1>7. BootstrapCovers'
    <2>1. \A t \in Ticks : Bootstrapping(t)' <=> Bootstrapping(t)
      BY <1>1 DEF Bootstrapping
    <2>2. \A t \in Ticks : 1 .. ticks[t].began \subseteq OnChain
      BY DEF FeedTypeOK, OnChain, Tick
    <2> QED
      BY <1>1, <1>2, <2>1, <2>2 DEF BootstrapCovers, OnChain
  <1>8. BacklogSilent'
    <2>1. backlog \subseteq OnChain /\ backlog \subseteq Nat
      BY DEF FeedTypeOK, OnChain
    <2> QED
      BY <1>1, <1>2, <2>1 DEF BacklogSilent
  <1> QED
    BY <1>4, <1>5, <1>6, <1>7, <1>8

LEMMA BeginKeepsFeed ==
    ASSUME FeedInv, NEW t \in Ticks, Begin(t)
    PROVE  FeedInv'
  <1> USE DEF FeedInv
  <1>1. /\ UNCHANGED <<chain, seen, bootstrapped, channel, unmarked, backlog, missed>>
        /\ raced \subseteq raced' /\ ~ Active(t)
        /\ \A u \in Ticks \ {t} : ticks'[u] = ticks[u]
        /\ \A u \in Ticks \ {t} : Active(u) => ticks[u].todo \subseteq raced'
    BY DEF Begin, Set, FeedTypeOK, Others, Active
  <1>2. /\ ticks'[t] \in Tick /\ ticks'[t].pc = "collect" /\ ticks'[t].todo = {}
        /\ ticks'[t].kinds = Kinds /\ ticks'[t].began = Len(chain)
    <2>1. Idle \in Tick /\ Idle.todo = {}
      BY DEF Idle, Tick
    <2>2. PICK n \in Nat : n = Len(chain)
      BY DEF FeedTypeOK
    <2>3. ticks'[t] = [Idle EXCEPT !.pc = "collect", !.kinds = Kinds, !.began = n]
      BY <2>2 DEF Begin, Set, FeedTypeOK
    <2> QED
      BY <2>1, <2>2, <2>3 DEF Tick
  <1>3. /\ \A e : Posted(e)' <=> Posted(e)
        /\ \A e : Handled(e)' <=> Handled(e)
        /\ \A u \in Ticks \ {t} : Current(u)' = Current(u)
    BY <1>1 DEF Posted, Handled, Current, Newest, OfKind, OnChain
  <1>4. FeedTypeOK'
    <2>1. ticks' \in [Ticks -> Tick]
      BY <1>2 DEF FeedTypeOK, Begin, Set
    <2> QED
      BY <1>1, <1>2, <2>1 DEF FeedTypeOK, OnChain, Active
  <1>5. SilentAtFirst'
    BY <1>1, <1>2 DEF SilentAtFirst
  <1>6. SharedIsRaced'
    BY <1>1, <1>2 DEF SharedIsRaced, Active, FeedTypeOK
  <1>7. PostsMarked' /\ PostedOnce'
    BY <1>1, <1>2, <1>3 DEF PostsMarked, PostedOnce, OnChain, Active
  <1>8. BootstrapCovers'
    <2>1. \A e \in 1 .. Len(chain) : chain[e].kind \in Kinds
      <3>1. \A e \in 1 .. Len(chain) : chain[e] \in Event
        BY DEF FeedTypeOK
      <3> QED
        BY <3>1 DEF Event
    <2>2. \A u \in Ticks \ {t} : Bootstrapping(u)' <=> Bootstrapping(u)
      BY <1>1 DEF Bootstrapping
    <2> QED
      BY <1>1, <1>2, <1>3, <2>1, <2>2 DEF BootstrapCovers
  <1>9. BacklogSilent'
    BY <1>1, <1>2, <1>3 DEF BacklogSilent
  <1> QED
    BY <1>4, <1>5, <1>6, <1>7, <1>8, <1>9

\* A full page, or part of one.
LEMMA CollectKeepsFeed ==
    ASSUME FeedInv, NEW t \in Ticks, NEW k \in Kinds, NEW n \in 0 .. Window,
           Collect(t, k, n), missed \subseteq missed',
           bootstrapped \/ Newest(k, Window) \ Newest(k, n) \subseteq missed'
    PROVE  FeedInv'
  <1> USE DEF FeedInv
  <1> DEFINE unseen == Newest(k, n) \ seen
  <1>1. /\ UNCHANGED <<chain, seen, bootstrapped, channel, unmarked, backlog>>
        /\ raced \subseteq raced' /\ ticks[t].pc = "collect"
        /\ \A u \in Ticks \ {t} : ticks'[u] = ticks[u]
        /\ \A u \in Ticks \ {t} : Active(u) => unseen \subseteq raced'
    BY DEF Collect, Set, FeedTypeOK, Others, Active
  <1>2. unseen \subseteq OnChain /\ unseen \subseteq Newest(k, Window)
    BY WindowGrows, FeedAssumption
  <1>3. /\ ticks'[t] \in Tick /\ ticks'[t].pc = "collect"
        /\ ticks'[t].todo = ticks[t].todo \cup unseen
        /\ ticks'[t].kinds = ticks[t].kinds \ {k} /\ ticks'[t].began = ticks[t].began
    <2>1. PICK old \in Tick : old = ticks[t]
      BY DEF FeedTypeOK
    <2>2. ticks'[t] = [old EXCEPT !.kinds = old.kinds \ {k}, !.todo = old.todo \cup unseen]
      BY <2>1 DEF Collect, Set, FeedTypeOK
    <2>3. unseen \in SUBSET Nat
      BY <1>2 DEF OnChain
    <2>4. PICK more \in SUBSET Nat : more = unseen
      BY <2>3
    <2>5. PICK had \in SUBSET Nat : had = old.todo
      BY DEF Tick
    <2>6. PICK rest \in SUBSET Kinds : rest = old.kinds \ {k}
      BY DEF Tick
    <2>7. had \cup more \in SUBSET Nat
      OBVIOUS
    <2> HIDE DEF unseen
    <2>8. ticks'[t] = [old EXCEPT !.kinds = rest, !.todo = had \cup more]
      BY <2>2, <2>4, <2>5, <2>6
    <2>9. /\ [old EXCEPT !.kinds = rest, !.todo = had \cup more] \in Tick
          /\ ticks'[t].pc = old.pc /\ ticks'[t].began = old.began
          /\ ticks'[t].kinds = rest /\ ticks'[t].todo = had \cup more
      BY <2>7, <2>8 DEF Tick
    <2> QED
      BY <1>1, <2>1, <2>4, <2>5, <2>6, <2>8, <2>9
  <1>4. /\ \A e : Posted(e)' <=> Posted(e)
        /\ \A e : Handled(e)' <=> Handled(e)
        /\ \A u \in Ticks \ {t} : Current(u)' = Current(u)
    BY <1>1 DEF Posted, Handled, Current, Newest, OfKind, OnChain
  <1>5. unseen \cap seen = {}
    OBVIOUS
  <1>6. \A e \in OnChain : chain[e].kind = k =>
            e \in unseen \/ e \in missed' \/ Handled(e) \/ bootstrapped
    BY DEF Handled
  <1>7. \A e \in unseen : ~ Handled(e)
    BY <1>2 DEF Handled, Newest, OfKind
  <1> HIDE DEF unseen
  <1>8. FeedTypeOK'
    <2>1. ticks' \in [Ticks -> Tick]
      BY <1>3 DEF FeedTypeOK, Collect, Set
    <2> QED
      BY <1>1, <1>2, <1>3, <2>1 DEF FeedTypeOK, OnChain, Active
  <1>9. SilentAtFirst'
    BY <1>1, <1>3 DEF SilentAtFirst
  <1>10. SharedIsRaced'
    BY <1>1, <1>3, <1>5 DEF SharedIsRaced, Active
  <1>11. PostsMarked' /\ PostedOnce'
    BY <1>1, <1>3, <1>4 DEF PostsMarked, PostedOnce, OnChain, Active
  <1>12. BootstrapCovers'
    <2>1. /\ \A u \in Ticks : Bootstrapping(u)' <=> Bootstrapping(u)
          /\ Bootstrapping(t) => ~ bootstrapped
      BY <1>1, <1>3 DEF Bootstrapping
    <2>2. ASSUME NEW e \in 1 .. ticks[t].began, ~ bootstrapped, e \notin missed',
                 chain[e].kind = k
          PROVE  e \in ticks'[t].todo \/ Handled(e)
      <3>1. e \in OnChain
        BY DEF FeedTypeOK, OnChain, Tick
      <3> QED
        BY <1>3, <1>6, <2>2, <3>1
    <2> QED
      BY <1>1, <1>3, <1>4, <2>1, <2>2 DEF BootstrapCovers, SilentAtFirst, Posted
  <1>13. BacklogSilent'
    BY <1>1, <1>3, <1>4, <1>7 DEF BacklogSilent
  <1> QED
    BY <1>8, <1>9, <1>10, <1>11, <1>12, <1>13

\* The flag is read.
LEMMA DecideKeepsFeed ==
    ASSUME FeedInv, NEW t \in Ticks, Decide(t)
    PROVE  FeedInv'
  <1> USE DEF FeedInv
  <1>1. /\ UNCHANGED <<chain, seen, bootstrapped, channel, unmarked, backlog, missed, raced>>
        /\ ticks[t].pc = "collect" /\ ticks[t].kinds = {}
        /\ \A u \in Ticks \ {t} : ticks'[u] = ticks[u]
    BY DEF Decide, Set, FeedTypeOK
  <1>2. /\ ticks'[t] \in Tick /\ ticks'[t].pc = IF bootstrapped THEN "post" ELSE "mark"
        /\ ticks'[t].todo = ticks[t].todo /\ ticks'[t].kinds = ticks[t].kinds
        /\ ticks'[t].began = ticks[t].began
    BY DEF Decide, Set, FeedTypeOK, Tick
  <1>3. /\ \A e : Posted(e)' <=> Posted(e)
        /\ \A e : Handled(e)' <=> Handled(e)
        /\ \A u \in Ticks \ {t} : Current(u)' = Current(u)
    BY <1>1 DEF Posted, Handled, Current, Newest, OfKind, OnChain
  <1>4. FeedTypeOK'
    <2>1. ticks' \in [Ticks -> Tick]
      BY <1>2 DEF FeedTypeOK, Decide, Set
    <2> QED
      BY <1>1, <1>2, <2>1 DEF FeedTypeOK, OnChain, Active
  <1>5. SilentAtFirst' /\ SharedIsRaced'
    BY <1>1, <1>2 DEF SilentAtFirst, SharedIsRaced, Active
  <1>6. PostsMarked' /\ PostedOnce'
    BY <1>1, <1>2, <1>3 DEF PostsMarked, PostedOnce, OnChain
  <1>7. BootstrapCovers' /\ BacklogSilent'
    <2>1. \A u \in Ticks : Bootstrapping(u)' => Bootstrapping(u)
      BY <1>1, <1>2 DEF Bootstrapping
    <2> QED
      BY <1>1, <1>2, <1>3, <2>1 DEF BootstrapCovers, BacklogSilent
  <1> QED
    BY <1>4, <1>5, <1>6, <1>7

\* The flag is put: what the tick found on chain is the backlog.
LEMMA FinishBootstrapKeepsFeed ==
    ASSUME FeedInv, NEW t \in Ticks, FinishBootstrap(t)
    PROVE  FeedInv'
  <1> USE DEF FeedInv
  <1>1. /\ UNCHANGED <<chain, seen, channel, unmarked, missed, raced>>
        /\ bootstrapped' = TRUE /\ backlog' = backlog \cup 1 .. ticks[t].began
        /\ ticks[t].pc = "mark" /\ ticks[t].todo = {}
        /\ \A u \in Ticks \ {t} : ticks'[u] = ticks[u]
        /\ ticks'[t] = Idle
    BY DEF FinishBootstrap, Set, FeedTypeOK
  <1>2. /\ Idle \in Tick /\ Idle.pc = "idle" /\ Idle.todo = {} /\ Idle.began = 0
    BY DEF Idle, Tick
  <1>3. /\ \A e : Posted(e)' <=> Posted(e)
        /\ \A e : Handled(e)' <=> Handled(e)
        /\ \A u \in Ticks \ {t} : Current(u)' = Current(u)
    BY <1>1 DEF Posted, Handled, Current, Newest, OfKind, OnChain
  <1>4. FeedTypeOK'
    <2>1. ticks' \in [Ticks -> Tick]
      BY <1>1, <1>2 DEF FeedTypeOK, FinishBootstrap, Set
    <2>2. backlog' \subseteq OnChain
      <3>1. /\ ticks[t].began \in Nat /\ Len(chain) \in Nat
            /\ ticks[t].began <= Len(chain)
        BY DEF FeedTypeOK, Tick
      <3>2. 1 .. ticks[t].began \subseteq OnChain
        BY <3>1 DEF OnChain
      <3> QED
        BY <1>1, <3>2 DEF FeedTypeOK, OnChain
    <2> QED
      BY <1>1, <1>2, <2>1, <2>2 DEF FeedTypeOK, OnChain, Active
  <1>5. SilentAtFirst' /\ SharedIsRaced'
    BY <1>1, <1>2 DEF SilentAtFirst, SharedIsRaced, Active
  <1>6. PostsMarked' /\ PostedOnce'
    BY <1>1, <1>2, <1>3 DEF PostsMarked, PostedOnce, OnChain
  <1>7. BootstrapCovers'
    <2>1. \A u \in Ticks : Bootstrapping(u)' => u # t /\ Bootstrapping(u)
      BY <1>1, <1>2 DEF Bootstrapping
    <2> QED
      BY <1>1, <1>3, <2>1 DEF BootstrapCovers
  <1>8. BacklogSilent'
    <2>1. ASSUME NEW e \in 1 .. ticks[t].began, e \notin missed \cup raced
          PROVE  ~ Posted(e) /\ Handled(e) /\ \A u \in Ticks : e \notin ticks[u].todo
      <3>1. Bootstrapping(t) /\ Active(t) /\ ticks[t].kinds = {}
        BY <1>1 DEF Bootstrapping, Active, FeedTypeOK
      <3> QED
        BY <1>1, <2>1, <3>1 DEF BootstrapCovers, SharedIsRaced
    <2> QED
      BY <1>1, <1>2, <1>3, <2>1 DEF BacklogSilent
  <1> QED
    BY <1>4, <1>5, <1>6, <1>7, <1>8

\* What any later step of a tick does: it goes on with less before it, marks
\* only what it puts behind it, and posts only what it has before it.
Winds(t) ==
    /\ UNCHANGED <<chain, bootstrapped, backlog, missed, raced>>
    /\ ticks' \in [Ticks -> Tick]
    /\ \A u \in Ticks \ {t} : ticks'[u] = ticks[u]
    /\ Active(t)
    /\ ticks'[t].todo \subseteq ticks[t].todo
    /\ ticks'[t].began <= Len(chain)
    /\ \/ ticks'[t].pc = "idle" /\ ticks'[t].todo = {}
       \/ /\ ticks[t].pc = "mark" /\ ticks'[t].pc = "mark"
          /\ ticks'[t].kinds = ticks[t].kinds /\ ticks'[t].began = ticks[t].began
          /\ ticks[t].todo \subseteq ticks'[t].todo \cup seen'
       \/ ticks[t].pc \in {"post", "sent"} /\ ticks'[t].pc = "post"
       \/ ticks[t].pc = "post" /\ ticks'[t].pc = "sent" /\ ticks'[t].todo # {}
    /\ seen \subseteq seen' /\ seen' \subseteq seen \cup (ticks[t].todo \ ticks'[t].todo)
    /\ unmarked \subseteq unmarked'
    /\ ticks[t].pc = "sent" => Current(t) \in unmarked' \cup seen'

\* Its post, if it makes one.
MayPost(t) ==
    \/ channel' = channel
    \/ /\ channel' = Append(channel, Current(t))
       /\ ticks[t].pc = "post" /\ ticks[t].todo # {}
       /\ \/ Current(t) \in unmarked'
          \/ ticks'[t].pc = "sent" /\ Current(t)' = Current(t)

LEMMA PostFacts ==
    ASSUME FeedTypeOK, NEW t \in Ticks, Winds(t), MayPost(t)
    PROVE  /\ channel' \in Seq(Nat)
           /\ \A i \in DOMAIN channel : i \in DOMAIN channel' /\ channel'[i] = channel[i]
           /\ channel' # channel =>
                /\ Current(t) \in ticks[t].todo /\ Current(t) \in OnChain
                /\ ticks[t].pc = "post"
                /\ \/ Current(t) \in unmarked'
                   \/ ticks'[t].pc = "sent" /\ Current(t)' = Current(t)
           /\ \A i \in DOMAIN channel' :
                i \notin DOMAIN channel =>
                    /\ channel' # channel /\ i = Len(channel) + 1
                    /\ channel'[i] = Current(t)
  <1>1. CASE channel' = channel
    BY <1>1 DEF FeedTypeOK
  <1>2. CASE channel' # channel
    <2>1. ticks[t].pc = "post" /\ ticks[t].todo # {} /\ channel' = Append(channel, Current(t))
      BY <1>2 DEF MayPost
    <2>2. Current(t) \in ticks[t].todo /\ Current(t) \in OnChain
      BY <2>1, CurrentIn DEF FeedTypeOK
    <2>3. PICK c \in Nat : c = Current(t)
      BY <2>2 DEF OnChain
    <2>4. channel' = Append(channel, c) /\ channel \in Seq(Nat)
      BY <2>1, <2>3 DEF FeedTypeOK
    <2>5. /\ channel' \in Seq(Nat) /\ Len(channel') = Len(channel) + 1
          /\ \A i \in 1 .. Len(channel) : channel'[i] = channel[i]
          /\ channel'[Len(channel) + 1] = c
      BY <2>4
    <2> QED
      BY <1>2, <2>1, <2>2, <2>3, <2>4, <2>5 DEF MayPost
  <1> QED
    BY <1>1, <1>2

LEMMA WindsKeepsFeed ==
    ASSUME FeedInv, NEW t \in Ticks, Winds(t), MayPost(t)
    PROVE  FeedInv'
  <1> USE DEF FeedInv
  <1>1. /\ \A u \in Ticks \ {t} : Current(u)' = Current(u) /\ (Active(u)' <=> Active(u))
        /\ Active(t)
        /\ \A u \in Ticks : ticks'[u].todo \subseteq ticks[u].todo
        /\ \A e : Handled(e) => Handled(e)'
    BY DEF Winds, Current, Active, Handled, Newest, OfKind, OnChain
  <1>2. FeedTypeOK'
    <2>1. \A i \in DOMAIN channel' : channel'[i] \in OnChain
      BY PostFacts DEF FeedTypeOK
    <2>2. \A u \in Ticks \ {t} : ticks'[u] = ticks[u]
      BY DEF Winds
    <2>3. ticks'[t].pc = "mark" => ticks'[t].kinds = {}
      BY DEF Winds, FeedTypeOK
    <2> QED
      BY <1>1, <2>1, <2>2, <2>3, PostFacts DEF FeedTypeOK, OnChain, Winds, Active
  <1>3. \A e : Posted(e)' => Posted(e) \/ (channel' # channel /\ e = Current(t))
    BY PostFacts DEF Posted
  <1>4. SilentAtFirst'
    BY PostFacts DEF SilentAtFirst, Winds
  <1>5. SharedIsRaced'
    BY <1>1 DEF SharedIsRaced, Winds
  <1>6. PostsMarked'
    <2>1. ASSUME NEW e \in OnChain, Posted(e), e \notin unmarked \cup raced \cup seen,
                 e \notin unmarked' \cup raced' \cup seen'
          PROVE  \E u \in Ticks : ticks'[u].pc = "sent" /\ Current(u)' = e
      BY <1>1, <2>1 DEF PostsMarked, Winds
    <2>2. CASE channel' # channel
      BY <1>1, <1>3, <2>1, <2>2, PostFacts DEF PostsMarked, Winds, OnChain
    <2>3. CASE channel' = channel
      BY <1>1, <1>3, <2>1, <2>3 DEF PostsMarked, Winds, OnChain
    <2> QED
      BY <2>2, <2>3
  <1>7. PostedOnce'
    <2>1. ASSUME channel' # channel, Posted(Current(t))
          PROVE  Current(t) \in unmarked' \cup raced
      <3>1. /\ Current(t) \in ticks[t].todo /\ Current(t) \in OnChain
            /\ ticks[t].pc = "post"
        BY <2>1, PostFacts
      <3>2. \A u \in Ticks \ {t} : ticks[u].pc = "sent" => Current(u) \in ticks[u].todo
        BY CurrentIn DEF FeedTypeOK
      <3>3. CASE \E u \in Ticks : ticks[u].pc = "sent" /\ Current(u) = Current(t)
        BY <3>1, <3>2, <3>3 DEF SharedIsRaced, Active
      <3> QED
        BY <2>1, <3>1, <3>3 DEF PostsMarked, SharedIsRaced, Winds
    <2>2. \A i, j \in DOMAIN channel :
            i # j /\ channel[i] = channel[j] => channel[i] \in unmarked' \cup raced'
      BY DEF PostedOnce, Winds
    <2>3. \A i \in DOMAIN channel : channel[i] = Current(t) => Posted(Current(t))
      BY DEF Posted
    <2>4. raced' = raced
      BY DEF Winds
    <2> QED
      BY <2>1, <2>2, <2>3, <2>4, PostFacts DEF PostedOnce
  <1>8. BootstrapCovers'
    <2>1. ASSUME NEW u \in Ticks, Bootstrapping(u)', NEW e \in 1 .. ticks'[u].began,
                 chain'[e].kind \notin ticks'[u].kinds, e \notin missed' \cup raced'
          PROVE  ~ Posted(e)' /\ (e \in ticks'[u].todo \/ Handled(e)')
      <3>1. /\ Bootstrapping(u) /\ Active(u)
            /\ ticks'[u].kinds = ticks[u].kinds /\ ticks'[u].began = ticks[u].began
            /\ ticks[u].todo \subseteq ticks'[u].todo \cup seen'
            /\ u = t => ticks[t].pc = "mark"
        BY <2>1 DEF Winds, Bootstrapping, Active
      <3>2. ~ Posted(e) /\ (e \in ticks[u].todo \/ Handled(e))
        BY <2>1, <3>1 DEF BootstrapCovers, Winds
      <3>3. ~ (channel' # channel /\ e = Current(t))
        BY <2>1, <3>1, PostFacts DEF SharedIsRaced, Winds
      <3> QED
        BY <1>1, <1>3, <3>1, <3>2, <3>3 DEF Handled
    <2> QED
      BY <2>1 DEF BootstrapCovers
  <1>9. BacklogSilent'
    BY <1>1, <1>3, PostFacts DEF BacklogSilent, Winds
  <1> QED
    BY <1>2, <1>4, <1>5, <1>6, <1>7, <1>8, <1>9

LEMMA DropFacts ==
    ASSUME FeedTypeOK, NEW t \in Ticks
    PROVE  /\ ticks[t] \in Tick /\ Drop(t) \in Tick
           /\ Drop(t).todo = ticks[t].todo \ {Current(t)}
           /\ Drop(t).pc = ticks[t].pc /\ Drop(t).began = ticks[t].began
           /\ Drop(t).kinds = ticks[t].kinds
  BY DEF Drop, FeedTypeOK, Tick

LEMMA IdleFacts == Idle \in Tick /\ Idle.todo = {} /\ Idle.began = 0 /\ Idle.pc = "idle"
  BY DEF Idle, Tick

\* The record of the tick, after a step of it.
LEMMA SetFacts ==
    ASSUME FeedTypeOK, NEW t \in Ticks, NEW tick \in Tick, Set(t, tick)
    PROVE  /\ ticks' \in [Ticks -> Tick] /\ ticks'[t] = tick
           /\ \A u \in Ticks \ {t} : ticks'[u] = ticks[u]
  BY DEF Set, FeedTypeOK

LEMMA MarkWinds ==
    ASSUME FeedTypeOK, NEW t \in Ticks, NEW e, MarkSilently(t, e)
    PROVE  Winds(t) /\ MayPost(t)
  <1> DEFINE left == [ticks[t] EXCEPT !.todo = @ \ {e}]
  <1>1. /\ left \in Tick /\ left.todo = ticks[t].todo \ {e} /\ left.pc = ticks[t].pc
        /\ left.kinds = ticks[t].kinds /\ left.began = ticks[t].began
    BY DEF FeedTypeOK, Tick
  <1>2. Set(t, left) /\ seen' = seen \cup {e} /\ e \in ticks[t].todo
    BY DEF MarkSilently
  <1> HIDE DEF left
  <1> QED
    BY <1>1, <1>2, SetFacts DEF MarkSilently, Winds, MayPost, Active, FeedTypeOK

\* The steps that pass an event over and post nothing.
LEMMA DropWinds ==
    ASSUME FeedTypeOK, NEW t \in Ticks, Skip(t) \/ OverCap(t) \/ SendFails(t)
    PROVE  Winds(t) /\ MayPost(t)
  <1>1. /\ Set(t, Drop(t)) /\ Posting(t) /\ (seen' = seen \/ seen' = seen \cup {Current(t)})
        /\ UNCHANGED <<chain, bootstrapped, channel, unmarked, backlog, missed, raced>>
    BY DEF Skip, OverCap, SendFails, MaySend
  <1>2. Current(t) \in ticks[t].todo
    BY <1>1, CurrentIn DEF Posting
  <1> QED
    BY <1>1, <1>2, DropFacts, SetFacts DEF Posting, Winds, MayPost, Active, FeedTypeOK

LEMMA SendWinds ==
    ASSUME FeedTypeOK, NEW t \in Ticks, Send(t)
    PROVE  Winds(t) /\ MayPost(t)
  <1> DEFINE sent == [ticks[t] EXCEPT !.pc = "sent"]
  <1>1. /\ sent \in Tick /\ sent.todo = ticks[t].todo /\ sent.pc = "sent"
        /\ sent.began = ticks[t].began
    BY DEF FeedTypeOK, Tick
  <1>2. Set(t, sent) /\ Posting(t)
    BY DEF Send, MaySend
  <1> HIDE DEF sent
  <1>3. ticks'[t] = sent
    BY <1>1, <1>2, SetFacts
  <1>4. Current(t)' = Current(t)
    BY <1>1, <1>3 DEF Current
  <1> QED
    BY <1>1, <1>2, <1>3, <1>4, SetFacts DEF Send, Posting, Winds, MayPost, Active, FeedTypeOK

LEMMA AnswerLostWinds ==
    ASSUME FeedTypeOK, NEW t \in Ticks, SendAnswerLost(t)
    PROVE  Winds(t) /\ MayPost(t)
  BY DropFacts, SetFacts
  DEF SendAnswerLost, MaySend, Posting, Winds, MayPost, Active, FeedTypeOK

\* The steps after a post.
LEMMA SentWinds ==
    ASSUME FeedTypeOK, NEW t \in Ticks, MarkPosted(t) \/ MarkFails(t)
    PROVE  Winds(t) /\ MayPost(t)
  <1>1. PICK less \in Tick : less = Drop(t)
    BY DropFacts
  <1>0. PICK count \in Int : count = less.posted + 1
    BY DEF Tick
  <1> DEFINE counted == [less EXCEPT !.pc = "post", !.posted = count]
             same == [less EXCEPT !.pc = "post"]
  <1>2. /\ counted \in Tick /\ counted.todo = less.todo /\ counted.pc = "post"
        /\ counted.began = less.began
        /\ same \in Tick /\ same.todo = less.todo /\ same.pc = "post"
        /\ same.began = less.began
    BY DEF Tick
  <1>3. /\ Set(t, counted) \/ Set(t, same)
        /\ ticks[t].pc = "sent"
    BY <1>0, <1>1 DEF MarkPosted, MarkFails
  <1>4. Current(t) \in ticks[t].todo
    BY <1>3, CurrentIn DEF FeedTypeOK
  <1> HIDE DEF counted, same
  <1>5. PICK new \in Tick : /\ Set(t, new) /\ new.todo = less.todo /\ new.pc = "post"
                            /\ new.began = less.began
    BY <1>2, <1>3
  <1>6. /\ UNCHANGED <<chain, bootstrapped, backlog, missed, raced, channel>>
        /\ \/ seen' = seen \cup {Current(t)} /\ unmarked' = unmarked
           \/ seen' = seen /\ unmarked' = unmarked \cup {Current(t)}
    BY DEF MarkPosted, MarkFails
  <1> QED
    BY <1>1, <1>3, <1>4, <1>5, <1>6, DropFacts, SetFacts DEF Winds, MayPost, Active, FeedTypeOK

LEMMA EndWinds ==
    ASSUME FeedTypeOK, NEW t \in Ticks, Finish(t) \/ Crash(t)
    PROVE  Winds(t) /\ MayPost(t)
  <1>1. /\ Set(t, Idle) /\ Active(t)
        /\ UNCHANGED <<chain, seen, bootstrapped, channel, backlog, missed, raced>>
        /\ unmarked \subseteq unmarked'
        /\ ticks[t].pc = "sent" => Current(t) \in unmarked'
    BY DEF Finish, Crash, Active
  <1>2. Len(chain) \in Nat
    BY DEF FeedTypeOK
  <1> QED
    BY <1>1, <1>2, IdleFacts, SetFacts DEF Winds, MayPost

LEMMA AdvanceKeepsFeed ==
    ASSUME FeedInv, NEW t \in Ticks, Advance(t)
    PROVE  FeedInv'
  <1>1. FeedTypeOK
    BY DEF FeedInv
  <1>2. CASE \E k \in Kinds : CollectAll(t, k)
    BY <1>1, <1>2, CollectKeepsFeed, FeedAssumption DEF CollectAll
  <1>3. CASE Decide(t)
    BY <1>3, DecideKeepsFeed
  <1>4. CASE \E e \in Events : MarkSilently(t, e)
    BY <1>1, <1>4, MarkWinds, WindsKeepsFeed
  <1>5. CASE FinishBootstrap(t)
    BY <1>5, FinishBootstrapKeepsFeed
  <1>6. CASE Skip(t) \/ OverCap(t)
    BY <1>1, <1>6, DropWinds, WindsKeepsFeed
  <1>7. CASE Send(t)
    BY <1>1, <1>7, SendWinds, WindsKeepsFeed
  <1>8. CASE MarkPosted(t)
    BY <1>1, <1>8, SentWinds, WindsKeepsFeed
  <1>9. CASE Finish(t)
    BY <1>1, <1>9, EndWinds, WindsKeepsFeed
  <1> QED
    BY <1>2, <1>3, <1>4, <1>5, <1>6, <1>7, <1>8, <1>9 DEF Advance

LEMMA FailKeepsFeed ==
    ASSUME FeedInv, NEW t \in Ticks, Fail(t)
    PROVE  FeedInv'
  <1>1. FeedTypeOK
    BY DEF FeedInv
  <1>2. ASSUME NEW k \in Kinds, CollectFails(t, k)
        PROVE  FeedInv'
    <2>1. PICK n \in 0 .. Window - 1 :
            /\ Collect(t, k, n)
            /\ missed' = IF bootstrapped THEN missed
                         ELSE missed \cup (Newest(k, Window) \ Newest(k, n))
      BY <1>2 DEF CollectFails
    <2>2. n \in 0 .. Window /\ missed \subseteq missed'
      BY <2>1, FeedAssumption
    <2>3. bootstrapped \/ Newest(k, Window) \ Newest(k, n) \subseteq missed'
      BY <2>1
    <2> QED
      BY <2>1, <2>2, <2>3, CollectKeepsFeed
  <1>3. CASE SendFails(t)
    BY <1>1, <1>3, DropWinds, WindsKeepsFeed
  <1>4. CASE SendAnswerLost(t)
    BY <1>1, <1>4, AnswerLostWinds, WindsKeepsFeed
  <1>5. CASE MarkFails(t)
    BY <1>1, <1>5, SentWinds, WindsKeepsFeed
  <1>6. CASE Crash(t)
    BY <1>1, <1>6, EndWinds, WindsKeepsFeed
  <1> QED
    BY <1>2, <1>3, <1>4, <1>5, <1>6 DEF Fail

LEMMA FeedStep ==
    ASSUME FeedInv, FeedNext
    PROVE  FeedInv'
  <1>1. CASE \E k \in Kinds, b \in BOOLEAN : Emit(k, b)
    BY <1>1, EmitKeepsFeed
  <1>2. CASE \E t \in Ticks : Begin(t) \/ Advance(t) \/ Fail(t)
    BY <1>2, BeginKeepsFeed, AdvanceKeepsFeed, FailKeepsFeed
  <1> QED
    BY <1>1, <1>2 DEF FeedNext

LEMMA FeedStutter ==
    ASSUME FeedInv, UNCHANGED feedVars
    PROVE  FeedInv'
  <1>1. UNCHANGED <<chain, seen, bootstrapped, ticks, channel, unmarked, backlog, missed, raced>>
    BY DEF feedVars
  <1>2. FeedTypeOK' /\ SilentAtFirst' /\ SharedIsRaced' /\ PostsMarked' /\ PostedOnce'
    BY <1>1 DEF FeedInv, FeedTypeOK, OnChain, Active, SilentAtFirst, SharedIsRaced, PostsMarked,
       PostedOnce, Posted, Current
  <1>3. \A e : (Posted(e)' <=> Posted(e)) /\ (Handled(e)' <=> Handled(e))
    BY <1>1 DEF Posted, Handled, Newest, OfKind, OnChain
  <1>4. BootstrapCovers'
    BY <1>1, <1>3 DEF FeedInv, BootstrapCovers, Bootstrapping
  <1>5. BacklogSilent'
    BY <1>1, <1>3 DEF FeedInv, BacklogSilent
  <1> QED
    BY <1>2, <1>4, <1>5 DEF FeedInv

-----------------------------------------------------------------------------
(* The theorems.                                                             *)

CronInv == FeedInv /\ DigestInv

LEMMA CronStep == CronInv /\ [Next]_cronVars => CronInv'
  <1> SUFFICES ASSUME CronInv, [Next]_cronVars
               PROVE  CronInv'
    OBVIOUS
  <1>1. FeedNext \/ UNCHANGED feedVars
    BY DEF Next, FeedJob, DigestJob, cronVars
  <1>2. DigestNext \/ UNCHANGED digestVars
    BY DEF Next, FeedJob, DigestJob, cronVars
  <1>3. FeedInv'
    BY <1>1, FeedStep, FeedStutter DEF CronInv
  <1>4. DigestInv'
    BY <1>2, DigestStep, DigestStutter DEF CronInv
  <1> QED
    BY <1>3, <1>4 DEF CronInv

\* The invariant of both jobs, inductive: their two halves share nothing.
THEOREM CronInvariant == FairSpec => []CronInv
  <1>1. Init => CronInv
    BY FeedBase, DigestBase DEF Init, CronInv
  <1> QED
    BY <1>1, CronStep, PTL DEF FairSpec

\* An event that is in the channel twice was posted twice.
LEMMA TwicePosted ==
    ASSUME FeedTypeOK, NEW e, TimesPosted(e) > 1
    PROVE  \E i, j \in DOMAIN channel : i # j /\ channel[i] = e /\ channel[j] = e
  <1> DEFINE at == {i \in DOMAIN channel : channel[i] = e}
  <1>1. IsFiniteSet(at)
    <2>1. Len(channel) \in Nat /\ DOMAIN channel = 1 .. Len(channel)
      BY DEF FeedTypeOK
    <2>2. IsFiniteSet(1 .. Len(channel))
      BY <2>1, FS_Interval
    <2>3. at \subseteq 1 .. Len(channel)
      BY <2>1
    <2> QED
      BY <2>2, <2>3, FS_Subset
  <1>2. at # {}
    BY FS_EmptySet DEF TimesPosted
  <1>3. PICK i \in at : TRUE
    BY <1>2
  <1>4. at # {i}
    BY FS_Singleton DEF TimesPosted
  <1> QED
    BY <1>3, <1>4

\* RepeatsExplained: an event goes out twice only if the mark of its post was
\* lost, or a tick that had it overlapped another one (feed.ts: post, then mark).
THEOREM RepeatsAlwaysExplained == FairSpec => []RepeatsExplained
  <1>1. ASSUME CronInv PROVE RepeatsExplained
    BY <1>1, TwicePosted DEF CronInv, FeedInv, RepeatsExplained, PostedOnce
  <1> QED
    BY <1>1, CronInvariant, PTL

\* BacklogExplained: what was on chain when the bootstrap tick began stays out
\* of the channel unless a query failed then, or two ticks overlapped over it.
THEOREM BacklogStaysSilent == FairSpec => []BacklogExplained
  <1>1. ASSUME CronInv PROVE BacklogExplained
    <2>1. SUFFICES ASSUME NEW e \in backlog, ~ Posted(e)
                   PROVE  TimesPosted(e) = 0
      BY <1>1 DEF CronInv, FeedInv, BacklogExplained, BacklogSilent
    <2>2. {i \in DOMAIN channel : channel[i] = e} = {}
      BY <2>1 DEF Posted
    <2> QED
      BY <2>2, FS_EmptySet DEF TimesPosted
  <1> QED
    BY <1>1, CronInvariant, PTL

\* DigestsExplained: two digests carry one date only if a fault struck that day,
\* a tick ran across midnight, or two ticks overlapped (index.ts reads the key,
\* posts, and only then writes it).
THEOREM OneDigestADay == FairSpec => []DigestsExplained
  <1>1. CronInv => DigestsExplained
    BY DEF CronInv, DigestInv
  <1> QED
    BY <1>1, CronInvariant, PTL

\* EveryDayCovered: no day ends without its digest unless the last tick begun on it
\* failed or was still running at its end; earlier failures are made good.
THEOREM NoDayLeftOut == FairSpec => []EveryDayCovered
  <1>1. CronInv => EveryDayCovered
    BY DEF CronInv, DigestInv
  <1> QED
    BY <1>1, CronInvariant, PTL

\* Without a new event the chain is as it was, and no mark is taken back.
LEMMA MarksStay ==
    ASSUME NEW t \in Ticks, Begin(t) \/ Advance(t) \/ Fail(t)
    PROVE  chain' = chain /\ seen \subseteq seen'
  <1>1. CASE Begin(t)
    BY <1>1 DEF Begin
  <1>2. CASE Advance(t)
    BY <1>2 DEF Advance, CollectAll, Collect, Decide, MarkSilently, FinishBootstrap,
       Skip, OverCap, Send, MarkPosted, Finish
  <1>3. CASE Fail(t)
    BY <1>3 DEF Fail, CollectFails, Collect, SendFails, SendAnswerLost, MarkFails, Crash
  <1> QED
    BY <1>1, <1>2, <1>3

\* What EventsHandled waits for, once it has come, stays: an event that is marked
\* or out of the window remains so, whatever ticks, faults and newer events do.
THEOREM HandledForGood ==
    FairSpec => [][\A e \in OnChain : Handled(e) => e \in OnChain' /\ Handled(e)']_cronVars
  <1> DEFINE Stays == \A e \in OnChain : Handled(e) => e \in OnChain' /\ Handled(e)'
  <1>1. ASSUME CronInv, Next
        PROVE  Stays
    <2>1. FeedTypeOK
      BY <1>1 DEF CronInv, FeedInv
    <2>2. ASSUME chain' = chain, seen \subseteq seen'
          PROVE  Stays
      BY <2>2 DEF Handled, Newest, OfKind, OnChain
    <2>3. ASSUME NEW k \in Kinds, NEW b \in BOOLEAN, Emit(k, b)
          PROVE  Stays
      BY <2>1, <2>3, HandledStays, ChainGrows
    <2>4. CASE DigestJob(DigestNext)
      <3>1. chain' = chain /\ seen' = seen
        BY <2>4 DEF DigestJob, feedVars
      <3> QED
        BY <2>2, <3>1
    <2>5. CASE \E t \in Ticks : Begin(t) \/ Advance(t) \/ Fail(t)
      BY <2>2, <2>5, MarksStay
    <2> QED
      BY <1>1, <2>3, <2>4, <2>5 DEF Next, FeedJob, FeedNext
  <1>2. CronInv /\ [Next]_cronVars => [Stays]_cronVars
    BY <1>1
  <1> QED
    BY <1>2, CronInvariant, PTL DEF FairSpec
=============================================================================
