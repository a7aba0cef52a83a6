-------------------------- MODULE WorkspaceProofs --------------------------
(***************************************************************************)
(* For any number of processes and workspaces, the scratch directory keeps *)
(* the promise of PageCustody: whoever has a workspace in hand is alone    *)
(* with it, and one that is settled is never taken up again.               *)
(***************************************************************************)
EXTENDS Workspace, FiniteSetTheorems, TLAPS

Staging == {"create lock", "lock", "publish", "publish unlocked", "discard"}
Working == {"scan", "close"} \cup Removing
Looking == {"try lock", "check place"}
PcPlaces == {"idle", "claim", "recover"} \cup Staging \cup Working \cup Looking
Unpublished == {"none", ".new-"}
Names == Unpublished \cup {"job-", "unlocked-", "leftover-", "gone"}

TypeOK ==
    /\ place \in [Spaces -> Names]
    /\ linked \in [Spaces -> BOOLEAN]
    /\ holder \in [Spaces -> Procs \cup {Nobody}]
    /\ pages \in [Spaces -> {"none", "owed", "safe"}]
    /\ pc \in [Procs -> PcPlaces]
    /\ at \in [Procs -> Spaces \cup {Nobody}]
    /\ listed \in [Procs -> SUBSET Spaces]
    /\ claimed \in [Procs -> SUBSET Spaces]
    /\ spoilt \in SUBSET Spaces

Busy(p) == pc[p] \in Staging \cup Working \cup Looking
BusyIsSomewhere == \A p \in Procs : Busy(p) => at[p] \in Spaces

\* A staging directory has one maker, and its lock file is there once created.
StagedAlone ==
    \A p \in Procs : pc[p] \in Staging =>
        /\ place[at[p]] = ".new-"
        /\ \A q \in Procs : pc[q] \in Staging /\ at[q] = at[p] => q = p
        /\ pc[p] \in {"lock", "publish", "publish unlocked"} => linked[at[p]]
        /\ pc[p] = "publish" => holder[at[p]] = p

\* What no one has published holds no page, and nobody else has come near it.
PublishedFirst ==
    /\ \A w \in Spaces : place[w] \in Unpublished => pages[w] = "none" /\ w \notin spoilt
    /\ \A q \in Procs : pc[q] \in Working \cup Looking => place[at[q]] \notin Unpublished
    /\ \A q \in Procs : \A w \in claimed[q] : place[w] \notin Unpublished

\* Nobody else is anywhere near w, nor can a sweep find it.
Untouched(p, w) ==
    /\ place[w] # "job-"
    /\ pc[p] \in Working /\ at[p] = w
    /\ \A q \in Procs \ {p} : (Busy(q) => at[q] # w) /\ w \notin claimed[q]
HandHoldsLock ==
    /\ \A p \in Procs : \A w \in InHand(p) : holder[w] = p \/ Untouched(p, w)
    /\ \A p \in Procs : pc[p] = "check place" => holder[at[p]] = p

\* A scan's own workspace is whole, and so is one claimed and not yet recovered.
WholeWhileUsed ==
    /\ \A p \in Procs : pc[p] = "scan" =>
          /\ place[at[p]] \in {"job-", "unlocked-"} /\ linked[at[p]]
          /\ pages[at[p]] # "safe" /\ at[p] \notin spoilt
    /\ \A p \in Procs : \A w \in claimed[p] \ Using(p) : place[w] = "job-" /\ linked[w]

\* With its pages safe a workspace is being removed, or will not be claimed as open.
SafeIsHandled ==
    \A w \in Spaces : pages[w] = "safe" =>
        \/ \E p \in Procs : at[p] = w /\ pc[p] \in Removing
        \/ ~linked[w] \/ place[w] \in {"leftover-", "gone"} \/ w \in spoilt

\* Only a sweep has claims, and it does not claim again what it has.
ClaimsOnce ==
    \A p \in Procs :
        /\ pc[p] \in {"idle"} \cup Staging => claimed[p] = {}
        /\ pc[p] = "check place" => at[p] \notin claimed[p]

SweepInv ==
    /\ TypeOK /\ BusyIsSomewhere /\ StagedAlone /\ PublishedFirst
    /\ HandHoldsLock /\ WholeWhileUsed /\ SafeIsHandled /\ ClaimsOnce

-----------------------------------------------------------------------------
(* What follows from the invariant at once. *)

\* What a process has in hand is a workspace, and was published.
LEMMA HandIsPublished ==
    ASSUME SweepInv, NEW p \in Procs, NEW w \in InHand(p)
    PROVE  w \in Spaces /\ place[w] \notin Unpublished
  BY DEF SweepInv, TypeOK, InHand, Using, Busy, BusyIsSomewhere, PublishedFirst, Working

\* Two processes never have one workspace in hand.
LEMMA AloneInHand ==
    ASSUME SweepInv, NEW p \in Procs, NEW q \in Procs, NEW w \in InHand(p), w \in InHand(q)
    PROVE  p = q
<1>1. w \in Spaces
  BY HandIsPublished
<1>2. (holder[w] = p \/ Untouched(p, w)) /\ (holder[w] = q \/ Untouched(q, w))
  BY DEF SweepInv, HandHoldsLock
<1>3. ASSUME NEW r \in Procs, w \in InHand(r), NEW s \in Procs, s # r, Untouched(s, w)
      PROVE  FALSE
  BY <1>3 DEF Untouched, InHand, Using, Busy, Working
<1> QED
  BY <1>2, <1>3

\* Who makes a staging directory, opens a lock or works in a workspace is
\* somewhere, and no one has a staging directory in hand.
LEMMA StagedNotInHand ==
    ASSUME SweepInv, NEW p \in Procs, pc[p] \in Staging
    PROVE  /\ at[p] \in Spaces /\ place[at[p]] = ".new-"
           /\ pages[at[p]] = "none" /\ at[p] \notin spoilt
           /\ \A q \in Procs : at[p] \notin InHand(q) /\ at[p] \notin claimed[q]
           /\ \A q \in Procs \ {p} : Busy(q) => at[q] # at[p]
<1>1. at[p] \in Spaces /\ place[at[p]] = ".new-"
  BY DEF SweepInv, Busy, BusyIsSomewhere, StagedAlone
<1>2. pages[at[p]] = "none" /\ at[p] \notin spoilt
  BY <1>1 DEF SweepInv, PublishedFirst, Unpublished
<1>3. \A q \in Procs : at[p] \notin InHand(q)
  BY <1>1, HandIsPublished DEF Unpublished
<1>4. \A q \in Procs \ {p} : Busy(q) => at[q] # at[p]
  BY <1>1 DEF SweepInv, StagedAlone, PublishedFirst, Busy, Unpublished
<1> QED
  BY <1>1, <1>2, <1>3, <1>4 DEF InHand

-----------------------------------------------------------------------------
(* The steps, by what they do to a workspace in hand. *)

OthersStay(p) ==
    \A q \in Procs \ {p} : pc'[q] = pc[q] /\ at'[q] = at[q] /\ claimed'[q] = claimed[q]

Resting == {"idle", "claim", "recover"}
\* A process that is in no workspace afterwards, and kept the locks of what it
\* still has claimed.
LEMMA LettingGoKeeps ==
    ASSUME SweepInv, NEW p \in Procs, TypeOK', OthersStay(p), UNCHANGED disk,
           \/ pc'[p] \in Resting
           \/ pc'[p] = "try lock" /\ at'[p] \in Spaces /\ place[at'[p]] = "job-" /\ pc[p] = "claim"
           \/ pc'[p] = "discard" /\ pc[p] \in Staging /\ at'[p] = at[p],
           \A v \in Spaces : holder'[v] = holder[v] \/ (holder[v] = p /\ holder'[v] = Nobody),
           claimed'[p] \subseteq claimed[p] \ Using(p),
           \A v \in claimed'[p] : holder'[v] = holder[v],
           spoilt' = spoilt \/ (pc[p] \in Removing /\ spoilt' = spoilt \cup {at[p]}),
           pc[p] \in Removing => at[p] \in spoilt',
           pc'[p] = "idle" => claimed'[p] = {}
    PROVE  SweepInv'
<1> USE DEF SweepInv
<1> USE WorkspaceAssumption DEF OthersStay, Resting
<1>0. place' = place /\ linked' = linked /\ pages' = pages
  BY DEF disk
<1>1. BusyIsSomewhere'
  BY DEF BusyIsSomewhere, Busy, Staging, Working, Looking, Removing
<1>2. \A q \in Procs : q # p => (InHand(q))' = InHand(q)
  BY DEF InHand, Using
<1>3. (Using(p))' = {} /\ (InHand(p))' = claimed'[p] /\ claimed'[p] \subseteq InHand(p)
  BY DEF InHand, Using, Staging, Removing
<1>4. StagedAlone'
  <2>1. \A q \in Procs : pc'[q] \in Staging => pc[q] \in Staging /\ at'[q] = at[q]
    BY DEF Staging, Removing, Looking, Working
  <2>2. \A q \in Procs : pc'[q] \in Staging \ {"discard"} => q # p
    BY DEF Staging
  <2>3. \A q \in Procs : pc'[q] = "publish" => holder'[at'[q]] = q
    <3> SUFFICES ASSUME NEW q \in Procs, pc'[q] = "publish" PROVE holder'[at'[q]] = q
      OBVIOUS
    <3>1. q # p /\ pc[q] = "publish" /\ at'[q] = at[q]
      BY DEF Staging
    <3>2. holder[at[q]] = q /\ at[q] \in Spaces
      BY <3>1 DEF StagedAlone, BusyIsSomewhere, Busy, Staging
    <3> QED
      BY <3>1, <3>2
  <2>4. \A q \in Procs : pc'[q] \in {"lock", "publish", "publish unlocked"} => pc'[q] = pc[q]
    BY DEF Staging
  <2>5. ASSUME NEW q \in Procs, pc'[q] \in Staging
        PROVE  /\ place'[at'[q]] = ".new-"
               /\ \A r \in Procs : pc'[r] \in Staging /\ at'[r] = at'[q] => r = q
               /\ pc'[q] \in {"lock", "publish", "publish unlocked"} => linked'[at'[q]]
    <3>1. pc[q] \in Staging /\ at'[q] = at[q]
      BY <2>1, <2>5
    <3>2. place'[at'[q]] = ".new-"
      BY <1>0, <3>1 DEF StagedAlone
    <3>3. ASSUME NEW r \in Procs, pc'[r] \in Staging, at'[r] = at'[q] PROVE r = q
      <4>1. pc[r] \in Staging /\ at[r] = at[q]
        BY <2>1, <3>1, <3>3
      <4> QED
        BY <3>1, <4>1 DEF StagedAlone
    <3>4. pc'[q] \in {"lock", "publish", "publish unlocked"} => linked'[at'[q]]
      BY <1>0, <2>4, <3>1 DEF StagedAlone
    <3> QED
      BY <3>2, <3>3, <3>4
  <2> QED
    BY <2>3, <2>5 DEF StagedAlone
<1>5. PublishedFirst'
  <2>1. \A w \in Spaces : place'[w] \in Unpublished => pages'[w] = "none" /\ w \notin spoilt'
    <3>1. pc[p] \in Removing => place[at[p]] \notin Unpublished
      BY DEF PublishedFirst, Working
    <3>2. \A w \in Spaces : w \in spoilt' => w \in spoilt \/ place[w] \notin Unpublished
      BY <3>1
    <3> QED
      BY <1>0, <3>2 DEF PublishedFirst
  <2>2. ASSUME NEW q \in Procs, pc'[q] \in Working \cup Looking
        PROVE  place'[at'[q]] \notin Unpublished
    BY <1>0, <2>2 DEF PublishedFirst, Working, Looking, Staging, Removing, Unpublished
  <2>3. \A q \in Procs : claimed'[q] \subseteq claimed[q]
    OBVIOUS
  <2> QED
    BY <1>0, <2>1, <2>2, <2>3 DEF PublishedFirst
<1>6. HandHoldsLock'
  <2>1. ASSUME NEW q \in Procs, NEW w \in (InHand(q))'
        PROVE  holder'[w] = q \/ Untouched(q, w)'
    <3>1. w \in InHand(q) /\ w \in Spaces
      <4>1. w \in InHand(q)
        BY <1>2, <1>3
      <4> QED
        BY <4>1, HandIsPublished
    <3>2. CASE q = p
      <4>1. w \in claimed'[p] /\ w \in claimed[p] \ Using(p)
        BY <1>3, <3>2
      <4>2. ~Untouched(p, w)
        <5> SUFFICES ASSUME Untouched(p, w) PROVE FALSE
          OBVIOUS
        <5>1. place[w] # "job-"
          BY DEF Untouched
        <5> QED
          BY <4>1, <5>1 DEF WholeWhileUsed
      <4> QED
        BY <3>1, <3>2, <4>1, <4>2 DEF HandHoldsLock
    <3>3. CASE q # p /\ holder[w] = q
      BY <3>1, <3>3
    <3>4. CASE q # p /\ Untouched(q, w)
      <4>1. Busy(p)' => at'[p] # w
        <5>1. CASE pc'[p] = "try lock"
          BY <1>0, <5>1, <3>4 DEF Untouched
        <5>2. CASE pc'[p] = "discard"
          BY <5>2, <3>4 DEF Untouched, Busy, Staging
        <5> QED
          BY <5>1, <5>2 DEF Busy, Staging, Working, Looking, Removing
      <4>2. \A r \in Procs \ {p} : (Busy(r)' <=> Busy(r)) /\ at'[r] = at[r]
        BY DEF Busy
      <4>3. \A r \in Procs : claimed'[r] \subseteq claimed[r]
        OBVIOUS
      <4> QED
        BY <1>0, <4>1, <4>2, <4>3, <3>4 DEF Untouched
    <3> QED
      BY <3>1, <3>2, <3>3, <3>4 DEF HandHoldsLock
  <2>2. ASSUME NEW q \in Procs, pc'[q] = "check place" PROVE holder'[at'[q]] = q
    <3>1. q # p /\ pc[q] = "check place" /\ at'[q] = at[q]
      BY <2>2 DEF Staging
    <3>2. holder[at[q]] = q /\ at[q] \in Spaces
      BY <3>1 DEF HandHoldsLock, BusyIsSomewhere, Busy, Looking
    <3> QED
      BY <3>1, <3>2
  <2> QED
    BY <2>1, <2>2 DEF HandHoldsLock
<1>7. WholeWhileUsed'
  <2>1. ASSUME NEW q \in Procs, pc'[q] = "scan"
        PROVE  /\ place'[at'[q]] \in {"job-", "unlocked-"} /\ linked'[at'[q]]
               /\ pages'[at'[q]] # "safe" /\ at'[q] \notin spoilt'
    <3>1. q # p /\ pc[q] = "scan" /\ at'[q] = at[q]
      BY <2>1 DEF Staging
    <3>2. at[q] \in InHand(q)
      BY <3>1 DEF InHand, Using
    <3>3. at[q] \notin InHand(p)
      BY <3>1, <3>2, AloneInHand
    <3>4. pc[p] \in Removing => at[p] # at[q]
      BY <3>3 DEF InHand, Using
    <3> QED
      BY ZenonT(40), <1>0, <3>1, <3>4 DEF WholeWhileUsed
  <2>2. ASSUME NEW q \in Procs, NEW w \in claimed'[q] \ (Using(q))'
        PROVE  place'[w] = "job-" /\ linked'[w]
    <3>1. w \in claimed[q] \ Using(q)
      BY <2>2 DEF Using
    <3>2. place[w] = "job-" /\ linked[w]
      BY <3>1 DEF WholeWhileUsed
    <3> QED
      BY <1>0, <3>2
  <2> QED
    BY <2>1, <2>2 DEF WholeWhileUsed
<1>8. SafeIsHandled'
  <2> SUFFICES ASSUME NEW w \in Spaces, pages[w] = "safe"
               PROVE  \/ \E q \in Procs : at'[q] = w /\ pc'[q] \in Removing
                      \/ ~linked[w] \/ place[w] \in {"leftover-", "gone"} \/ w \in spoilt'
    BY <1>0 DEF SafeIsHandled
  <2>1. CASE \E q \in Procs : at[q] = w /\ pc[q] \in Removing
    <3>1. PICK q \in Procs : at[q] = w /\ pc[q] \in Removing
      BY <2>1
    <3> QED
      BY <3>1
  <2>2. CASE ~linked[w] \/ place[w] \in {"leftover-", "gone"} \/ w \in spoilt
    BY <2>2
  <2> QED
    BY <2>1, <2>2 DEF SafeIsHandled
<1>9. ClaimsOnce'
  <2> SUFFICES ASSUME NEW q \in Procs
               PROVE  /\ pc'[q] \in {"idle"} \cup Staging => claimed'[q] = {}
                      /\ pc'[q] = "check place" => at'[q] \notin claimed'[q]
    BY DEF ClaimsOnce
  <2>1. CASE q = p
    BY <2>1 DEF ClaimsOnce, Staging
  <2>2. CASE q # p
    BY <2>2 DEF ClaimsOnce
  <2> QED
    BY <2>1, <2>2
<1> QED
  BY <1>1, <1>4, <1>5, <1>6, <1>7, <1>8, <1>9
Dealt(w) == ~linked[w] \/ place[w] \in {"leftover-", "gone"} \/ w \in spoilt
\* A process that works in a workspace w it has in hand, and in no other.
LEMMA WorkingKeeps ==
    ASSUME SweepInv, NEW p \in Procs, NEW w \in InHand(p), TypeOK', OthersStay(p),
           UNCHANGED <<holder, claimed>>,
           pc[p] = "recover" \/ (pc[p] \in Working /\ at[p] = w),
           pc'[p] \in Working, at'[p] = w, (InHand(p))' = InHand(p),
           \A v \in Spaces \ {w} :
              place'[v] = place[v] /\ linked'[v] = linked[v] /\ pages'[v] = pages[v],
           place'[w] = place[w] \/ place'[w] \in {"leftover-", "gone"},
           spoilt \subseteq spoilt', spoilt' \subseteq spoilt \cup {w},
           pc'[p] = "scan" =>
              /\ pc[p] = "scan" /\ pages'[w] # "safe"
              /\ place'[w] = place[w] /\ linked'[w] = linked[w] /\ spoilt' = spoilt,
           \/ pc'[p] = "scan" \/ pc'[p] \in Removing \/ Dealt(w)'
           \/ pc[p] \notin Removing /\ UNCHANGED <<disk, spoilt>>
    PROVE  SweepInv'
<1> USE DEF SweepInv
<1> USE WorkspaceAssumption DEF OthersStay
<1>1. w \in Spaces /\ place[w] \notin Unpublished /\ place'[w] \notin Unpublished
  BY HandIsPublished DEF Unpublished
<1>2. ASSUME NEW q \in Procs, q # p PROVE w \notin InHand(q) /\ (InHand(q))' = InHand(q)
  BY <1>2, AloneInHand DEF InHand, Using
<1>3. \A q \in Procs : pc'[q] \in Staging => pc[q] \in Staging /\ q # p
  BY DEF Staging, Working, Removing
<1>4. BusyIsSomewhere'
  BY <1>1 DEF BusyIsSomewhere, Busy
<1>5. StagedAlone'
  <2> SUFFICES ASSUME NEW q \in Procs, pc'[q] \in Staging
               PROVE  /\ place'[at'[q]] = ".new-"
                      /\ \A r \in Procs : pc'[r] \in Staging /\ at'[r] = at'[q] => r = q
                      /\ pc'[q] \in {"lock", "publish", "publish unlocked"} => linked'[at'[q]]
                      /\ pc'[q] = "publish" => holder'[at'[q]] = q
    BY DEF StagedAlone
  <2>1. q # p /\ pc[q] \in Staging /\ pc'[q] = pc[q] /\ at'[q] = at[q]
    BY <1>3
  <2>2. at[q] \in Spaces \ {w} /\ place[at[q]] = ".new-"
    BY <1>1, <2>1, StagedNotInHand DEF Unpublished
  <2>3. ASSUME NEW r \in Procs, pc'[r] \in Staging, at'[r] = at'[q] PROVE r = q
    <3>1. pc[r] \in Staging /\ at[r] = at[q]
      BY <1>3, <2>1, <2>3
    <3> QED
      BY <2>1, <3>1 DEF StagedAlone
  <2>4. pc'[q] \in {"lock", "publish", "publish unlocked"} => linked'[at'[q]]
    BY <2>1, <2>2 DEF StagedAlone
  <2>5. ASSUME pc'[q] = "publish" PROVE holder'[at'[q]] = q
    <3>1. pc[q] = "publish" /\ q \in Procs
      BY <2>1, <2>5
    <3>2. holder[at[q]] = q
      BY <3>1 DEF StagedAlone, Staging
    <3> QED
      BY <2>1, <3>2
  <2>6. place'[at'[q]] = ".new-"
    BY <2>1, <2>2
  <2> QED
    BY <2>3, <2>4, <2>5, <2>6
<1>6. PublishedFirst'
  <2>1. \A v \in Spaces : place'[v] \in Unpublished =>
            place[v] \in Unpublished /\ pages'[v] = pages[v] /\ (v \in spoilt' => v \in spoilt)
    BY <1>1
  <2>2. ASSUME NEW q \in Procs, pc'[q] \in Working \cup Looking
        PROVE  place'[at'[q]] \notin Unpublished
    <3>1. CASE q = p
      BY <1>1, <3>1
    <3>2. CASE q # p
      <4>1. place[at[q]] \notin Unpublished /\ at[q] \in Spaces
        BY <2>2, <3>2 DEF PublishedFirst, BusyIsSomewhere, Busy
      <4> QED
        BY <1>1, <3>2, <4>1
    <3> QED
      BY <3>1, <3>2
  <2>3. \A q \in Procs : \A v \in claimed'[q] : place'[v] \notin Unpublished
    <3>1. \A q \in Procs : claimed[q] \subseteq Spaces
      BY DEF TypeOK
    <3> QED
      BY <1>1, <3>1 DEF PublishedFirst
  <2> QED
    BY <2>1, <2>2, <2>3 DEF PublishedFirst
<1>7. HandHoldsLock'
  <2>1. ASSUME NEW q \in Procs, NEW v \in (InHand(q))'
        PROVE  holder'[v] = q \/ Untouched(q, v)'
    <3>1. v \in InHand(q) /\ v \in Spaces
      BY <1>2, <2>1, HandIsPublished
    <3>2. CASE Untouched(q, v)
      <4>1. place'[v] # "job-"
        BY <3>1, <3>2 DEF Untouched
      <4>2. pc'[q] \in Working /\ at'[q] = v
        <5>1. CASE q = p
          <6>1. at[p] = v
            BY <3>2, <5>1 DEF Untouched
          <6>2. pc[p] # "recover"
            BY <3>2, <5>1 DEF Untouched, Working, Removing
          <6> QED
            BY <5>1, <6>1, <6>2
        <5>2. CASE q # p
          BY <5>2, <3>2 DEF Untouched
        <5> QED
          BY <5>1, <5>2
      <4>3. ASSUME NEW r \in Procs \ {q} PROVE (Busy(r)' => at'[r] # v) /\ v \notin claimed'[r]
        <5>1. v \notin claimed[r] /\ (Busy(r) => at[r] # v)
          BY <3>2 DEF Untouched
        <5>2. CASE r = p
          <6>1. q # p /\ v # w
            BY <1>2, <3>1, <5>2
          <6> QED
            BY <5>1, <5>2, <6>1
        <5>3. CASE r # p
          BY <5>1, <5>3 DEF Busy
        <5> QED
          BY <5>2, <5>3
      <4> QED
        BY <4>1, <4>2, <4>3 DEF Untouched
    <3> QED
      BY <3>1, <3>2 DEF HandHoldsLock
  <2>2. ASSUME NEW q \in Procs, pc'[q] = "check place" PROVE holder'[at'[q]] = q
    <3>1. q # p /\ pc[q] = "check place"
      BY <2>2 DEF Working, Removing
    <3> QED
      BY <3>1 DEF HandHoldsLock
  <2> QED
    BY <2>1, <2>2 DEF HandHoldsLock
<1>8. WholeWhileUsed'
  <2>1. ASSUME NEW q \in Procs, pc'[q] = "scan"
        PROVE  /\ place'[at'[q]] \in {"job-", "unlocked-"} /\ linked'[at'[q]]
               /\ pages'[at'[q]] # "safe" /\ at'[q] \notin spoilt'
    <3>1. CASE q = p
      BY <2>1, <3>1 DEF WholeWhileUsed
    <3>2. CASE q # p
      <4>1. pc[q] = "scan" /\ at'[q] = at[q] /\ at[q] \in InHand(q)
        BY <2>1, <3>2 DEF InHand, Using
      <4>2. at[q] \in Spaces \ {w}
        BY <1>2, <3>2, <4>1, HandIsPublished
      <4> QED
        BY <4>1, <4>2 DEF WholeWhileUsed
    <3> QED
      BY <3>1, <3>2
  <2>2. ASSUME NEW q \in Procs, NEW v \in claimed'[q] \ (Using(q))'
        PROVE  place'[v] = "job-" /\ linked'[v]
    <3>1. v \in claimed[q] /\ v \in InHand(q) /\ v \in Spaces
      BY <2>2, HandIsPublished DEF InHand
    <3>2. v # w
      BY <1>2, <2>2, <3>1 DEF Using, Working
    <3>3. v \notin Using(q)
      BY <2>2, <3>2 DEF Using, Working, Removing
    <3> QED
      BY <3>1, <3>2, <3>3 DEF WholeWhileUsed
  <2> QED
    BY <2>1, <2>2 DEF WholeWhileUsed
<1>9. SafeIsHandled'
  <2> SUFFICES ASSUME NEW v \in Spaces, pages'[v] = "safe"
               PROVE  (\E q \in Procs : at'[q] = v /\ pc'[q] \in Removing) \/ Dealt(v)'
    BY DEF SafeIsHandled, Dealt
  <2>1. CASE v # w
    <3>1. (\E q \in Procs : at[q] = v /\ pc[q] \in Removing) \/ Dealt(v)
      BY <2>1 DEF SafeIsHandled, Dealt
    <3>2. Dealt(v) => Dealt(v)'
      BY <2>1 DEF Dealt
    <3>3. ASSUME NEW q \in Procs, at[q] = v, pc[q] \in Removing PROVE q # p
      BY <2>1, <3>3 DEF Removing, Working
    <3> QED
      BY <3>1, <3>2, <3>3
  <2>2. CASE v = w /\ (pc'[p] \in {"scan"} \cup Removing \/ Dealt(w)')
    BY <2>2
  <2>3. CASE v = w /\ pc[p] \notin Removing /\ UNCHANGED <<disk, spoilt>>
    <3>1. (\E q \in Procs : at[q] = v /\ pc[q] \in Removing) \/ Dealt(v)
      BY <2>3 DEF SafeIsHandled, Dealt, disk
    <3>2. ASSUME NEW q \in Procs, at[q] = v, pc[q] \in Removing PROVE FALSE
      BY <1>2, <2>3, <3>2 DEF InHand, Using
    <3> QED
      BY <2>3, <3>1, <3>2 DEF Dealt, disk
  <2> QED
    BY <2>1, <2>2, <2>3
<1>10. ClaimsOnce'
  <2>1. \A q \in Procs : pc'[q] \in {"idle", "check place"} \cup Staging =>
            pc'[q] = pc[q] /\ at'[q] = at[q]
    BY DEF Staging, Working, Removing
  <2> QED
    BY <2>1 DEF ClaimsOnce
<1> QED
  BY <1>4, <1>5, <1>6, <1>7, <1>8, <1>9, <1>10
\* A process that makes a staging directory w, which nobody else is near.
LEMMA StagingKeeps ==
    ASSUME SweepInv, NEW p \in Procs, NEW w \in Spaces, TypeOK', OthersStay(p),
           UNCHANGED <<pages, claimed, spoilt>>,
           \A v \in Spaces \ {w} :
              place'[v] = place[v] /\ linked'[v] = linked[v] /\ holder'[v] = holder[v],
           place[w] \in Unpublished, place'[w] \in Unpublished,
           \A q \in Procs \ {p} : Busy(q) => at[q] # w,
           pc[p] \in Staging \cup {"idle"}, pc'[p] \in Staging \cup {"idle"},
           pc'[p] \in Staging =>
              /\ at'[p] = w /\ place'[w] = ".new-"
              /\ pc'[p] \in {"lock", "publish", "publish unlocked"} => linked'[w]
              /\ pc'[p] = "publish" => holder'[w] = p
    PROVE  SweepInv'
<1> USE DEF SweepInv
<1> USE WorkspaceAssumption DEF OthersStay
<1>1. BusyIsSomewhere'
  <2> SUFFICES ASSUME NEW q \in Procs, Busy(q)' PROVE at'[q] \in Spaces
    BY DEF BusyIsSomewhere
  <2>1. CASE q = p
    BY <2>1 DEF Busy, Staging, Working, Looking, Removing
  <2>2. CASE q # p
    BY <2>2 DEF BusyIsSomewhere, Busy
  <2> QED
    BY <2>1, <2>2
<1>2. \A q \in Procs : (InHand(q))' = InHand(q) /\ (Using(q))' = Using(q)
  BY DEF InHand, Using, Staging, Removing
<1>3. ASSUME NEW q \in Procs, NEW v \in InHand(q) PROVE v \in Spaces \ {w}
  BY <1>3, HandIsPublished DEF Unpublished
<1>4. StagedAlone'
  <2> SUFFICES ASSUME NEW q \in Procs, pc'[q] \in Staging
               PROVE  /\ place'[at'[q]] = ".new-"
                      /\ \A r \in Procs : pc'[r] \in Staging /\ at'[r] = at'[q] => r = q
                      /\ pc'[q] \in {"lock", "publish", "publish unlocked"} => linked'[at'[q]]
                      /\ pc'[q] = "publish" => holder'[at'[q]] = q
    BY DEF StagedAlone
  <2>1. \A r \in Procs : pc'[r] \in Staging /\ at'[r] = w => r = p
    BY DEF Busy
  <2>2. CASE q = p
    BY <2>1, <2>2
  <2>3. CASE q # p
    <3>1. pc[q] \in Staging /\ pc'[q] = pc[q] /\ at'[q] = at[q] /\ at[q] \in Spaces \ {w}
      BY <2>3, StagedNotInHand DEF Busy
    <3>2. ASSUME NEW r \in Procs, pc'[r] \in Staging, at'[r] = at'[q] PROVE r = q
      <4>1. r # p
        BY <3>1, <3>2
      <4>2. pc[r] \in Staging /\ at[r] = at[q]
        BY <3>1, <3>2, <4>1
      <4> QED
        BY <3>1, <4>2 DEF StagedAlone
    <3>3. pc'[q] \in {"lock", "publish", "publish unlocked"} => linked'[at'[q]]
      BY <3>1 DEF StagedAlone
    <3>4. ASSUME pc'[q] = "publish" PROVE holder'[at'[q]] = q
      <4>1. holder[at[q]] = q
        BY ZenonT(40), <3>1, <3>4 DEF StagedAlone
      <4> QED
        BY ZenonT(40), <3>1, <4>1
    <3>5. place'[at'[q]] = ".new-"
      <4>1. place[at[q]] = ".new-"
        BY <3>1 DEF StagedAlone
      <4> QED
        BY <3>1, <4>1
    <3> QED
      BY <3>2, <3>3, <3>4, <3>5
  <2> QED
    BY <2>2, <2>3
<1>5. PublishedFirst'
  <2>1. \A v \in Spaces : place'[v] \in Unpublished <=> place[v] \in Unpublished
    OBVIOUS
  <2>2. \A q \in Procs : pc'[q] \in Working \cup Looking =>
            q # p /\ at[q] \in Spaces /\ pc[q] \in Working \cup Looking /\ at'[q] = at[q]
    BY DEF Staging, Working, Looking, Removing, BusyIsSomewhere, Busy
  <2>3. \A q \in Procs : claimed[q] \subseteq Spaces
    BY DEF TypeOK
  <2> QED
    BY <2>1, <2>2, <2>3 DEF PublishedFirst
<1>6. HandHoldsLock'
  <2>1. ASSUME NEW q \in Procs, NEW v \in (InHand(q))'
        PROVE  holder'[v] = q \/ Untouched(q, v)'
    <3>1. v \in InHand(q) /\ v \in Spaces \ {w}
      BY ZenonT(40), <1>2, <1>3, <2>1
    <3>2. CASE Untouched(q, v)
      <4>1. place'[v] # "job-" /\ q # p
        BY <3>1, <3>2 DEF Untouched, Working, Removing, Staging
      <4>2. pc'[q] \in Working /\ at'[q] = v
        BY <4>1, <3>2 DEF Untouched
      <4>3. ASSUME NEW r \in Procs \ {q} PROVE (Busy(r)' => at'[r] # v) /\ v \notin claimed'[r]
        <5>1. v \notin claimed[r] /\ (Busy(r) => at[r] # v)
          BY <3>2 DEF Untouched
        <5>2. r = p => (Busy(r)' => at'[r] # v)
          BY <3>1 DEF Busy, Staging, Working, Looking, Removing
        <5> QED
          BY <5>1, <5>2 DEF Busy
      <4> QED
        BY <4>1, <4>2, <4>3 DEF Untouched
    <3> QED
      BY <3>1, <3>2 DEF HandHoldsLock
  <2>2. ASSUME NEW q \in Procs, pc'[q] = "check place" PROVE holder'[at'[q]] = q
    <3>1. q # p /\ pc[q] = "check place" /\ at'[q] = at[q]
      BY <2>2 DEF Staging
    <3>2. at[q] \in Spaces \ {w}
      BY <3>1 DEF Busy, BusyIsSomewhere, Looking
    <3>3. holder[at[q]] = q
      BY <3>1 DEF HandHoldsLock
    <3> QED
      BY <3>1, <3>2, <3>3
  <2> QED
    BY <2>1, <2>2 DEF HandHoldsLock
<1>7. WholeWhileUsed'
  <2>1. ASSUME NEW q \in Procs, pc'[q] = "scan"
        PROVE  /\ place'[at'[q]] \in {"job-", "unlocked-"} /\ linked'[at'[q]]
               /\ pages'[at'[q]] # "safe" /\ at'[q] \notin spoilt'
    <3>1. q # p /\ pc[q] = "scan" /\ at'[q] = at[q]
      BY <2>1 DEF Staging
    <3>2. at[q] \in Spaces \ {w}
      BY <1>3, <3>1 DEF InHand, Using
    <3>3. /\ place[at[q]] \in {"job-", "unlocked-"} /\ linked[at[q]]
          /\ pages[at[q]] # "safe" /\ at[q] \notin spoilt
      BY <3>1 DEF WholeWhileUsed
    <3> QED
      BY ZenonT(40), <3>1, <3>2, <3>3
  <2>2. ASSUME NEW q \in Procs, NEW v \in claimed'[q] \ (Using(q))'
        PROVE  place'[v] = "job-" /\ linked'[v]
    <3>1. v \in claimed[q] \ Using(q)
      BY <1>2, <2>2
    <3>2. v \in Spaces \ {w}
      BY <1>3, <3>1 DEF InHand
    <3>3. place[v] = "job-" /\ linked[v]
      BY <3>1 DEF WholeWhileUsed
    <3> QED
      BY <3>2, <3>3
  <2> QED
    BY <2>1, <2>2 DEF WholeWhileUsed
<1>8. SafeIsHandled'
  <2> SUFFICES ASSUME NEW v \in Spaces, pages[v] = "safe"
               PROVE  \/ \E q \in Procs : at'[q] = v /\ pc'[q] \in Removing
                      \/ ~linked'[v] \/ place'[v] \in {"leftover-", "gone"} \/ v \in spoilt'
    BY DEF SafeIsHandled
  <2>1. v # w
    BY DEF PublishedFirst
  <2>2. \A q \in Procs : pc[q] \in Removing => q # p
    BY DEF Removing, Staging
  <2> QED
    BY <2>1, <2>2 DEF SafeIsHandled
<1>9. ClaimsOnce'
  <2>1. \A q \in Procs : pc'[q] \in {"idle"} \cup Staging => pc[q] \in {"idle"} \cup Staging
    OBVIOUS
  <2>2. \A q \in Procs : pc'[q] = "check place" => pc[q] = "check place" /\ at'[q] = at[q]
    BY DEF Staging
  <2> QED
    BY <2>1, <2>2 DEF ClaimsOnce
<1> QED
  BY <1>1, <1>4, <1>5, <1>6, <1>7, <1>8, <1>9
\* A process that publishes the workspace it made.
LEMMA PublishingKeeps ==
    ASSUME SweepInv, NEW p \in Procs, NEW w \in Spaces, TypeOK', OthersStay(p),
           UNCHANGED <<linked, pages, holder, at, claimed, spoilt>>,
           \A v \in Spaces \ {w} : place'[v] = place[v],
           pc[p] \in {"publish", "publish unlocked"}, pc'[p] = "scan", at[p] = w,
           \/ pc[p] = "publish" /\ place'[w] = "job-"
           \/ pc[p] = "publish unlocked" /\ place'[w] = "unlocked-"
    PROVE  SweepInv'
<1> USE DEF SweepInv
<1> USE WorkspaceAssumption DEF OthersStay
<1>1. /\ place[w] = ".new-" /\ linked[w] /\ pages[w] = "none" /\ w \notin spoilt
      /\ pc[p] = "publish" => holder[w] = p
      /\ \A q \in Procs : w \notin InHand(q) /\ w \notin claimed[q]
      /\ \A q \in Procs \ {p} : Busy(q) => at[q] # w
  BY StagedNotInHand DEF StagedAlone, Staging
<1>2. /\ \A q \in Procs \ {p} : (InHand(q))' = InHand(q) /\ (Using(q))' = Using(q)
      /\ Using(p) = {} /\ (Using(p))' = {w} /\ (InHand(p))' = InHand(p) \cup {w}
  BY DEF InHand, Using, Removing
<1>3. BusyIsSomewhere'
  BY DEF BusyIsSomewhere, Busy
<1>4. StagedAlone'
  <2>1. \A q \in Procs : pc'[q] \in Staging =>
            q # p /\ pc[q] \in Staging /\ pc'[q] = pc[q] /\ at[q] \in Spaces \ {w}
    BY <1>1, StagedNotInHand DEF Staging, Busy
  <2>2. ASSUME NEW q \in Procs, pc'[q] \in Staging
        PROVE  /\ place'[at[q]] = ".new-"
               /\ pc'[q] \in {"lock", "publish", "publish unlocked"} => linked'[at[q]]
    <3>1. pc[q] \in Staging /\ pc'[q] = pc[q] /\ at[q] \in Spaces \ {w}
      BY <2>1, <2>2
    <3>2. place[at[q]] = ".new-"
      BY <3>1, StagedNotInHand
    <3>3. pc[q] \in {"lock", "publish", "publish unlocked"} => linked[at[q]]
      BY <3>1 DEF StagedAlone
    <3> QED
      BY <3>1, <3>2, <3>3
  <2>3. \A q \in Procs : pc'[q] = "publish" => holder'[at[q]] = q
    BY <2>1 DEF StagedAlone, Staging
  <2>4. \A q, r \in Procs : pc'[q] \in Staging /\ pc'[r] \in Staging /\ at[r] = at[q] => r = q
    BY <2>1 DEF StagedAlone
  <2> QED
    BY <2>2, <2>3, <2>4 DEF StagedAlone
<1>5. PublishedFirst'
  <2>1. \A v \in Spaces : place'[v] \in Unpublished => place[v] \in Unpublished
    BY DEF Unpublished
  <2>2. \A q \in Procs : pc'[q] \in Working \cup Looking => at[q] \in Spaces
    BY DEF BusyIsSomewhere, Busy
  <2>3. \A q \in Procs \ {p} : pc'[q] \in Working \cup Looking => pc[q] \in Working \cup Looking
    OBVIOUS
  <2>4. \A q \in Procs : claimed[q] \subseteq Spaces
    BY DEF TypeOK
  <2>5. place'[w] \notin Unpublished
    BY DEF Unpublished
  <2> QED
    BY <2>1, <2>2, <2>3, <2>4, <2>5 DEF PublishedFirst
<1>6. HandHoldsLock'
  <2>1. ASSUME NEW q \in Procs, NEW v \in (InHand(q))'
        PROVE  holder'[v] = q \/ Untouched(q, v)'
    <3>1. CASE v = w
      <4>1. q = p
        <5>1. q # p => v \in InHand(q)
          BY <1>2, <2>1
        <5> QED
          BY <1>1, <3>1, <5>1
      <4>2. CASE pc[p] = "publish"
        BY <1>1, <3>1, <4>1, <4>2
      <4>3. CASE pc[p] = "publish unlocked"
        <5>1. \A r \in Procs \ {p} : Busy(r)' <=> Busy(r)
          BY DEF Busy
        <5> QED
          BY <1>1, <3>1, <4>1, <4>3, <5>1 DEF Untouched, Working
      <4> QED
        BY <4>2, <4>3
    <3>2. CASE v # w
      <4>1. v \in InHand(q) /\ v \in Spaces
        <5>1. v \in InHand(q)
          BY <1>2, <2>1, <3>2
        <5> QED
          BY <5>1, HandIsPublished
      <4>2. CASE Untouched(q, v)
        <5>1. q # p
          BY <4>2 DEF Untouched, Working, Removing
        <5>2. place'[v] # "job-" /\ pc'[q] \in Working /\ at'[q] = v
          BY <3>2, <4>1, <4>2, <5>1 DEF Untouched
        <5>3. \A r \in Procs \ {q} : (Busy(r)' => at'[r] # v) /\ v \notin claimed'[r]
          BY <3>2, <4>2 DEF Untouched, Busy
        <5> QED
          BY <5>2, <5>3 DEF Untouched
      <4> QED
        BY <4>1, <4>2 DEF HandHoldsLock
    <3> QED
      BY <3>1, <3>2
  <2>2. ASSUME NEW q \in Procs, pc'[q] = "check place" PROVE holder'[at'[q]] = q
    BY <2>2 DEF HandHoldsLock
  <2> QED
    BY <2>1, <2>2 DEF HandHoldsLock
<1>7. WholeWhileUsed'
  <2>1. ASSUME NEW q \in Procs, pc'[q] = "scan"
        PROVE  /\ place'[at'[q]] \in {"job-", "unlocked-"} /\ linked'[at'[q]]
               /\ pages'[at'[q]] # "safe" /\ at'[q] \notin spoilt'
    <3>1. CASE q = p
      BY <1>1, <3>1
    <3>2. CASE q # p
      <4>1. pc[q] = "scan" /\ at[q] \in InHand(q)
        BY <2>1, <3>2 DEF InHand, Using
      <4>2. at[q] \in Spaces \ {w}
        BY <1>1, <4>1, HandIsPublished
      <4> QED
        BY <4>1, <4>2 DEF WholeWhileUsed
    <3> QED
      BY <3>1, <3>2
  <2>2. ASSUME NEW q \in Procs, NEW v \in claimed'[q] \ (Using(q))'
        PROVE  place'[v] = "job-" /\ linked'[v]
    <3>1. v \in claimed[q] \ Using(q)
      BY <1>2, <2>2
    <3>2. v \in Spaces \ {w}
      <4>1. v \in InHand(q)
        BY <3>1 DEF InHand
      <4> QED
        BY <1>1, <4>1, HandIsPublished
    <3>3. place[v] = "job-" /\ linked[v]
      BY <3>1 DEF WholeWhileUsed
    <3> QED
      BY <3>2, <3>3
  <2> QED
    BY <2>1, <2>2 DEF WholeWhileUsed
<1>8. SafeIsHandled'
  <2>1. \A q \in Procs : pc[q] \in Removing => q # p
    BY DEF Removing
  <2>2. \A v \in Spaces : pages'[v] = "safe" => v # w
    BY <1>1
  <2> QED
    BY <2>1, <2>2 DEF SafeIsHandled
<1>9. ClaimsOnce'
  BY DEF ClaimsOnce, Staging
<1> QED
  BY <1>3, <1>4, <1>5, <1>6, <1>7, <1>8, <1>9

\* A sweep that gets the lock of an entry it opened.
LEMMA LockingKeeps ==
    ASSUME SweepInv, NEW p \in Procs, TypeOK', OthersStay(p),
           UNCHANGED <<disk, at, claimed, spoilt>>,
           pc[p] = "try lock", pc'[p] = "check place",
           holder[at[p]] = Nobody, holder'[at[p]] = p,
           \A v \in Spaces \ {at[p]} : holder'[v] = holder[v]
    PROVE  SweepInv'
<1> USE DEF SweepInv
<1> USE WorkspaceAssumption DEF OthersStay
<1>1. \A q \in Procs : at[p] \notin InHand(q)
  <2> SUFFICES ASSUME NEW q \in Procs, at[p] \in InHand(q) PROVE FALSE
    OBVIOUS
  <2>1. Untouched(q, at[p])
    BY DEF HandHoldsLock
  <2> QED
    BY <2>1 DEF Untouched, Busy, Looking, Working, Removing
<1>2. \A q \in Procs : (InHand(q))' = InHand(q) /\ (Using(q))' = Using(q)
  BY DEF InHand, Using, Removing
<1>3. \A q \in Procs : Busy(q)' <=> Busy(q)
  BY DEF Busy, Looking
<1>4. \A q \in Procs : pc'[q] \in Staging \cup Working => pc'[q] = pc[q] /\ q # p
  BY DEF Staging, Working, Removing
<1>5. BusyIsSomewhere'
  BY <1>3 DEF BusyIsSomewhere
<1>6. StagedAlone'
  <2>1. \A q \in Procs : pc'[q] = "publish" => holder'[at[q]] = q
    <3> SUFFICES ASSUME NEW q \in Procs, pc'[q] = "publish" PROVE holder'[at[q]] = q
      OBVIOUS
    <3>1. pc[q] = "publish" /\ at[q] \in Spaces
      BY DEF BusyIsSomewhere, Busy, Staging
    <3>2. holder[at[q]] = q
      BY <3>1 DEF StagedAlone, Staging
    <3> QED
      BY <3>1, <3>2
  <2> QED
    BY ZenonT(40), <1>4, <2>1 DEF StagedAlone, disk
<1>7. PublishedFirst'
  <2>1. \A q \in Procs : pc'[q] \in Working \cup Looking => pc[q] \in Working \cup Looking
    BY DEF Looking
  <2> QED
    BY <2>1 DEF PublishedFirst, disk
<1>8. HandHoldsLock'
  <2>1. ASSUME NEW q \in Procs, NEW v \in InHand(q)
        PROVE  holder'[v] = q \/ Untouched(q, v)'
    <3>1. v \in Spaces \ {at[p]}
      BY <1>1, HandIsPublished
    <3>2. Untouched(q, v) => Untouched(q, v)'
      BY <1>3, <1>4 DEF Untouched, disk, Working, Removing
    <3> QED
      BY <3>1, <3>2 DEF HandHoldsLock
  <2>2. ASSUME NEW q \in Procs, pc'[q] = "check place" PROVE holder'[at'[q]] = q
    <3>1. CASE q = p
      BY <3>1
    <3>2. CASE q # p
      <4>1. holder[at[q]] = q /\ at[q] \in Spaces
        BY <2>2, <3>2 DEF HandHoldsLock, BusyIsSomewhere, Busy, Looking
      <4> QED
        BY <4>1
    <3> QED
      BY <3>1, <3>2
  <2>3. \A q \in Procs : \A v \in (InHand(q))' : holder'[v] = q \/ Untouched(q, v)'
    BY <1>2, <2>1
  <2> QED
    BY <2>2, <2>3 DEF HandHoldsLock
<1>9. WholeWhileUsed'
  <2>1. \A q \in Procs : pc'[q] = "scan" => pc[q] = "scan"
    OBVIOUS
  <2> QED
    BY <1>2, <2>1 DEF WholeWhileUsed, disk
<1>10. SafeIsHandled'
  <2>1. \A q \in Procs : pc[q] \in Removing => pc'[q] = pc[q]
    BY DEF Removing
  <2> QED
    BY <2>1 DEF SafeIsHandled, disk
<1>11. ClaimsOnce'
  <2>1. at[p] \notin claimed[p]
    BY <1>1 DEF InHand
  <2>2. pc'[p] \notin {"idle"} \cup Staging
    BY DEF Staging
  <2> QED
    BY <2>1, <2>2 DEF ClaimsOnce
<1> QED
  BY <1>5, <1>6, <1>7, <1>8, <1>9, <1>10, <1>11

\* A sweep that claims what it locked, and found still in place.
LEMMA ClaimingKeeps ==
    ASSUME SweepInv, NEW p \in Procs, NEW w \in Spaces, TypeOK', OthersStay(p),
           UNCHANGED <<disk, holder, spoilt>>,
           pc[p] = "check place", pc'[p] = "claim", at[p] = w,
           place[w] = "job-", linked[w], claimed'[p] = claimed[p] \cup {w}
    PROVE  SweepInv' /\ \A q \in Procs \ {p} : w \notin InHand(q)
<1> USE DEF SweepInv
<1> USE WorkspaceAssumption DEF OthersStay
<1>1. holder[w] = p
  BY DEF HandHoldsLock
<1>2. \A q \in Procs \ {p} : w \notin InHand(q) /\ w \notin claimed[q]
  <2> SUFFICES ASSUME NEW q \in Procs \ {p}, w \in InHand(q) PROVE FALSE
    BY DEF InHand
  <2>1. holder[w] = q
    BY DEF HandHoldsLock, Untouched
  <2> QED
    BY <1>1, <2>1
<1>3. /\ \A q \in Procs \ {p} : (InHand(q))' = InHand(q) /\ (Using(q))' = Using(q)
      /\ Using(p) = {} /\ (Using(p))' = {} /\ (InHand(p))' = InHand(p) \cup {w}
  BY DEF InHand, Using, Removing
<1>4. \A q \in Procs : Busy(q)' => Busy(q) /\ q # p /\ at'[q] = at[q]
  BY DEF Busy, Looking, Staging, Working, Removing
<1>5. \A q \in Procs : pc'[q] # "claim" => q # p
  OBVIOUS
<1>6. BusyIsSomewhere'
  BY <1>4 DEF BusyIsSomewhere
<1>7. StagedAlone'
  <2>1. \A q \in Procs : pc'[q] \in Staging =>
            pc[q] \in Staging /\ pc'[q] = pc[q] /\ at'[q] = at[q]
    BY DEF Staging
  <2>2. ASSUME NEW q \in Procs, pc'[q] \in Staging
        PROVE  /\ place'[at'[q]] = ".new-"
               /\ pc'[q] \in {"lock", "publish", "publish unlocked"} => linked'[at'[q]]
    <3>1. pc[q] \in Staging /\ pc'[q] = pc[q] /\ at'[q] = at[q]
      BY <2>1, <2>2
    <3>2. place[at[q]] = ".new-"
      BY <3>1, StagedNotInHand
    <3>3. pc[q] \in {"lock", "publish", "publish unlocked"} => linked[at[q]]
      BY <3>1 DEF StagedAlone
    <3> QED
      BY <3>1, <3>2, <3>3 DEF disk
  <2>3. ASSUME NEW q \in Procs, pc'[q] = "publish" PROVE holder'[at'[q]] = q
    <3>1. pc[q] \in Staging /\ pc[q] = "publish" /\ at'[q] = at[q]
      BY <2>1, <2>3 DEF Staging
    <3>2. holder[at[q]] = q
      BY <3>1 DEF StagedAlone
    <3> QED
      BY <3>1, <3>2
  <2>4. \A q, r \in Procs : pc'[q] \in Staging /\ pc'[r] \in Staging /\ at'[r] = at'[q] => r = q
    BY ZenonT(40), <2>1 DEF StagedAlone
  <2> QED
    BY <2>2, <2>3, <2>4 DEF StagedAlone
<1>8. PublishedFirst'
  <2>1. \A q \in Procs : pc'[q] \in Working \cup Looking =>
            pc[q] \in Working \cup Looking /\ at'[q] = at[q]
    BY DEF Looking, Working, Removing
  <2>2. place[w] \notin Unpublished
    BY DEF Unpublished
  <2>3. \A q \in Procs : \A v \in claimed'[q] : place[v] \notin Unpublished
    BY <2>2 DEF PublishedFirst
  <2> QED
    BY <2>1, <2>3 DEF PublishedFirst, disk
<1>9. HandHoldsLock'
  <2>1. ASSUME NEW q \in Procs, NEW v \in (InHand(q))', v \in InHand(q)
        PROVE  holder'[v] = q \/ Untouched(q, v)'
    <3>1. CASE Untouched(q, v)
      <4>1. q # p /\ v # w
        BY <3>1 DEF Untouched, Working, Removing
      <4>2. place'[v] # "job-" /\ pc'[q] \in Working /\ at'[q] = v
        BY <3>1, <4>1 DEF Untouched, disk
      <4>3. \A r \in Procs \ {q} : (Busy(r)' => at'[r] # v) /\ v \notin claimed'[r]
        BY ZenonT(40), <1>4, <3>1, <4>1 DEF Untouched
      <4> QED
        BY <4>2, <4>3 DEF Untouched
    <3> QED
      BY <2>1, <3>1 DEF HandHoldsLock
  <2>2. ASSUME NEW q \in Procs, NEW v \in (InHand(q))', v \notin InHand(q)
        PROVE  holder'[v] = q
    BY <1>1, <1>3, <2>2
  <2>3. ASSUME NEW q \in Procs, pc'[q] = "check place" PROVE holder'[at'[q]] = q
    BY <1>5, <2>3 DEF HandHoldsLock
  <2> QED
    BY <2>1, <2>2, <2>3 DEF HandHoldsLock
<1>10. WholeWhileUsed'
  <2>1. \A q \in Procs : pc'[q] = "scan" => pc[q] = "scan" /\ at'[q] = at[q]
    OBVIOUS
  <2>2. ASSUME NEW q \in Procs, NEW v \in claimed'[q] \ (Using(q))'
        PROVE  v = w \/ v \in claimed[q] \ Using(q)
    BY <1>3, <2>2
  <2> QED
    BY ZenonT(40), <2>1, <2>2 DEF WholeWhileUsed, disk
<1>11. SafeIsHandled'
  <2>1. \A q \in Procs : pc[q] \in Removing => pc'[q] = pc[q] /\ at'[q] = at[q]
    BY DEF Removing
  <2> QED
    BY ZenonT(40), <2>1 DEF SafeIsHandled, disk
<1>12. ClaimsOnce'
  BY DEF ClaimsOnce, Staging
<1> QED
  BY <1>2, <1>6, <1>7, <1>8, <1>9, <1>10, <1>11, <1>12
-----------------------------------------------------------------------------
(* The refinement mapping. *)

\* Nobody is the owner among nobody, and the only one in hand is the owner.
LEMMA OwnerAmongFew ==
    /\ OwnerAmong({}) = Nobody
    /\ \A p : OwnerAmong({p}) = p
<1>1. Cardinality({}) = 0
  BY FS_EmptySet
<1>2. \A p : Cardinality({p}) = 1
  BY FS_Singleton
<1>3. \A p : (CHOOSE q \in {p} : TRUE) = p
  OBVIOUS
<1>4. OwnerAmong({}) = Nobody
  BY <1>1 DEF OwnerAmong
<1>5. ASSUME NEW p PROVE OwnerAmong({p}) = p
  <2>1. OwnerAmong({p}) = CHOOSE q \in {p} : TRUE
    BY <1>2, 0 # 1 DEF OwnerAmong
  <2> QED
    BY <1>3, <2>1
<1> QED
  BY <1>4, <1>5

OwnerIsTheHand ==
    /\ DOMAIN Owner = Spaces
    /\ \A w \in Spaces :
          /\ Owner[w] \in Procs \cup {Nobody}
          /\ \A p \in Procs : Owner[w] = p <=> w \in InHand(p)

\* The owner is whoever has the workspace in hand.
LEMMA OwnerFacts == SweepInv => OwnerIsTheHand
<1> SUFFICES ASSUME SweepInv, NEW w \in Spaces
             PROVE  /\ Owner[w] \in Procs \cup {Nobody}
                    /\ \A p \in Procs : Owner[w] = p <=> w \in InHand(p)
  BY DEF OwnerIsTheHand, Owner
<1>1. Owner[w] = OwnerAmong(Hands(w))
  BY DEF Owner
<1>2. CASE Hands(w) = {}
  BY <1>1, <1>2, OwnerAmongFew, WorkspaceAssumption DEF Hands
<1>3. CASE Hands(w) # {}
  <2>1. PICK p \in Procs : w \in InHand(p)
    BY <1>3 DEF Hands
  <2>2. Hands(w) = {p}
    BY <2>1, AloneInHand DEF Hands
  <2>3. Owner[w] = p
    BY <1>1, <2>2, OwnerAmongFew
  <2> QED
    BY <2>2, <2>3 DEF Hands
<1> QED
  BY <1>2, <1>3

\* The same of the next state.
LEMMA OwnerFactsNext == SweepInv' => OwnerIsTheHand'
  BY OwnerFacts, PTL

FateIsTheDisk ==
    /\ DOMAIN Fate = Spaces
    /\ \A w \in Spaces :
          /\ place[w] \in Unpublished => Fate[w] = "none"
          /\ place[w] \notin Unpublished =>
                /\ w \in spoilt => Fate[w] = "spoilt"
                /\ w \notin spoilt /\ Settled(w) => Fate[w] = "settled"
                /\ w \notin spoilt /\ ~Settled(w) => Fate[w] = "open"

\* The fate, by what is on the disk.
LEMMA FateFacts == FateIsTheDisk
  BY DEF FateIsTheDisk, Fate, Unpublished
\* The same of the next state.
LEMMA FateFactsNext == FateIsTheDisk'
  BY FateFacts, PTL

\* With the same in hand there is the same owner.
LEMMA SameOwner ==
    ASSUME SweepInv, SweepInv', \A q \in Procs : (InHand(q))' = InHand(q)
    PROVE  Owner' = Owner
<1>1. \A w \in Spaces : Owner'[w] = Owner[w]
  BY OwnerFacts, OwnerFactsNext, WorkspaceAssumption DEF OwnerIsTheHand
<1> QED
  BY <1>1, OwnerFacts, OwnerFactsNext DEF OwnerIsTheHand, Owner

CustodyStep == Custody!Next \/ UNCHANGED <<Owner, Fate>>

\* What creates a workspace is PageCustody's Create.
LEMMA CreateStep ==
    ASSUME NEW p \in Procs, NEW w \in Spaces, Fate[w] = "none", Owner[w] = Nobody,
           Owner' = [Owner EXCEPT ![w] = p], Fate' = [Fate EXCEPT ![w] = "open"]
    PROVE  CustodyStep
  BY DEF CustodyStep, Custody!Next, Custody!Create, Custody!Nobody, Nobody

\* A hand closing on an unheld workspace is PageCustody's TakeUp.
LEMMA TakeUpStep ==
    ASSUME NEW p \in Procs, NEW w \in Spaces, Owner[w] = Nobody,
           Fate[w] \in {"open", "spoilt"}, Owner' = [Owner EXCEPT ![w] = p], Fate' = Fate
    PROVE  CustodyStep
  BY DEF CustodyStep, Custody!Next, Custody!TakeUp, Custody!Nobody, Nobody

\* A holder that keeps or ends its workspace takes PageCustody's Settle.
LEMMA SettleStep ==
    ASSUME NEW w \in Spaces, Owner[w] # Nobody, Fate[w] = "open",
           Fate' = [Fate EXCEPT ![w] = "settled"], Owner' = Owner
    PROVE  CustodyStep
  BY DEF CustodyStep, Custody!Next, Custody!Settle, Custody!Nobody, Nobody

\* A removal cut short before its end is PageCustody's Spoil.
LEMMA SpoilStep ==
    ASSUME NEW w \in Spaces, NEW W \in SUBSET {v \in Spaces : Owner[v] = Owner[w]},
           Owner[w] # Nobody, Fate[w] = "settled", Fate' = [Fate EXCEPT ![w] = "spoilt"],
           Owner' = [v \in Spaces |-> IF v \in W THEN Nobody ELSE Owner[v]]
    PROVE  CustodyStep
  BY DEF CustodyStep, Custody!Next, Custody!Spoil, Custody!Nobody, Nobody

\* Hands that open together take PageCustody's LetGo, or none do and it stutters.
LEMMA LetGoStep ==
    ASSUME NEW W \in SUBSET Spaces, \A w \in W : Owner[w] # Nobody, Fate' = Fate,
           Owner' = [w \in Spaces |-> IF w \in W THEN Nobody ELSE Owner[w]]
    PROVE  CustodyStep
<1>1. CASE W = {}
  <2>1. Owner' = [w \in Spaces |-> Owner[w]]
    BY <1>1
  <2>2. Owner' = Owner
    BY <2>1 DEF Owner
  <2> QED
    BY <2>2 DEF CustodyStep
<1>2. CASE W # {}
  BY <1>2 DEF CustodyStep, Custody!Next, Custody!LetGo, Custody!Nobody, Nobody
<1> QED
  BY <1>1, <1>2
-----------------------------------------------------------------------------
(* Each kind of step is one of PageCustody's, or none. *)

\* Letting go of what it had in hand, a process may leave a removal half done.
LEMMA LettingGoMaps ==
    ASSUME SweepInv, SweepInv', NEW p \in Procs, OthersStay(p), UNCHANGED disk,
           pc'[p] \notin Working, claimed'[p] \subseteq claimed[p],
           \/ pc[p] \notin Removing /\ spoilt' = spoilt
           \/ pc[p] \in Removing /\ spoilt' = spoilt \cup {at[p]}
    PROVE  CustodyStep
<1> DEFINE W == InHand(p) \ claimed'[p]
<1> USE WorkspaceAssumption DEF OthersStay
<1>1. W \in SUBSET Spaces
  BY HandIsPublished
<1>2. /\ \A q \in Procs \ {p} : (InHand(q))' = InHand(q)
      /\ (InHand(p))' = InHand(p) \ W
  BY DEF InHand, Using, Working
<1>3. \A v \in Spaces : Owner'[v] = IF v \in W THEN Nobody ELSE Owner[v]
  <2> SUFFICES ASSUME NEW v \in Spaces PROVE Owner'[v] = IF v \in W THEN Nobody ELSE Owner[v]
    OBVIOUS
  <2>1. CASE v \in W
    <3>1. Owner[v] = p
      BY <2>1, OwnerFacts DEF OwnerIsTheHand
    <3>2. \A q \in Procs : v \notin (InHand(q))'
      BY <1>2, <2>1, AloneInHand
    <3> QED
      BY <2>1, <3>2, OwnerFactsNext DEF OwnerIsTheHand
  <2>2. CASE v \notin W
    <3>1. \A q \in Procs : v \in (InHand(q))' <=> v \in InHand(q)
      BY <1>2, <2>2
    <3> QED
      BY <2>2, <3>1, OwnerFacts, OwnerFactsNext DEF OwnerIsTheHand
  <2> QED
    BY <2>1, <2>2
<1>4. Owner' = [v \in Spaces |-> IF v \in W THEN Nobody ELSE Owner[v]]
  BY <1>3, OwnerFactsNext DEF OwnerIsTheHand, Owner
<1>5. \A v \in W : Owner[v] = p
  BY <1>1, OwnerFacts DEF OwnerIsTheHand
<1> HIDE DEF W
<1>6. ASSUME NEW v \in Spaces, pc[p] \in Removing => v # at[p]
      PROVE  Fate'[v] = Fate[v]
  <2>1. Settled(v)' <=> Settled(v)
    BY <1>6 DEF Settled, disk, Removing, Working
  <2>2. v \in spoilt' <=> v \in spoilt
    BY <1>6
  <2> QED
    BY <2>1, <2>2, FateFacts, FateFactsNext DEF FateIsTheDisk, disk
<1>7. CASE pc[p] \notin Removing
  <2>1. Fate' = Fate
    BY <1>6, <1>7, FateFacts, FateFactsNext DEF FateIsTheDisk, Fate
  <2> QED
    BY <1>1, <1>4, <1>5, <2>1, LetGoStep
<1>8. CASE pc[p] \in Removing
  <2>1. at[p] \in Spaces /\ at[p] \in InHand(p) /\ place[at[p]] \notin Unpublished
    BY <1>8, HandIsPublished DEF InHand, Using
  <2>2. Owner[at[p]] = p
    BY <2>1, OwnerFacts DEF OwnerIsTheHand
  <2>3. Fate'[at[p]] = "spoilt"
    BY <1>8, <2>1, FateFactsNext DEF FateIsTheDisk, disk, Removing
  <2>4. CASE at[p] \in spoilt
    <3>1. Fate[at[p]] = "spoilt"
      BY <2>1, <2>4, FateFacts DEF FateIsTheDisk
    <3>2. Fate' = Fate
      BY <1>6, <2>3, <3>1, FateFacts, FateFactsNext DEF FateIsTheDisk, Fate
    <3> QED
      BY <1>1, <1>4, <1>5, <3>2, LetGoStep
  <2>5. CASE at[p] \notin spoilt
    <3>1. Settled(at[p])
      BY <1>8 DEF Settled
    <3>2. Fate[at[p]] = "settled"
      BY <2>1, <2>5, <3>1, FateFacts DEF FateIsTheDisk
    <3>3. \A v \in Spaces : Fate'[v] = [Fate EXCEPT ![at[p]] = "spoilt"][v]
      BY <1>6, <2>3, FateFacts DEF FateIsTheDisk
    <3>4. Fate' = [Fate EXCEPT ![at[p]] = "spoilt"]
      BY <3>3, FateFacts, FateFactsNext DEF FateIsTheDisk, Fate
    <3>5. W \in SUBSET {v \in Spaces : Owner[v] = Owner[at[p]]}
      BY <1>1, <1>5, <2>2
    <3> QED
      BY ZenonT(40), <1>4, <2>1, <2>2, <3>2, <3>4, <3>5, SpoilStep
  <2> QED
    BY <2>4, <2>5
<1> QED
  BY <1>7, <1>8

\* Working in a workspace, a process settles it, or spoils it, or goes on.
LEMMA WorkingMaps ==
    ASSUME SweepInv, SweepInv', NEW p \in Procs, NEW w \in InHand(p), OthersStay(p),
           pc[p] = "recover" \/ (pc[p] \in Working /\ at[p] = w),
           at'[p] = w, (InHand(p))' = InHand(p),
           \A v \in Spaces \ {w} :
              place'[v] = place[v] /\ linked'[v] = linked[v] /\ pages'[v] = pages[v],
           spoilt \subseteq spoilt', spoilt' \subseteq spoilt \cup {w},
           w \in spoilt' => w \in spoilt \/ pc[p] \in Removing,
           pc'[p] = "scan" => pc[p] = "scan",
           \/ pc'[p] = "scan" \/ pc'[p] \in Removing \/ Dealt(w)'
           \/ pc[p] \notin Removing /\ UNCHANGED <<disk, spoilt>>
    PROVE  CustodyStep
<1> USE WorkspaceAssumption DEF OthersStay
<1>1. w \in Spaces /\ place[w] \notin Unpublished
  BY HandIsPublished
<1>2. \A q \in Procs : (InHand(q))' = InHand(q)
  BY DEF InHand, Using
<1>3. Owner' = Owner
  BY <1>2, SameOwner
<1>4. place'[w] \notin Unpublished
  <2>1. w \in (InHand(p))'
    OBVIOUS
  <2> QED
    BY <2>1 DEF SweepInv, PublishedFirst, InHand, Using, Working
<1>5. Owner[w] = p
  BY <1>1, OwnerFacts DEF OwnerIsTheHand
<1>6. ASSUME NEW v \in Spaces \ {w} PROVE Fate'[v] = Fate[v]
  <2>1. Settled(v)' <=> Settled(v)
    BY DEF Settled, Removing, Working
  <2>2. v \in spoilt' <=> v \in spoilt
    OBVIOUS
  <2> QED
    BY <2>1, <2>2, FateFacts, FateFactsNext DEF FateIsTheDisk
<1>7. \A f : Fate'[w] = f => Fate' = [Fate EXCEPT ![w] = f]
  <2> SUFFICES ASSUME NEW f, Fate'[w] = f PROVE Fate' = [Fate EXCEPT ![w] = f]
    OBVIOUS
  <2>1. \A v \in Spaces : Fate'[v] = [Fate EXCEPT ![w] = f][v]
    BY <1>1, <1>6, FateFacts DEF FateIsTheDisk
  <2> QED
    BY <2>1, FateFacts, FateFactsNext DEF FateIsTheDisk, Fate
<1>8. CASE Fate'[w] = Fate[w]
  <2>1. Fate' = [Fate EXCEPT ![w] = Fate[w]]
    BY <1>7, <1>8
  <2>2. Fate' = Fate
    BY <2>1, FateFacts DEF FateIsTheDisk, Fate
  <2> QED
    BY <1>3, <2>2 DEF CustodyStep
<1>9. CASE w \in spoilt' /\ w \notin spoilt
  <2>1. Settled(w)
    BY <1>1, <1>9 DEF Settled, Removing
  <2>2. Fate[w] = "settled" /\ Fate'[w] = "spoilt"
    BY <1>1, <1>4, <1>9, <2>1, FateFacts, FateFactsNext DEF FateIsTheDisk
  <2>3. Owner' = [v \in Spaces |-> IF v \in {} THEN Nobody ELSE Owner[v]]
    BY <1>3, OwnerFacts DEF OwnerIsTheHand, Owner
  <2>4. {} \in SUBSET {v \in Spaces : Owner[v] = Owner[w]} /\ Owner[w] # Nobody
    BY <1>5
  <2> QED
    BY ZenonT(40), <1>1, <1>7, <2>2, <2>3, <2>4, SpoilStep
<1>10. CASE w \notin spoilt'
  <2>1. Settled(w) => Settled(w)'
    <3> SUFFICES ASSUME Settled(w) PROVE Settled(w)'
      OBVIOUS
    <3>1. CASE pc'[p] = "scan"
      <4>1. pc[p] = "scan" /\ at[p] = w
        BY <3>1 DEF Working
      <4>2. linked[w] /\ pages[w] # "safe" /\ place[w] \notin {"leftover-", "gone"}
        BY <4>1 DEF SweepInv, WholeWhileUsed
      <4>3. PICK q \in Procs : at[q] = w /\ pc[q] \in Removing
        BY <4>2 DEF Settled
      <4>4. q = p
        BY <4>3, AloneInHand DEF InHand, Using
      <4> QED
        BY <4>1, <4>3, <4>4 DEF Removing
    <3>2. CASE pc'[p] \in Removing
      BY <3>2 DEF Settled
    <3>3. CASE Dealt(w)'
      BY <1>10, <3>3 DEF Settled, Dealt
    <3>4. CASE pc[p] \notin Removing /\ UNCHANGED <<disk, spoilt>>
      BY <3>4 DEF Settled, disk
    <3> QED
      BY <3>1, <3>2, <3>3, <3>4
  <2>2. w \notin spoilt
    BY <1>10
  <2>3. CASE Settled(w) <=> Settled(w)'
    <3>1. Fate'[w] = Fate[w]
      BY <1>1, <1>4, <1>10, <2>2, <2>3, FateFacts, FateFactsNext DEF FateIsTheDisk
    <3> QED
      BY <1>8, <3>1
  <2>4. CASE ~Settled(w) /\ Settled(w)'
    <3>1. Fate[w] = "open" /\ Fate'[w] = "settled"
      BY <1>1, <1>4, <1>10, <2>2, <2>4, FateFacts, FateFactsNext DEF FateIsTheDisk
    <3> QED
      BY <1>1, <1>3, <1>5, <1>7, <3>1, SettleStep
  <2> QED
    BY <2>1, <2>3, <2>4
<1>11. CASE w \in spoilt
  <2>1. Fate'[w] = Fate[w]
    BY <1>1, <1>4, <1>11, FateFacts, FateFactsNext DEF FateIsTheDisk
  <2> QED
    BY <1>8, <2>1
<1> QED
  BY <1>9, <1>10, <1>11

\* Making a staging directory, a process has nothing in hand yet.
LEMMA StagingMaps ==
    ASSUME SweepInv, SweepInv', NEW p \in Procs, NEW w \in Spaces, OthersStay(p),
           UNCHANGED <<pages, claimed, spoilt>>,
           \A v \in Spaces \ {w} : place'[v] = place[v] /\ linked'[v] = linked[v],
           place[w] \in Unpublished, place'[w] \in Unpublished,
           pc[p] \in Staging \cup {"idle"}, pc'[p] \in Staging \cup {"idle"}
    PROVE  CustodyStep
<1> USE DEF OthersStay
<1>1. \A q \in Procs : (InHand(q))' = InHand(q)
  BY DEF InHand, Using, Staging, Removing
<1>2. \A v \in Spaces \ {w} : Settled(v)' <=> Settled(v)
  BY DEF Settled, Staging, Removing
<1>3. \A v \in Spaces : Fate'[v] = Fate[v]
  BY <1>2, FateFacts, FateFactsNext DEF FateIsTheDisk
<1>4. Fate' = Fate
  BY <1>3, FateFacts, FateFactsNext DEF FateIsTheDisk, Fate
<1> QED
  BY <1>1, <1>4, SameOwner DEF CustodyStep

\* Published, a workspace is its maker's, with pages to look after.
LEMMA PublishingMaps ==
    ASSUME SweepInv, SweepInv', NEW p \in Procs, NEW w \in Spaces, OthersStay(p),
           UNCHANGED <<linked, pages, at, claimed, spoilt>>,
           \A v \in Spaces \ {w} : place'[v] = place[v],
           pc[p] \in {"publish", "publish unlocked"}, pc'[p] = "scan", at[p] = w,
           place'[w] \in {"job-", "unlocked-"}
    PROVE  CustodyStep
<1> USE WorkspaceAssumption DEF OthersStay
<1>1. /\ place[w] = ".new-" /\ linked[w] /\ pages[w] = "none" /\ w \notin spoilt
      /\ \A q \in Procs : w \notin InHand(q)
      /\ \A q \in Procs \ {p} : Busy(q) => at[q] # w
  BY ZenonT(40), StagedNotInHand DEF SweepInv, StagedAlone, Staging
<1>2. /\ \A q \in Procs \ {p} : (InHand(q))' = InHand(q)
      /\ (InHand(p))' = InHand(p) \cup {w}
  BY DEF InHand, Using, Removing
<1>3. \A v \in Spaces : Owner'[v] = [Owner EXCEPT ![w] = p][v]
  <2>1. Owner'[w] = p
    BY <1>2, OwnerFactsNext DEF OwnerIsTheHand
  <2>2. ASSUME NEW v \in Spaces \ {w} PROVE Owner'[v] = Owner[v]
    <3>1. \A q \in Procs : v \in (InHand(q))' <=> v \in InHand(q)
      BY <1>2
    <3> QED
      BY ZenonT(40), <3>1, OwnerFacts, OwnerFactsNext DEF OwnerIsTheHand
  <2> QED
    BY <2>1, <2>2, OwnerFacts DEF OwnerIsTheHand
<1>4. Owner' = [Owner EXCEPT ![w] = p] /\ Owner[w] = Nobody
  BY <1>1, <1>3, OwnerFacts, OwnerFactsNext DEF OwnerIsTheHand, Owner
<1>5. Fate[w] = "none" /\ Fate'[w] = "open"
  <2>1. ~Settled(w)'
    BY <1>1 DEF Settled, Busy, Working, Removing
  <2>2. place'[w] \notin Unpublished /\ w \notin spoilt'
    BY <1>1 DEF Unpublished
  <2>3. Fate'[w] = "open"
    BY <2>1, <2>2, FateFactsNext DEF FateIsTheDisk
  <2>4. place[w] \in Unpublished
    BY <1>1 DEF Unpublished
  <2>5. Fate[w] = "none"
    BY <2>4, FateFacts DEF FateIsTheDisk
  <2> QED
    BY <2>3, <2>5
<1>6. ASSUME NEW v \in Spaces \ {w} PROVE Fate'[v] = Fate[v]
  <2>1. Settled(v)' <=> Settled(v)
    BY DEF Settled, Removing
  <2>2. place'[v] = place[v] /\ (v \in spoilt' <=> v \in spoilt) /\ v \in Spaces
    OBVIOUS
  <2> HIDE DEF OthersStay
  <2> QED
    BY <2>1, <2>2, FateFacts, FateFactsNext DEF FateIsTheDisk
<1>7. \A v \in Spaces : Fate'[v] = [Fate EXCEPT ![w] = "open"][v]
  BY <1>5, <1>6, FateFacts DEF FateIsTheDisk
<1>8. Fate' = [Fate EXCEPT ![w] = "open"]
  BY <1>7, FateFacts, FateFactsNext DEF FateIsTheDisk, Fate
<1> QED
  BY <1>4, <1>5, <1>8, CreateStep

\* With a lock only, a sweep has nothing in hand yet.
LEMMA LockingMaps ==
    ASSUME SweepInv, SweepInv', NEW p \in Procs, OthersStay(p),
           UNCHANGED <<disk, at, claimed, spoilt>>,
           pc[p] = "try lock", pc'[p] = "check place"
    PROVE  CustodyStep
<1> USE DEF OthersStay
<1>1. \A q \in Procs : (InHand(q))' = InHand(q)
  BY DEF InHand, Using, Removing
<1>2. \A v \in Spaces : Settled(v)' <=> Settled(v)
  BY DEF Settled, Removing, disk
<1>d. place' = place /\ spoilt' = spoilt
  BY DEF disk
<1>3. ASSUME NEW v \in Spaces PROVE Fate'[v] = Fate[v]
  BY <1>d, <1>2, FateFacts, FateFactsNext DEF FateIsTheDisk
<1>4. Fate' = Fate
  BY <1>3, FateFacts, FateFactsNext DEF FateIsTheDisk, Fate
<1> QED
  BY <1>1, <1>4, SameOwner DEF CustodyStep

\* A sweep takes up a workspace that is nobody's and not settled.
LEMMA ClaimingMaps ==
    ASSUME SweepInv, SweepInv', NEW p \in Procs, NEW w \in Spaces, OthersStay(p),
           UNCHANGED <<disk, holder, spoilt>>,
           pc[p] = "check place", pc'[p] = "claim", at[p] = w,
           place[w] = "job-", linked[w], claimed'[p] = claimed[p] \cup {w},
           \A q \in Procs \ {p} : w \notin InHand(q)
    PROVE  CustodyStep
<1> USE WorkspaceAssumption DEF OthersStay
<1>1. /\ \A q \in Procs \ {p} : (InHand(q))' = InHand(q)
      /\ (InHand(p))' = InHand(p) \cup {w}
  BY DEF InHand, Using, Removing
<1>2. \A v \in Spaces : Settled(v)' <=> Settled(v)
  BY DEF Settled, Removing, disk
<1>d. place' = place /\ spoilt' = spoilt
  BY DEF disk
<1>3. ASSUME NEW v \in Spaces PROVE Fate'[v] = Fate[v]
  BY ZenonT(40), <1>d, <1>2, FateFacts, FateFactsNext DEF FateIsTheDisk
<1>4. Fate' = Fate
  BY <1>3, FateFacts, FateFactsNext DEF FateIsTheDisk, Fate
<1>5. CASE w \in InHand(p)
  <2>1. \A q \in Procs : (InHand(q))' = InHand(q)
    <3>1. InHand(p) \cup {w} = InHand(p)
      BY <1>5
    <3> QED
      BY <1>1, <3>1
  <2> QED
    BY <1>4, <2>1, SameOwner DEF CustodyStep
<1>6. CASE w \notin InHand(p)
  <2>1. \A v \in Spaces : Owner'[v] = [Owner EXCEPT ![w] = p][v]
    <3>1. Owner'[w] = p
      BY <1>1, OwnerFactsNext DEF OwnerIsTheHand
    <3>2. ASSUME NEW v \in Spaces \ {w} PROVE Owner'[v] = Owner[v]
      <4>1. \A q \in Procs : v \in (InHand(q))' <=> v \in InHand(q)
        BY <1>1
      <4> QED
        BY ZenonT(40), <4>1, OwnerFacts, OwnerFactsNext DEF OwnerIsTheHand
    <3> QED
      BY <3>1, <3>2, OwnerFacts DEF OwnerIsTheHand
  <2>2. Owner' = [Owner EXCEPT ![w] = p] /\ Owner[w] = Nobody
    BY <1>6, <2>1, OwnerFacts, OwnerFactsNext DEF OwnerIsTheHand, Owner
  <2>3. \A q \in Procs : at[q] = w => pc[q] \notin Removing
    BY <1>6 DEF InHand, Using
  <2>4. w \in spoilt \/ ~Settled(w)
    BY <2>3 DEF Settled, SweepInv, SafeIsHandled
  <2>5. Fate[w] \in {"open", "spoilt"}
    BY <2>4, FateFacts DEF FateIsTheDisk, Unpublished
  <2> QED
    BY <1>4, <2>2, <2>5, TakeUpStep
<1> QED
  BY <1>5, <1>6
-----------------------------------------------------------------------------
(* The steps one by one. *)

\* Each is its process's alone.
LEMMA StepTypes ==
    ASSUME TypeOK, BusyIsSomewhere, NEW p \in Procs, Step(p) \/ Die(p)
    PROVE  TypeOK' /\ OthersStay(p)
<1> USE WorkspaceAssumption
<1> USE DEF TypeOK, OthersStay, Goto, Here, Name, disk, PcPlaces, Names, Staging, Working, Looking,
         Removing, Unpublished
<1>1. ASSUME NEW w \in Spaces, MakeStaging(p, w) PROVE TypeOK' /\ OthersStay(p)
  BY <1>1 DEF MakeStaging
<1>2. CASE CreateLock(p)
  BY <1>2 DEF CreateLock
<1>3. CASE TakeLock(p)
  <2>1. CASE UNCHANGED holder
    BY <1>3, <2>1 DEF TakeLock
  <2>2. CASE holder' = [holder EXCEPT ![at[p]] = p]
    BY <1>3, <2>2 DEF TakeLock
  <2> QED
    BY <1>3, <2>1, <2>2 DEF TakeLock
<1>4. CASE Publish(p)
  <2>1. CASE Name(at[p], "job-")
    BY <1>4, <2>1 DEF Publish
  <2>2. CASE Name(at[p], "unlocked-")
    BY <1>4, <2>2 DEF Publish
  <2> QED
    BY <1>4, <2>1, <2>2 DEF Publish
<1>5. CASE GiveUp(p)
  BY <1>5 DEF GiveUp
<1>6. CASE Discard(p)
  <2>1. CASE UNCHANGED <<place, linked>>
    BY <1>6, <2>1 DEF Discard
  <2>2. CASE Name(at[p], "none") /\ linked' = [linked EXCEPT ![at[p]] = FALSE]
    BY <1>6, <2>2 DEF Discard
  <2> QED
    BY <1>6, <2>1, <2>2 DEF Discard
<1>7. CASE Scan(p)
  BY <1>7 DEF Scan
<1>8. CASE RunEnds(p)
  BY <1>8 DEF RunEnds
<1>9. CASE RemoveTree(p)
  BY <1>9 DEF RemoveTree
<1>10. CASE Retire(p)
  <2>1. CASE UNCHANGED place
    BY <1>10, <2>1 DEF Retire
  <2>2. CASE Name(at[p], "leftover-")
    BY <1>10, <2>2 DEF Retire
  <2> QED
    BY <1>10, <2>1, <2>2 DEF Retire
<1>11. CASE UnlinkLock(p)
  <2>1. at[p] \in Spaces
    BY <1>11 DEF UnlinkLock, BusyIsSomewhere, Busy
  <2>2. CASE UNCHANGED spoilt
    BY <1>11, <2>2 DEF UnlinkLock
  <2>3. CASE spoilt' = spoilt \cup {at[p]}
    BY <1>11, <2>1, <2>3 DEF UnlinkLock
  <2> QED
    BY <1>11, <2>2, <2>3 DEF UnlinkLock
<1>12. CASE CloseLock(p)
  BY <1>12 DEF CloseLock
<1>13. CASE ListDirectory(p)
  BY <1>13 DEF ListDirectory
<1>14. CASE OpenLock(p)
  <2>1. PICK w \in listed[p] : OpenLock(p)!2!(w)
    BY <1>14 DEF OpenLock
  <2>2. w \in Spaces
    OBVIOUS
  <2>3. CASE place[w] = "job-" /\ linked[w]
    <3>1. /\ pc' = [pc EXCEPT ![p] = "try lock"] /\ at' = [at EXCEPT ![p] = w]
          /\ listed' = [listed EXCEPT ![p] = @ \ {w}]
          /\ UNCHANGED <<place, linked, pages, holder, claimed, spoilt>>
      BY <1>14, <2>1, <2>3 DEF OpenLock
    <3> QED
      BY <2>2, <3>1
  <2>4. CASE ~(place[w] = "job-" /\ linked[w])
    BY <1>14, <2>1, <2>2, <2>4 DEF OpenLock
  <2> QED
    BY <2>3, <2>4
<1>15. CASE TryLock(p)
  <2>1. CASE UNCHANGED holder
    BY <1>15, <2>1 DEF TryLock
  <2>2. CASE holder' = [holder EXCEPT ![at[p]] = p]
    BY <1>15, <2>2 DEF TryLock
  <2> QED
    BY <1>15, <2>1, <2>2 DEF TryLock
<1>16. CASE Claim(p)
  <2>1. at[p] \in Spaces
    BY <1>16 DEF Claim, BusyIsSomewhere, Busy
  <2>2. CASE claimed' = [claimed EXCEPT ![p] = @ \cup {at[p]}] /\ UNCHANGED holder
    BY ZenonT(40), <1>16, <2>1, <2>2 DEF Claim
  <2>3. CASE holder' = [holder EXCEPT ![at[p]] = Nobody] /\ UNCHANGED claimed
    BY <1>16, <2>1, <2>3 DEF Claim
  <2> QED
    BY <1>16, <2>2, <2>3 DEF Claim
<1>17. CASE StartRecovery(p)
  BY <1>17 DEF StartRecovery
<1>18. CASE Recover(p)
  BY <1>18 DEF Recover
<1>19. CASE SweepInterrupted(p)
  BY <1>19 DEF SweepInterrupted
<1>20. CASE Die(p)
  <2>1. pc[p] \in Removing => at[p] \in Spaces
    BY DEF BusyIsSomewhere, Busy
  <2>2. spoilt' \in SUBSET Spaces
    BY <1>20, <2>1 DEF Die
  <2> QED
    BY <1>20, <2>2 DEF Die
<1> QED
  BY <1>1, <1>2, <1>3, <1>4, <1>5, <1>6, <1>7, <1>8, <1>9, <1>10, <1>11, <1>12, <1>13,
     <1>14, <1>15, <1>16, <1>17, <1>18, <1>19, <1>20 DEF Step

(* What a step keeps, and is for the abstract specification. *)
Faithful == SweepInv' /\ CustodyStep

\* The making of a staging directory, and its removal.
LEMMA StagingSteps ==
    ASSUME SweepInv, TypeOK', NEW p \in Procs, OthersStay(p),
           (\E w \in Spaces : MakeStaging(p, w)) \/ CreateLock(p) \/ TakeLock(p) \/ Discard(p)
    PROVE  Faithful
<1> USE DEF Goto, Here, Name
<1>1. SweepInv => TypeOK /\ BusyIsSomewhere
  BY DEF SweepInv
<1>2. ASSUME NEW w \in Spaces, MakeStaging(p, w) PROVE Faithful
  <2>1. place[w] = "none" /\ pc[p] = "idle"
    BY <1>2 DEF MakeStaging
  <2>2. /\ pc'[p] = "create lock" /\ at'[p] = w /\ place'[w] = ".new-"
        /\ \A v \in Spaces \ {w} : place'[v] = place[v]
        /\ UNCHANGED <<linked, holder, pages, claimed, spoilt>>
    BY <1>1, <1>2 DEF MakeStaging, TypeOK
  <2>3. \A q \in Procs \ {p} : Busy(q) => at[q] # w
    BY <2>1 DEF SweepInv, StagedAlone, PublishedFirst, Busy, Unpublished
  <2>4. /\ place[w] \in Unpublished /\ place'[w] \in Unpublished
        /\ pc[p] \in Staging \cup {"idle"} /\ pc'[p] \in Staging \cup {"idle"}
        /\ pc'[p] \notin {"lock", "publish", "publish unlocked"}
    BY <2>1, <2>2 DEF Unpublished, Staging
  <2>5. SweepInv'
    BY <2>2, <2>3, <2>4, StagingKeeps
  <2> QED
    BY <2>2, <2>4, <2>5, StagingMaps DEF Faithful
<1>3. CASE CreateLock(p) \/ TakeLock(p) \/ Discard(p)
  <2> DEFINE w == at[p]
  <2>1. pc[p] \in Staging
    BY <1>3 DEF CreateLock, TakeLock, Discard, Staging
  <2>2. w \in Spaces /\ place[w] = ".new-" /\ \A q \in Procs \ {p} : Busy(q) => at[q] # w
    BY <2>1, StagedNotInHand
  <2> HIDE DEF w
  <2>3. /\ UNCHANGED <<pages, claimed, spoilt>>
        /\ \A v \in Spaces \ {w} :
              place'[v] = place[v] /\ linked'[v] = linked[v] /\ holder'[v] = holder[v]
        /\ place'[w] \in Unpublished
        /\ pc'[p] \in Staging \cup {"idle"}
        /\ pc'[p] \in Staging =>
              /\ at'[p] = w /\ place'[w] = ".new-"
              /\ pc'[p] \in {"lock", "publish", "publish unlocked"} => linked'[w]
              /\ pc'[p] = "publish" => holder'[w] = p
    <3>1. CASE CreateLock(p)
      BY <1>1, <2>2, <3>1 DEF CreateLock, TypeOK, Staging, Unpublished, w
    <3>2. CASE TakeLock(p)
      <4>1. pc[p] = "lock" /\ linked[w]
        BY <3>2 DEF TakeLock, SweepInv, StagedAlone, Staging, w
      <4>2. CASE UNCHANGED holder /\ pc' = [pc EXCEPT ![p] = "publish unlocked"]
        BY <1>1, <2>2, <3>2, <4>1, <4>2 DEF TakeLock, TypeOK, Staging, Unpublished, disk, w
      <4>3. CASE holder' = [holder EXCEPT ![at[p]] = p] /\ pc' = [pc EXCEPT ![p] = "publish"]
        BY <1>1, <2>2, <3>2, <4>1, <4>3 DEF TakeLock, TypeOK, Staging, Unpublished, disk, w
      <4> QED
        BY <3>2, <4>2, <4>3 DEF TakeLock
    <3>3. CASE Discard(p)
      <4>1. pc'[p] = "idle" /\ UNCHANGED <<pages, holder, claimed, spoilt>>
        BY <1>1, <3>3 DEF Discard, TypeOK
      <4>2. CASE UNCHANGED <<place, linked>>
        BY <2>2, <4>1, <4>2 DEF Staging, Unpublished
      <4>3. CASE place' = [place EXCEPT ![w] = "none"] /\ linked' = [linked EXCEPT ![w] = FALSE]
        BY <1>1, <2>2, <4>1, <4>3 DEF TypeOK, Staging, Unpublished
      <4> QED
        BY <3>3, <4>2, <4>3 DEF Discard, w
    <3> QED
      BY <1>3, <3>1, <3>2, <3>3
  <2>4. place[w] \in Unpublished /\ pc[p] \in Staging \cup {"idle"}
    BY <2>1, <2>2 DEF Unpublished
  <2>5. SweepInv'
    BY <2>2, <2>3, <2>4, StagingKeeps
  <2> QED
    BY <2>2, <2>3, <2>4, <2>5, StagingMaps DEF Faithful
<1> QED
  BY <1>2, <1>3

\* The rename that publishes it.
LEMMA PublishStep ==
    ASSUME SweepInv, TypeOK', NEW p \in Procs, OthersStay(p), Publish(p)
    PROVE  Faithful
<1> USE DEF Goto, Here, Name
<1>1. TypeOK
  BY DEF SweepInv
<1>2. pc[p] \in {"publish", "publish unlocked"}
  BY DEF Publish
<1>3. at[p] \in Spaces
  BY <1>2, StagedNotInHand DEF Staging
<1>4. UNCHANGED <<linked, pages, holder, at, listed, claimed, spoilt>> /\ pc'[p] = "scan"
  BY <1>1 DEF Publish, TypeOK
<1>5. /\ \A v \in Spaces \ {at[p]} : place'[v] = place[v]
      /\ \/ pc[p] = "publish" /\ place'[at[p]] = "job-"
         \/ pc[p] = "publish unlocked" /\ place'[at[p]] = "unlocked-"
  <2>1. CASE pc[p] = "publish" /\ place' = [place EXCEPT ![at[p]] = "job-"]
    BY <1>1, <1>3, <2>1 DEF TypeOK
  <2>2. CASE pc[p] = "publish unlocked" /\ place' = [place EXCEPT ![at[p]] = "unlocked-"]
    BY <1>1, <1>3, <2>2 DEF TypeOK
  <2> QED
    BY <2>1, <2>2 DEF Publish
<1>6. SweepInv'
  BY <1>2, <1>3, <1>4, <1>5, PublishingKeeps
<1> QED
  BY <1>2, <1>3, <1>4, <1>5, <1>6, PublishingMaps DEF Faithful

\* The steps of a run, or of a sweep, in a workspace it has in hand.
LEMMA WorkingSteps ==
    ASSUME SweepInv, TypeOK', NEW p \in Procs, OthersStay(p),
           Scan(p) \/ RunEnds(p) \/ RemoveTree(p) \/ Retire(p) \/ UnlinkLock(p) \/ Recover(p)
    PROVE  Faithful
<1> USE DEF Goto, Here, Name
<1>1. TypeOK
  BY DEF SweepInv
<1>2. PICK w \in InHand(p) :
         /\ w \in Spaces /\ at'[p] = w
         /\ pc[p] = "recover" \/ (pc[p] \in Working /\ at[p] = w)
         /\ pc[p] = "recover" => w \in claimed[p] /\ Recover(p)!2!(w)
  <2>1. CASE Recover(p)
    <3>1. PICK w \in claimed[p] : Recover(p)!2!(w)
      BY <2>1 DEF Recover
    <3> QED
      BY <1>1, <2>1, <3>1 DEF Recover, InHand, TypeOK
  <2>2. CASE ~Recover(p)
    <3>1. pc[p] \in Working /\ pc[p] # "recover" /\ at' = at
      BY <2>2 DEF Scan, RunEnds, RemoveTree, Retire, UnlinkLock, Working, Removing
    <3>2. at[p] \in InHand(p)
      BY <3>1 DEF InHand, Using, Working
    <3> QED
      BY <3>1, <3>2, HandIsPublished
  <2> QED
    BY <2>1, <2>2
<1>3. UNCHANGED <<holder, claimed>>
  BY DEF Scan, RunEnds, RemoveTree, Retire, UnlinkLock, Recover, disk
<1>4. pc'[p] \in Working
  BY <1>1 DEF Scan, RunEnds, RemoveTree, Retire, UnlinkLock, Recover, Working, Removing, TypeOK
<1>5. (InHand(p))' = InHand(p)
  <2>1. (Using(p))' = {w}
    BY <1>2, <1>4 DEF Using, Working
  <2>2. CASE pc[p] = "recover"
    <3>1. Using(p) = {} /\ w \in claimed[p]
      BY <1>2, <2>2 DEF Using, Removing
    <3> QED
      BY <1>3, <2>1, <3>1 DEF InHand
  <2>3. CASE pc[p] \in Working /\ at[p] = w
    <3>1. Using(p) = {w}
      BY <2>3 DEF Using, Working
    <3> QED
      BY <1>3, <2>1, <3>1 DEF InHand
  <2> QED
    BY <1>2, <2>2, <2>3
<1>6. /\ \A v \in Spaces \ {w} :
             place'[v] = place[v] /\ linked'[v] = linked[v] /\ pages'[v] = pages[v]
      /\ place'[w] = place[w] \/ place'[w] \in {"leftover-", "gone"}
      /\ spoilt \subseteq spoilt' /\ spoilt' \subseteq spoilt \cup {w}
      /\ w \in spoilt' => w \in spoilt \/ pc[p] \in Removing
      /\ pc'[p] = "scan" =>
              /\ pc[p] = "scan" /\ pages'[w] # "safe"
              /\ place'[w] = place[w] /\ linked'[w] = linked[w] /\ spoilt' = spoilt
      /\ \/ pc'[p] = "scan" \/ pc'[p] \in Removing \/ Dealt(w)'
         \/ pc[p] \notin Removing /\ UNCHANGED <<disk, spoilt>>
  <2> USE <1>1, <1>2 DEF Dealt, disk, Removing, Working
  <2>1. CASE Scan(p)
    BY <2>1 DEF Scan, TypeOK
  <2>2. CASE RunEnds(p)
    <3>1. /\ pc[p] = "scan" /\ at[p] = w
          /\ UNCHANGED <<place, linked, holder, at, listed, claimed, spoilt>>
      BY <2>2 DEF RunEnds
    <3>2. CASE /\ pc' = [pc EXCEPT ![p] = "remove"]
               /\ pages' = [pages EXCEPT ![at[p]] = IF pages[at[p]] = "owed"
                                                  THEN "safe" ELSE pages[at[p]]]
      <4>1. pc'[p] = "remove" /\ \A v \in Spaces \ {w} : pages'[v] = pages[v]
        BY <3>1, <3>2 DEF TypeOK
      <4> QED
        BY <3>1, <4>1
    <3>3. CASE pc' = [pc EXCEPT ![p] = "close"] /\ UNCHANGED pages
      <4>1. pc'[p] = "close"
        BY <3>3 DEF TypeOK
      <4> QED
        BY <3>1, <3>3, <4>1
    <3> QED
      BY <2>2, <3>2, <3>3 DEF RunEnds
  <2>3. CASE RemoveTree(p)
    <3>1. pc[p] = "remove" /\ at[p] = w /\ UNCHANGED <<holder, at, listed, claimed, spoilt>>
      BY <2>3 DEF RemoveTree
    <3>2. CASE linked' = [linked EXCEPT ![w] = FALSE] /\ UNCHANGED <<place, pages, pc>>
      BY <3>1, <3>2 DEF TypeOK
    <3>3. CASE pages' = [pages EXCEPT ![w] = "none"] /\ UNCHANGED <<place, linked, pc>>
      BY <3>1, <3>3 DEF TypeOK
    <3>4. CASE place' = [place EXCEPT ![w] = "gone"] /\ UNCHANGED <<linked, pages>>
               /\ pc' = [pc EXCEPT ![p] = "close"]
      <4>1. place'[w] = "gone" /\ pc'[p] = "close"
        BY <3>4 DEF TypeOK
      <4> QED
        BY <3>1, <3>4, <4>1 DEF TypeOK
    <3>5. CASE UNCHANGED disk /\ pc' = [pc EXCEPT ![p] = "retire"]
      BY <3>1, <3>5 DEF TypeOK
    <3> QED
      BY <2>3, <3>1, <3>2, <3>3, <3>4, <3>5 DEF RemoveTree
  <2>4. CASE Retire(p)
    <3>1. CASE place' = [place EXCEPT ![w] = "leftover-"]
      <4>1. place'[w] = "leftover-" /\ pc'[p] # "scan"
        BY ZenonT(40), <2>4, <3>1 DEF Retire, TypeOK
      <4> QED
        BY <2>4, <3>1, <4>1 DEF Retire, TypeOK
    <3>2. CASE UNCHANGED place /\ pc' = [pc EXCEPT ![p] = "unlink lock"]
      BY <2>4, <3>2 DEF Retire, TypeOK
    <3> QED
      BY <2>4, <3>1, <3>2 DEF Retire
  <2>5. CASE UnlinkLock(p)
    <3>1. CASE linked' = [linked EXCEPT ![w] = FALSE] /\ spoilt' = spoilt
      BY <2>5, <3>1 DEF UnlinkLock, TypeOK
    <3>2. CASE linked' = linked /\ spoilt' = spoilt \cup {w}
      BY <2>5, <3>2 DEF UnlinkLock, TypeOK
    <3> QED
      BY <2>5, <3>1, <3>2 DEF UnlinkLock
  <2>6. CASE Recover(p)
    BY ZenonT(40), <2>6 DEF Recover, TypeOK
  <2> QED
    BY <2>1, <2>2, <2>3, <2>4, <2>5, <2>6
<1>7. SweepInv'
  BY <1>2, <1>3, <1>4, <1>5, <1>6, WorkingKeeps
<1> QED
  BY <1>2, <1>5, <1>6, <1>7, WorkingMaps DEF Faithful
\* The steps after which a process is in no workspace, or opens one.
LEMMA LettingGoSteps ==
    ASSUME SweepInv, TypeOK', NEW p \in Procs, OthersStay(p),
           \/ GiveUp(p) \/ CloseLock(p) \/ ListDirectory(p) \/ OpenLock(p)
           \/ StartRecovery(p) \/ SweepInterrupted(p) \/ Die(p)
           \/ TryLock(p) /\ UNCHANGED holder
           \/ Claim(p) /\ UNCHANGED claimed
    PROVE  Faithful
<1> USE WorkspaceAssumption DEF Goto, Here, Name
<1>1. TypeOK /\ BusyIsSomewhere
  BY DEF SweepInv
<1>2. UNCHANGED disk
  BY DEF GiveUp, CloseLock, ListDirectory, OpenLock, StartRecovery, SweepInterrupted, Die,
         TryLock, Claim
<1>3. \/ pc'[p] \in Resting
      \/ pc'[p] = "try lock" /\ at'[p] \in Spaces /\ place[at'[p]] = "job-" /\ pc[p] = "claim"
      \/ pc'[p] = "discard" /\ pc[p] \in Staging /\ at'[p] = at[p]
  <2>1. CASE OpenLock(p)
    <3>1. PICK w \in listed[p] : OpenLock(p)!2!(w)
      BY <2>1 DEF OpenLock
    <3>2. w \in Spaces /\ pc[p] = "claim"
      BY <1>1, <2>1 DEF TypeOK, OpenLock
    <3>3. CASE place[w] = "job-" /\ linked[w]
      <4>1. pc' = [pc EXCEPT ![p] = "try lock"] /\ at' = [at EXCEPT ![p] = w]
        BY <3>1, <3>3
      <4> QED
        BY <1>1, <3>2, <3>3, <4>1 DEF TypeOK
    <3>4. CASE ~(place[w] = "job-" /\ linked[w])
      BY <3>1, <3>2, <3>4 DEF Resting
    <3> QED
      BY <3>3, <3>4
  <2>2. CASE GiveUp(p)
    BY <1>1, <2>2 DEF GiveUp, TypeOK, Staging
  <2>3. CASE CloseLock(p) \/ ListDirectory(p) \/ StartRecovery(p)
    BY <1>1, <2>3 DEF CloseLock, ListDirectory, StartRecovery, TypeOK, Resting
  <2>4. CASE SweepInterrupted(p) \/ Die(p) \/ Claim(p)
    BY <1>1, <2>4 DEF SweepInterrupted, Die, Claim, TypeOK, Resting
  <2>5. CASE TryLock(p) /\ UNCHANGED holder
    <3>1. holder[at[p]] = Nobody => holder' # [holder EXCEPT ![at[p]] = p]
      BY <1>1, <2>5 DEF TryLock, TypeOK, BusyIsSomewhere, Busy, Looking
    <3>2. pc' = [pc EXCEPT ![p] = "claim"]
      BY <2>5, <3>1 DEF TryLock
    <3> QED
      BY <1>1, <3>2 DEF TypeOK, Resting
  <2> QED
    BY <2>1, <2>2, <2>3, <2>4, <2>5
<1>4. ASSUME NEW v \in Spaces
      PROVE  holder'[v] = holder[v] \/ (holder[v] = p /\ holder'[v] = Nobody)
  <2>1. CASE GiveUp(p) \/ SweepInterrupted(p) \/ Die(p)
    BY <2>1 DEF GiveUp, SweepInterrupted, Die
  <2>2. CASE CloseLock(p)
    BY <1>1, <2>2 DEF CloseLock, TypeOK
  <2>3. CASE Claim(p) /\ UNCHANGED claimed
    <3>1. holder[at[p]] = p /\ at[p] \in Spaces
      BY <2>3 DEF Claim, SweepInv, HandHoldsLock, BusyIsSomewhere, Busy, Looking
    <3>2. UNCHANGED holder \/ holder' = [holder EXCEPT ![at[p]] = Nobody]
      BY <2>3 DEF Claim
    <3> QED
      BY <1>1, <3>1, <3>2 DEF TypeOK
  <2>4. CASE ListDirectory(p) \/ OpenLock(p) \/ StartRecovery(p) \/ (TryLock(p) /\ UNCHANGED holder)
    BY <2>4 DEF ListDirectory, OpenLock, StartRecovery
  <2> QED
    BY <2>1, <2>2, <2>3, <2>4
<1>5. claimed'[p] \subseteq claimed[p] \ Using(p)
      /\ \A v \in claimed'[p] : holder'[v] = holder[v]
  <2>1. CASE SweepInterrupted(p) \/ Die(p)
    BY <1>1, <2>1 DEF SweepInterrupted, Die, TypeOK
  <2>2. CASE CloseLock(p)
    <3>1. Using(p) = {at[p]}
      BY <2>2 DEF CloseLock, Using
    <3>2. claimed'[p] = claimed[p] \ {at[p]}
      BY <1>1, <2>2 DEF CloseLock, TypeOK
    <3>3. \A v \in Spaces \ {at[p]} : holder'[v] = holder[v]
      BY <1>1, <2>2 DEF CloseLock, TypeOK
    <3> QED
      BY <1>1, <3>1, <3>2, <3>3 DEF TypeOK
  <2>3. CASE \/ GiveUp(p) \/ ListDirectory(p) \/ OpenLock(p) \/ StartRecovery(p)
             \/ TryLock(p) /\ UNCHANGED holder
             \/ Claim(p) /\ UNCHANGED claimed
    <3>1. claimed' = claimed
      BY <2>3 DEF GiveUp, ListDirectory, OpenLock, StartRecovery, TryLock
    <3>2. Using(p) = {}
      BY <2>3 DEF Using, Removing, GiveUp, ListDirectory, OpenLock, StartRecovery, TryLock, Claim
    <3>3. ASSUME NEW v \in claimed[p] PROVE holder'[v] = holder[v]
      <4>1. CASE GiveUp(p)
        BY <4>1 DEF GiveUp, SweepInv, ClaimsOnce, Staging
      <4>2. CASE Claim(p) /\ UNCHANGED claimed
        <5>1. v # at[p] /\ v \in Spaces
          <6>1. pc[p] = "check place"
            BY <4>2 DEF Claim
          <6>2. at[p] \notin claimed[p]
            BY <6>1 DEF SweepInv, ClaimsOnce
          <6> QED
            BY <1>1, <6>2 DEF TypeOK
        <5>2. UNCHANGED holder \/ holder' = [holder EXCEPT ![at[p]] = Nobody]
          BY <4>2 DEF Claim
        <5> QED
          BY <1>1, <5>1, <5>2 DEF TypeOK
      <4>3. CASE ListDirectory(p) \/ OpenLock(p) \/ StartRecovery(p) \/ (TryLock(p) /\ UNCHANGED holder)
        BY <4>3 DEF ListDirectory, OpenLock, StartRecovery
      <4> QED
        BY <2>3, <4>1, <4>2, <4>3
    <3> QED
      BY <3>1, <3>2, <3>3
  <2> QED
    BY <2>1, <2>2, <2>3
<1>6. /\ spoilt' = spoilt \/ (pc[p] \in Removing /\ spoilt' = spoilt \cup {at[p]})
      /\ pc[p] \in Removing => at[p] \in spoilt'
  <2>1. CASE Die(p)
    BY <2>1 DEF Die
  <2>2. CASE ~Die(p)
    BY <2>2 DEF GiveUp, CloseLock, ListDirectory, OpenLock, StartRecovery, SweepInterrupted,
            TryLock, Claim, Removing
  <2> QED
    BY <2>1, <2>2
<1>7. pc'[p] = "idle" => claimed'[p] = {}
  <2>1. CASE CloseLock(p)
    BY <1>1, <2>1 DEF CloseLock, TypeOK
  <2>2. CASE SweepInterrupted(p) \/ Die(p)
    BY <1>1, <2>2 DEF SweepInterrupted, Die, TypeOK
  <2>3. CASE StartRecovery(p)
    BY <1>1, <2>3 DEF StartRecovery, TypeOK
  <2>4. CASE GiveUp(p) \/ ListDirectory(p) \/ TryLock(p) \/ Claim(p)
    BY <1>1, <2>4 DEF GiveUp, ListDirectory, TryLock, Claim, TypeOK
  <2>5. CASE OpenLock(p)
    <3>1. pc[p] = "claim" /\ (pc' = pc \/ pc' = [pc EXCEPT ![p] = "try lock"])
      BY <2>5 DEF OpenLock
    <3> QED
      BY <1>1, <3>1 DEF TypeOK
  <2> QED
    BY <2>1, <2>2, <2>3, <2>4, <2>5
<1>8. SweepInv'
  BY <1>2, <1>3, <1>4, <1>5, <1>6, <1>7, LettingGoKeeps
<1>9. pc'[p] \notin Working
  BY <1>3 DEF Resting, Working, Removing
<1> QED
  BY <1>2, <1>5, <1>6, <1>8, <1>9, LettingGoMaps DEF Faithful

\* A sweep that gets a lock.
LEMMA LockStep ==
    ASSUME SweepInv, TypeOK', NEW p \in Procs, OthersStay(p), TryLock(p), holder' # holder
    PROVE  Faithful
<1>1. TypeOK
  BY DEF SweepInv
<1>2. at[p] \in Spaces /\ pc[p] = "try lock"
  BY DEF TryLock, Goto, SweepInv, BusyIsSomewhere, Busy, Looking
<1>3. /\ pc' = [pc EXCEPT ![p] = "check place"] /\ holder[at[p]] = Nobody
      /\ holder' = [holder EXCEPT ![at[p]] = p]
      /\ UNCHANGED <<disk, at, listed, claimed, spoilt>>
  BY DEF TryLock, Goto
<1>4. /\ pc'[p] = "check place" /\ holder'[at[p]] = p
      /\ \A v \in Spaces \ {at[p]} : holder'[v] = holder[v]
  BY <1>1, <1>2, <1>3 DEF TypeOK
<1>5. SweepInv'
  BY <1>2, <1>3, <1>4, LockingKeeps
<1> QED
  BY <1>2, <1>3, <1>4, <1>5, LockingMaps DEF Faithful

\* A sweep that claims a workspace.
LEMMA ClaimStep ==
    ASSUME SweepInv, TypeOK', NEW p \in Procs, OthersStay(p), Claim(p), claimed' # claimed
    PROVE  Faithful
<1>1. TypeOK
  BY DEF SweepInv
<1>2. at[p] \in Spaces /\ pc[p] = "check place"
  BY DEF Claim, Goto, SweepInv, BusyIsSomewhere, Busy, Looking
<1>3. /\ place[at[p]] = "job-" /\ linked[at[p]]
      /\ claimed' = [claimed EXCEPT ![p] = @ \cup {at[p]}]
      /\ pc' = [pc EXCEPT ![p] = "claim"]
      /\ UNCHANGED <<disk, holder, listed, spoilt>>
  BY DEF Claim, Goto
<1>4. pc'[p] = "claim" /\ claimed'[p] = claimed[p] \cup {at[p]}
  BY <1>1, <1>3 DEF TypeOK
<1>5. SweepInv' /\ \A q \in Procs \ {p} : at[p] \notin InHand(q)
  BY <1>2, <1>3, <1>4, ClaimingKeeps
<1> QED
  BY <1>2, <1>3, <1>4, <1>5, ClaimingMaps DEF Faithful

\* Whatever a process does next, the invariant stays and the promise is kept.
LEMMA StepFaithful ==
    ASSUME SweepInv, NEW p \in Procs, Step(p) \/ Die(p)
    PROVE  Faithful
<1>1. TypeOK' /\ OthersStay(p)
  BY StepTypes DEF SweepInv
<1>2. CASE (\E w \in Spaces : MakeStaging(p, w)) \/ CreateLock(p) \/ TakeLock(p) \/ Discard(p)
  BY <1>1, <1>2, StagingSteps
<1>3. CASE Publish(p)
  BY <1>1, <1>3, PublishStep
<1>4. CASE Scan(p) \/ RunEnds(p) \/ RemoveTree(p) \/ Retire(p) \/ UnlinkLock(p) \/ Recover(p)
  BY <1>1, <1>4, WorkingSteps
<1>5. CASE TryLock(p) /\ holder' # holder
  BY <1>1, <1>5, LockStep
<1>6. CASE Claim(p) /\ claimed' # claimed
  BY <1>1, <1>6, ClaimStep
<1>7. CASE \/ GiveUp(p) \/ CloseLock(p) \/ ListDirectory(p) \/ OpenLock(p)
           \/ StartRecovery(p) \/ SweepInterrupted(p) \/ Die(p)
           \/ TryLock(p) /\ UNCHANGED holder
           \/ Claim(p) /\ UNCHANGED claimed
  BY <1>1, <1>7, LettingGoSteps
<1> QED
  BY <1>2, <1>3, <1>4, <1>5, <1>6, <1>7 DEF Step

-----------------------------------------------------------------------------
\* At first nobody has anything, and no workspace has a fate.
LEMMA InitSweep == Init => SweepInv /\ Custody!Init
<1> SUFFICES ASSUME Init PROVE SweepInv /\ Custody!Init
  OBVIOUS
<1> USE WorkspaceAssumption DEF Init
<1>1. TypeOK
  BY DEF TypeOK, Names, Unpublished, PcPlaces
<1>2. \A p \in Procs : ~Busy(p) /\ InHand(p) = {}
  BY DEF Busy, Staging, Working, Looking, Removing, InHand, Using
<1>3. BusyIsSomewhere /\ StagedAlone /\ PublishedFirst
  BY <1>2 DEF BusyIsSomewhere, StagedAlone, PublishedFirst, Busy
<1>4. HandHoldsLock /\ WholeWhileUsed /\ SafeIsHandled /\ ClaimsOnce
  BY <1>2 DEF HandHoldsLock, WholeWhileUsed, SafeIsHandled, ClaimsOnce, Looking
<1>5. SweepInv
  BY <1>1, <1>3, <1>4 DEF SweepInv
<1> HIDE DEF Init
<1>6. \A w \in Spaces : Owner[w] = Nobody
  BY <1>2, <1>5, OwnerFacts DEF OwnerIsTheHand
<1>7. \A w \in Spaces : Fate[w] = "none"
  BY FateFacts DEF FateIsTheDisk, Init, Unpublished
<1>8. Owner = [w \in Spaces |-> Nobody] /\ Fate = [w \in Spaces |-> "none"]
  BY <1>6, <1>7 DEF Owner, Fate
<1> QED
  BY <1>5, <1>8 DEF Custody!Init, Custody!Nobody, Nobody

\* Nothing happens, and nothing changes.
LEMMA StutterFaithful == ASSUME SweepInv, UNCHANGED vars PROVE Faithful
<1> USE DEF vars, disk
<1>1. TypeOK' /\ BusyIsSomewhere' /\ StagedAlone' /\ PublishedFirst'
  BY DEF SweepInv, TypeOK, BusyIsSomewhere, Busy, StagedAlone, PublishedFirst
<1>2. \A p \in Procs : (InHand(p))' = InHand(p) /\ (Using(p))' = Using(p)
  BY DEF InHand, Using
<1>3. HandHoldsLock'
  <2>1. ASSUME NEW p \in Procs, NEW w \in InHand(p), Untouched(p, w) PROVE Untouched(p, w)'
    BY <2>1 DEF Untouched, Busy
  <2>2. \A p \in Procs : \A w \in (InHand(p))' : holder'[w] = p \/ Untouched(p, w)'
    BY <1>2, <2>1 DEF SweepInv, HandHoldsLock
  <2>3. \A p \in Procs : pc'[p] = "check place" => holder'[at'[p]] = p
    BY DEF SweepInv, HandHoldsLock
  <2> QED
    BY <2>2, <2>3 DEF HandHoldsLock
<1>4. WholeWhileUsed' /\ SafeIsHandled' /\ ClaimsOnce'
  BY <1>2 DEF SweepInv, WholeWhileUsed, SafeIsHandled, ClaimsOnce
<1>5. SweepInv'
  BY <1>1, <1>3, <1>4 DEF SweepInv
<1>6. \A v \in Spaces : Settled(v)' <=> Settled(v)
  BY DEF Settled
<1>7. \A v \in Spaces : Fate'[v] = Fate[v]
  BY <1>6, FateFacts, FateFactsNext DEF FateIsTheDisk
<1>8. Fate' = Fate
  BY <1>7, FateFacts, FateFactsNext DEF FateIsTheDisk, Fate
<1> QED
  BY <1>2, <1>5, <1>8, SameOwner DEF Faithful, CustodyStep

\* So does every step of the scratch directory.
LEMMA NextFaithful == SweepInv /\ [Next]_vars => Faithful
  BY StepFaithful, StutterFaithful DEF Next

\* Whoever has a workspace in hand holds its lock, or is alone with one no sweep
\* can find; a run's workspace is whole while it scans.
THEOREM SweepInvariant == Spec => []SweepInv
  BY InitSweep, NextFaithful, PTL DEF Spec, Faithful

OneInHand == \A p, q \in Procs : p # q => InHand(p) \cap InHand(q) = {}
\* Two processes never have the same workspace in hand: no sweep recovers what
\* a live run uses, and two sweeps never recover the same one (find_orphans).
THEOREM NeverTwoInHand == Spec => []OneInHand
<1>1. SweepInv => OneInHand
  BY AloneInHand DEF OneInHand
<1> QED
  BY <1>1, SweepInvariant, PTL

\* Every behaviour of the scratch directory is one PageCustody allows.
THEOREM WorkspaceKeepsCustody == Spec => KeepsCustody
<1>1. SweepInv /\ [Next]_vars => [Custody!Next]_(Custody!custody)
  BY NextFaithful DEF Faithful, CustodyStep, Custody!custody
<1> QED
  BY <1>1, InitSweep, SweepInvariant, PTL DEF Spec, KeepsCustody, Custody!Spec
=============================================================================
