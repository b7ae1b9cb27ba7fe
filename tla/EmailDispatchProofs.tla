-------------------------- MODULE EmailDispatchProofs --------------------------
(***************************************************************************)
(* Proofs about EmailDispatch, for any number of workers, e-mails,         *)
(* cancellations, attempts and faults.  DispatchInv is the inductive       *)
(* invariant; the safety properties of EmailDispatch follow from it, and so*)
(* does the step simulation that makes the workers an implementation of    *)
(* the outbox.                                                             *)
(***************************************************************************)
EXTENDS EmailDispatch, SequenceTheorems, TLAPS

-----------------------------------------------------------------------------
(* The inductive invariant                                                   *)

\* A worker holds only rows taken out of the queue, so no claim can succeed on them.
OwnedIsClaimed ==
    \A w \in Workers, e \in Emails : Owns(w, e) => status[e] \in {"SENDING", "CANCELLED"}

\* The attempt an owner is making is the next one, and within the maximum; a row not yet
\* scheduled has all attempts left.
OwnerCountsOn ==
    /\ \A w \in Workers, e \in Emails :
          Owns(w, e) => attempt[w] = attempts[e] + 1 /\ attempts[e] < MaxAttempts
    /\ \A e \in Emails : status[e] = "ABSENT" => attempts[e] < MaxAttempts

\* Before it may be sent (again), an e-mail has been delivered only where a lost reply hid it.
CopiesAreAccounted ==
    \A e \in Emails :
        /\ status[e] \in {"ABSENT", "PENDING"} => delivered[e] <= lostReplies[e]
        /\ \A w \in Workers : Owns(w, e) /\ reply[w] # "sent" => delivered[e] <= lostReplies[e]
        /\ delivered[e] <= 1 + lostReplies[e]

\* A worker that was told "sent" knows of a copy, and SENT records it.
RepliesAreDeliveries ==
    EmailEnabled =>
        /\ \A w \in Workers, e \in Emails :
              Owns(w, e) /\ reply[w] = "sent" => delivered[e] > 0
        /\ SentWasDelivered

\* Workers between rows hold no reply.
RepliesAreFresh == \A w \in Workers : at[w] # "record" => reply[w] = None

\* A request can only have read rows that exist.
CancelledRowsExist ==
    \A c \in Cancellers : cancel[c] \in Emails => status[cancel[c]] # "ABSENT"

DispatchInv ==
    /\ TypeOK
    /\ OwnedIsClaimed /\ SingleOwner
    /\ OwnerCountsOn /\ AttemptsAreCounted
    /\ RepliesAreFresh /\ CopiesAreAccounted /\ RepliesAreDeliveries
    /\ OrphansAreFaults
    /\ CancelledRowsExist

-----------------------------------------------------------------------------
(* The parts of a tick                                                       *)

\* Typing, spelled out for the provers.
LEMMA FieldTypes ==
    ASSUME TypeOK
    PROVE  /\ status \in [Emails -> Statuses] /\ attempts \in [Emails -> 0..MaxAttempts]
           /\ at \in [Workers -> {"idle", "loop", "send", "record"}]
           /\ batch \in [Workers -> Seq(Emails)]
           /\ attempt \in [Workers -> 0..MaxAttempts]
           /\ reply \in [Workers -> {None, "sent", "failed"}]
           /\ delivered \in [Emails -> Nat]
           /\ lostReplies \in [Emails -> 0..MaxLostReplies]
           /\ dbErrors \in [Emails -> 0..MaxDbErrors]
           /\ MaxAttempts \in Nat /\ MaxLostReplies \in Nat /\ MaxDbErrors \in Nat
           /\ MaxCrashes \in Nat /\ crashes \in 0..MaxCrashes
BY DispatchAssumption DEF TypeOK

\* A worker in a tick has a current e-mail.
LEMMA BatchHead ==
    ASSUME TypeOK, NEW w \in Workers, at[w] # "idle"
    PROVE  Head(batch[w]) \in Emails /\ Tail(batch[w]) \in Seq(Emails)
<1>1. batch[w] \in Seq(Emails) /\ batch[w] # <<>>
    BY DEF TypeOK
<1> QED
    BY <1>1, HeadTailProperties

\* When a worker goes on to the next row or ends its tick it lets go of its e-mail; the
\* other workers keep theirs.
LEMMA LettingGo ==
    ASSUME TypeOK, NEW w \in Workers, at[w] # "idle", NextRow(w) \/ EndTick(w)
    PROVE  /\ at' \in [Workers -> {"idle", "loop", "send", "record"}]
           /\ batch' \in [Workers -> Seq(Emails)]
           /\ \A v \in Workers : at'[v] # "idle" => batch'[v] # <<>>
           /\ attempt' \in [Workers -> 0..MaxAttempts]
           /\ reply' \in [Workers -> {None, "sent", "failed"}]
           /\ \A v \in Workers \ {w} : /\ at'[v] = at[v] /\ batch'[v] = batch[v]
                                        /\ attempt'[v] = attempt[v] /\ reply'[v] = reply[v]
           /\ at'[w] \in {"idle", "loop"} /\ reply'[w] = None
           /\ \A v \in Workers, e \in Emails : Owns(v, e)' <=> v # w /\ Owns(v, e)
<1>1. Tail(batch[w]) \in Seq(Emails)
    BY BatchHead
<1>2. PICK left \in Seq(Emails) :
          /\ batch' = [batch EXCEPT ![w] = left]
          /\ at' = [at EXCEPT ![w] = IF left = <<>> THEN "idle" ELSE "loop"]
          /\ attempt' = [attempt EXCEPT ![w] = 0]
          /\ reply' = [reply EXCEPT ![w] = None]
    <2>1. CASE NextRow(w)
        BY <1>1, <2>1 DEF NextRow
    <2>2. CASE EndTick(w)
        <3>1. <<>> \in Seq(Emails)
            OBVIOUS
        <3> QED
            BY <2>2, <3>1 DEF EndTick
    <2> QED
        BY <2>1, <2>2
<1>3. 0 \in 0..MaxAttempts
    BY DispatchAssumption
<1>4. /\ at' \in [Workers -> {"idle", "loop", "send", "record"}]
      /\ batch' \in [Workers -> Seq(Emails)]
      /\ attempt' \in [Workers -> 0..MaxAttempts]
      /\ reply' \in [Workers -> {None, "sent", "failed"}]
    BY <1>2, <1>3 DEF TypeOK
<1>5. /\ \A v \in Workers \ {w} : /\ at'[v] = at[v] /\ batch'[v] = batch[v]
                                   /\ attempt'[v] = attempt[v] /\ reply'[v] = reply[v]
      /\ at'[w] \in {"idle", "loop"} /\ reply'[w] = None
      /\ at'[w] # "idle" => batch'[w] # <<>>
    BY <1>2 DEF TypeOK
<1>6. \A v \in Workers : at'[v] # "idle" => batch'[v] # <<>>
    BY <1>5 DEF TypeOK
<1>7. \A v \in Workers, e \in Emails : Owns(v, e)' <=> v # w /\ Owns(v, e)
    BY <1>5 DEF Owns
<1> QED
    BY <1>4, <1>5, <1>6, <1>7

-----------------------------------------------------------------------------
(* The invariant is inductive                                                *)

\* The invariant holds of an empty table and idle workers.
LEMMA InitEstablishesInv == Init => DispatchInv
<1> SUFFICES ASSUME Init PROVE DispatchInv
    OBVIOUS
<1>1. TypeOK
    <2>1. 0 \in 0..MaxAttempts /\ 0 \in 0..Horizon /\ 0 \in 0..MaxLostReplies
            /\ 0 \in 0..MaxDbErrors /\ 0 \in 0..MaxCrashes
        BY DispatchAssumption
    <2>2. <<>> \in Seq(Emails)
        OBVIOUS
    <2> QED
        BY <2>1, <2>2 DEF Init, TypeOK, Statuses
<1>2. \A w \in Workers, e \in Emails : ~Owns(w, e)
    BY DEF Init, Owns
<1>3. OwnedIsClaimed /\ SingleOwner /\ OwnerCountsOn /\ RepliesAreFresh
    BY <1>2, DispatchAssumption DEF Init, OwnedIsClaimed, SingleOwner, OwnerCountsOn, RepliesAreFresh
<1>4. AttemptsAreCounted /\ OrphansAreFaults
    BY DispatchAssumption DEF Init, AttemptsAreCounted, OrphansAreFaults, Orphaned
<1>5. CopiesAreAccounted /\ RepliesAreDeliveries
    BY <1>2 DEF Init, CopiesAreAccounted, RepliesAreDeliveries, SentWasDelivered
<1>6. CancelledRowsExist
    BY EmailsAssumption DEF Init, CancelledRowsExist
<1> QED
    BY <1>1, <1>3, <1>4, <1>5, <1>6 DEF DispatchInv

\* The clock disturbs nothing.
LEMMA AdvanceKeepsInv == DispatchInv /\ Advance => DispatchInv'
<1> SUFFICES ASSUME DispatchInv, Advance PROVE DispatchInv'
    OBVIOUS
<1> USE DEF Advance, rows, ticks, outside
<1>1. TypeOK'
    BY DispatchAssumption DEF DispatchInv, TypeOK
<1>2. \A w \in Workers, e \in Emails : Owns(w, e)' <=> Owns(w, e)
    BY DEF Owns
<1>3. OwnedIsClaimed' /\ SingleOwner' /\ OwnerCountsOn' /\ RepliesAreFresh'
    BY <1>2 DEF DispatchInv, OwnedIsClaimed, SingleOwner, OwnerCountsOn, RepliesAreFresh
<1>4. AttemptsAreCounted' /\ OrphansAreFaults'
    BY <1>2 DEF DispatchInv, AttemptsAreCounted, OrphansAreFaults, Orphaned
<1>5. CopiesAreAccounted' /\ RepliesAreDeliveries'
    BY <1>2 DEF DispatchInv, CopiesAreAccounted, RepliesAreDeliveries,
        SentWasDelivered
<1>6. CancelledRowsExist'
    BY DEF DispatchInv, CancelledRowsExist
<1> QED
    BY <1>1, <1>3, <1>4, <1>5, <1>6 DEF DispatchInv

\* A new row has no owner, no attempt and no copy.
LEMMA ScheduleKeepsInv ==
    ASSUME DispatchInv, NEW e \in Emails, Schedule(e)
    PROVE  DispatchInv'
<1> USE DEF Schedule, ticks, outside
<1>1. /\ status \in [Emails -> Statuses] /\ attempts \in [Emails -> 0..MaxAttempts]
      /\ status[e] = "ABSENT" /\ status'[e] = "PENDING"
      /\ \A f \in Emails \ {e} : status'[f] = status[f]
    BY DEF DispatchInv, TypeOK
<1>2. TypeOK'
    BY DEF DispatchInv, TypeOK, Statuses
<1>3. \A w \in Workers, f \in Emails : Owns(w, f)' <=> Owns(w, f)
    BY DEF Owns
<1>4. \A w \in Workers : ~Owns(w, e)
    BY <1>1 DEF DispatchInv, OwnedIsClaimed
<1>5. OwnedIsClaimed' /\ SingleOwner' /\ OwnerCountsOn' /\ RepliesAreFresh'
    BY <1>1, <1>3, <1>4
       DEF DispatchInv, OwnedIsClaimed, SingleOwner, OwnerCountsOn, RepliesAreFresh
<1>6. AttemptsAreCounted' /\ OrphansAreFaults'
    BY <1>1, <1>3
       DEF DispatchInv, OwnerCountsOn, AttemptsAreCounted, OrphansAreFaults, Orphaned
<1>7. CopiesAreAccounted' /\ RepliesAreDeliveries'
    BY <1>1, <1>3
       DEF DispatchInv, CopiesAreAccounted, RepliesAreDeliveries, SentWasDelivered
<1>8. CancelledRowsExist'
    BY <1>1 DEF DispatchInv, CancelledRowsExist
<1> QED
    BY <1>2, <1>5, <1>6, <1>7, <1>8 DEF DispatchInv

\* The batch is made of due rows; nothing is owned before its claim.
LEMMA StartTickKeepsInv ==
    ASSUME DispatchInv, NEW w \in Workers, StartTick(w)
    PROVE  DispatchInv'
<1> USE DEF rows, outside
<1>1. PICK b \in Batches : batch' = [batch EXCEPT ![w] = b]
    BY DEF StartTick
<1>2. b \in Seq(Emails) /\ b # <<>>
    <2>1. PICK n \in 1..BatchLimit : b \in [1..n -> Due]
        BY DEF Batches
    <2>2. n \in Nat /\ n # 0 /\ Due \subseteq Emails
        BY DispatchAssumption DEF Due
    <2>3. b \in [1..n -> Emails]
        BY <2>1, <2>2
    <2>4. b \in Seq(Emails) /\ Len(b) = n
        BY <2>2, <2>3, IsASeq, LenProperties
    <2> QED
        BY <2>2, <2>4
<1>3. /\ at[w] = "idle" /\ at' = [at EXCEPT ![w] = "loop"]
      /\ UNCHANGED <<now, rows, attempt, reply, cancel, outside>>
    BY DEF StartTick
<1>4. /\ at \in [Workers -> {"idle", "loop", "send", "record"}]
      /\ batch \in [Workers -> Seq(Emails)]
    BY DEF DispatchInv, TypeOK
<1>5. TypeOK'
    BY <1>1, <1>2, <1>3, <1>4 DEF DispatchInv, TypeOK
<1>6. \A v \in Workers, e \in Emails : Owns(v, e)' <=> Owns(v, e)
    BY <1>1, <1>3, <1>4 DEF Owns
<1>7. \A v \in Workers : at'[v] # "record" => reply'[v] = None
    BY <1>3, <1>4 DEF DispatchInv, RepliesAreFresh
<1>8. OwnedIsClaimed' /\ SingleOwner' /\ OwnerCountsOn' /\ RepliesAreFresh'
    BY <1>3, <1>6, <1>7
       DEF DispatchInv, OwnedIsClaimed, SingleOwner, OwnerCountsOn, RepliesAreFresh
<1>9. AttemptsAreCounted' /\ OrphansAreFaults'
    BY <1>3, <1>6 DEF DispatchInv, AttemptsAreCounted, OrphansAreFaults, Orphaned
<1>10. CopiesAreAccounted' /\ RepliesAreDeliveries'
    BY <1>3, <1>6
       DEF DispatchInv, CopiesAreAccounted, RepliesAreDeliveries, SentWasDelivered
<1>11. CancelledRowsExist'
    BY <1>3 DEF DispatchInv, CancelledRowsExist
<1> QED
    BY <1>5, <1>8, <1>9, <1>10, <1>11 DEF DispatchInv

\* The claimed row was PENDING, hence in nobody's hands.
LEMMA ClaimKeepsInv ==
    ASSUME DispatchInv, NEW w \in Workers, Claim(w)
    PROVE  DispatchInv'
<1> DEFINE e == Head(batch[w])
<1> USE FieldTypes DEF outside
<1>1. TypeOK /\ e \in Emails
    BY BatchHead DEF DispatchInv, Claim
<1>2. /\ at[w] = "loop" /\ at' = [at EXCEPT ![w] = "send"]
      /\ status[e] = "PENDING" /\ status' = [status EXCEPT ![e] = "SENDING"]
      /\ attempt' = [attempt EXCEPT ![w] = attempts[e] + 1]
      /\ UNCHANGED <<now, attempts, batch, reply, cancel, outside>>
    BY DEF Claim
<1> HIDE DEF e
<1>3. attempts[e] < MaxAttempts /\ attempts[e] + 1 \in 0..MaxAttempts
    <2>1. attempts[e] \in 0..MaxAttempts
        BY <1>1
    <2> QED
        BY <1>1, <1>2, <2>1 DEF DispatchInv, AttemptsAreCounted
<1>4. TypeOK'
    BY <1>1, <1>2, <1>3 DEF TypeOK, Statuses
<1>5. \A v \in Workers : ~Owns(v, e)
    BY <1>1, <1>2 DEF DispatchInv, OwnedIsClaimed
<1>6. \A v \in Workers, f \in Emails : Owns(v, f)' <=> Owns(v, f) \/ (v = w /\ f = e)
    BY <1>1, <1>2 DEF Owns, e
<1>7. /\ status'[e] = "SENDING" /\ \A f \in Emails \ {e} : status'[f] = status[f]
      /\ attempt'[w] = attempts[e] + 1
      /\ \A v \in Workers \ {w} : attempt'[v] = attempt[v]
      /\ \A v \in Workers : reply'[v] = reply[v] /\ at'[v] # "record" => reply[v] = None
    BY <1>1, <1>2 DEF DispatchInv, RepliesAreFresh
<1>8. OwnedIsClaimed' /\ SingleOwner'
    <2>1. OwnedIsClaimed'
        BY <1>1, <1>6, <1>7 DEF DispatchInv, OwnedIsClaimed
    <2>2. SUFFICES ASSUME NEW u \in Workers, NEW v \in Workers, NEW f \in Emails,
                          Owns(u, f)', Owns(v, f)'
                   PROVE  u = v
        BY <2>1 DEF SingleOwner
    <2>3. CASE f = e
        BY <1>5, <1>6, <2>2, <2>3
    <2>4. CASE f # e
        BY <1>6, <2>2, <2>4 DEF DispatchInv, SingleOwner
    <2> QED
        BY <2>3, <2>4
<1>9. OwnerCountsOn' /\ RepliesAreFresh'
    <2>1. \A f \in Emails : ~Owns(w, f)
        BY <1>2 DEF Owns
    <2> QED
        <3>1. OwnerCountsOn'
            <4>1. attempts' = attempts /\ OwnerCountsOn
                BY <1>2 DEF DispatchInv
            <4>2. ASSUME NEW v \in Workers, NEW f \in Emails, Owns(v, f)'
                  PROVE  attempt'[v] = attempts[f] + 1 /\ attempts[f] < MaxAttempts
                <5>1. CASE v = w
                    <6>1. f = e
                        BY <1>6, <2>1, <4>2, <5>1
                    <6> QED
                        BY <1>3, <1>7, <5>1, <6>1
                <5>2. CASE v # w
                    <6>1. Owns(v, f) /\ attempt'[v] = attempt[v]
                        BY <1>6, <1>7, <4>2, <5>2
                    <6> QED
                        BY <4>1, <6>1 DEF OwnerCountsOn
                <5> QED
                    BY <5>1, <5>2
            <4>3. \A f \in Emails : status'[f] = "ABSENT" => attempts[f] < MaxAttempts
                BY <1>7, <4>1 DEF OwnerCountsOn
            <4> QED
                BY <4>1, <4>2, <4>3 DEF OwnerCountsOn
        <3>2. RepliesAreFresh'
            BY <1>1, <1>2, <1>3, <1>6, <1>7, <2>1 DEF DispatchInv, RepliesAreFresh
        <3> QED
            BY <3>1, <3>2
<1>10. AttemptsAreCounted' /\ OrphansAreFaults'
    BY <1>1, <1>2, <1>6, <1>7
       DEF DispatchInv, AttemptsAreCounted, OrphansAreFaults, Orphaned
<1>11. CopiesAreAccounted'
    BY <1>1, <1>2, <1>6, <1>7 DEF DispatchInv, CopiesAreAccounted
<1>12. RepliesAreDeliveries'
    <2>1. reply[w] = None
        BY <1>2 DEF DispatchInv, RepliesAreFresh
    <2> QED
        BY <1>1, <1>2, <1>6, <1>7, <2>1
           DEF DispatchInv, RepliesAreDeliveries, SentWasDelivered, None
<1>13. CancelledRowsExist'
    BY <1>2, <1>7 DEF DispatchInv, CancelledRowsExist
<1> QED
    BY <1>4, <1>8, <1>9, <1>10, <1>11, <1>12, <1>13 DEF DispatchInv

\* A worker that skips owned nothing and still owns nothing.
LEMMA SkipKeepsInv ==
    ASSUME DispatchInv, NEW w \in Workers, Skip(w)
    PROVE  DispatchInv'
<1> USE FieldTypes DEF rows, outside
<1>1. /\ TypeOK /\ at[w] = "loop" /\ NextRow(w)
      /\ UNCHANGED <<now, rows, cancel, outside>>
    BY DEF DispatchInv, Skip
<1>2. \A v \in Workers, e \in Emails : Owns(v, e)' <=> v # w /\ Owns(v, e)
    BY <1>1, LettingGo
<1>3. \A e \in Emails : ~Owns(w, e)
    BY <1>1 DEF Owns
<1>4. /\ \A v \in Workers \ {w} : /\ at'[v] = at[v] /\ attempt'[v] = attempt[v]
                                   /\ reply'[v] = reply[v]
      /\ reply'[w] = None
    BY <1>1, LettingGo
<1>5. TypeOK'
    BY <1>1, LettingGo DEF TypeOK
<1>6. OwnedIsClaimed' /\ SingleOwner'
    BY <1>1, <1>2 DEF DispatchInv, OwnedIsClaimed, SingleOwner
<1>7. OwnerCountsOn' /\ RepliesAreFresh'
    BY <1>1, <1>2, <1>4 DEF DispatchInv, OwnerCountsOn, RepliesAreFresh
<1>8. AttemptsAreCounted' /\ OrphansAreFaults'
    BY <1>1, <1>2, <1>3 DEF DispatchInv, AttemptsAreCounted, OrphansAreFaults, Orphaned
<1>9. CopiesAreAccounted' /\ RepliesAreDeliveries'
    BY <1>1, <1>2, <1>4
       DEF DispatchInv, CopiesAreAccounted, RepliesAreDeliveries, SentWasDelivered
<1>10. CancelledRowsExist'
    BY <1>1 DEF DispatchInv, CancelledRowsExist
<1> QED
    BY <1>5, <1>6, <1>7, <1>8, <1>9, <1>10 DEF DispatchInv

\* Every copy delivered in a try is matched by a lost reply, the last one by "sent".
LEMMA SendKeepsInv ==
    ASSUME DispatchInv, NEW w \in Workers, Send(w)
    PROVE  DispatchInv'
<1> USE DEF rows
<1>1. /\ TypeOK /\ at[w] = "send" /\ at' = [at EXCEPT ![w] = "record"]
      /\ UNCHANGED <<now, rows, batch, attempt, cancel, dbErrors, crashes>>
    BY DEF DispatchInv, Send
<1>2a. PICK e \in Emails : e = Head(batch[w])
    BY <1>1, BatchHead
<1>2. PICK r \in {"sent", "failed"}, lost \in 0..(MaxLostReplies - lostReplies[e]) :
          /\ ~EmailEnabled => r = "sent" /\ lost = 0
          /\ reply' = [reply EXCEPT ![w] = r]
          /\ lostReplies' = [lostReplies EXCEPT ![e] = @ + lost]
          /\ delivered' = [delivered EXCEPT
                ![e] = @ + lost + IF EmailEnabled /\ r = "sent" THEN 1 ELSE 0]
    BY <1>2a DEF Send
<1>3. Owns(w, e)
    BY <1>1, <1>2a DEF Owns
<1> DEFINE last == IF EmailEnabled /\ r = "sent" THEN 1 ELSE 0
<1>3a. EmailEnabled /\ r = "sent" => last = 1
    OBVIOUS
<1>3b. /\ last \in {0, 1} /\ (last = 1 => r = "sent")
       /\ r \in {"sent", "failed"} /\ lost \in 0..(MaxLostReplies - lostReplies[e])
       /\ reply' = [reply EXCEPT ![w] = r]
       /\ lostReplies' = [lostReplies EXCEPT ![e] = @ + lost]
       /\ delivered' = [delivered EXCEPT ![e] = @ + lost + last]
    BY <1>2
<1> HIDE DEF last
<1>4. /\ lostReplies[e] \in Nat /\ delivered[e] \in Nat
      /\ lost \in Nat /\ lostReplies[e] + lost \in 0..MaxLostReplies
    <2>1. /\ lostReplies[e] \in 0..MaxLostReplies /\ delivered[e] \in Nat
        BY <1>1, FieldTypes
    <2>2. lost \in 0..(MaxLostReplies - lostReplies[e])
        BY <1>3b
    <2> QED
        BY <2>1, <2>2, DispatchAssumption
<1>5. TypeOK'
    <2>1. at' \in [Workers -> {"idle", "loop", "send", "record"}]
            /\ \A v \in Workers : at'[v] # "idle" => batch'[v] # <<>>
        BY <1>1 DEF TypeOK
    <2>2. reply' \in [Workers -> {None, "sent", "failed"}]
        BY <1>1, <1>3b, FieldTypes
    <2>3. lostReplies' \in [Emails -> 0..MaxLostReplies]
        BY <1>1, <1>3b, <1>4, FieldTypes
    <2>4. delivered' \in [Emails -> Nat]
        <3>1. delivered[e] + lost + last \in Nat
            BY <1>3b, <1>4
        <3> QED
            BY <1>1, <1>3b, <3>1, FieldTypes
    <2> QED
        BY <1>1, <2>1, <2>2, <2>3, <2>4 DEF TypeOK
<1>6. \A v \in Workers, f \in Emails : Owns(v, f)' <=> Owns(v, f)
    BY <1>1 DEF Owns
<1>7. \A v \in Workers : Owns(v, e) => v = w
    BY <1>1, <1>3 DEF DispatchInv, SingleOwner
<1>8. /\ reply'[w] = r /\ \A v \in Workers \ {w} : reply'[v] = reply[v]
      /\ lostReplies'[e] = lostReplies[e] + lost
      /\ delivered'[e] = delivered[e] + lost + last
      /\ \A f \in Emails \ {e} : /\ lostReplies'[f] = lostReplies[f]
                                  /\ delivered'[f] = delivered[f]
    BY <1>1, <1>3b, FieldTypes
<1>9. OwnedIsClaimed' /\ SingleOwner' /\ OwnerCountsOn'
    BY <1>1, <1>6 DEF DispatchInv, OwnedIsClaimed, SingleOwner, OwnerCountsOn
<1>10. RepliesAreFresh'
    BY <1>1, <1>8, FieldTypes DEF DispatchInv, RepliesAreFresh
<1>11. AttemptsAreCounted' /\ OrphansAreFaults'
    BY <1>1, <1>6 DEF DispatchInv, AttemptsAreCounted, OrphansAreFaults, Orphaned
<1>12. delivered[e] <= lostReplies[e]
    BY <1>1, <1>3 DEF DispatchInv, RepliesAreFresh, CopiesAreAccounted, None
<1>13. CopiesAreAccounted'
    <2>1. /\ status' = status
          /\ status[e] \in {"SENDING", "CANCELLED"}
        BY <1>1, <1>3 DEF DispatchInv, OwnedIsClaimed
    <2>2. delivered'[e] = delivered[e] + lost + last /\ last \in {0, 1}
            /\ (last = 1 => r = "sent") /\ lost \in Nat /\ delivered[e] \in Nat
        BY <1>3b, <1>4, <1>8
    <2>3. delivered'[e] <= 1 + lostReplies'[e] /\ (r # "sent" => delivered'[e] <= lostReplies'[e])
        BY <1>4, <1>8, <1>12, <2>2
    <2>4. \A f \in Emails \ {e} : delivered'[f] = delivered[f] /\ lostReplies'[f] = lostReplies[f]
        BY <1>8
    <2>5. ASSUME NEW f \in Emails, NEW v \in Workers, Owns(v, f)', reply'[v] # "sent"
          PROVE  delivered'[f] <= lostReplies'[f]
        <3>1. CASE f = e
            BY <1>6, <1>7, <1>8, <2>3, <2>5, <3>1
        <3>2. CASE f # e
            <4>1. Owns(v, f) /\ v # w
                BY <1>2a, <1>3, <1>6, <2>5, <3>2 DEF Owns
            <4>2. reply[v] # "sent"
                BY <1>8, <2>5, <4>1
            <4>3. delivered[f] <= lostReplies[f]
                BY <4>1, <4>2 DEF DispatchInv, CopiesAreAccounted
            <4> QED
                BY <2>4, <3>2, <4>3
        <3> QED
            BY <3>1, <3>2
    <2>6. ASSUME NEW f \in Emails
          PROVE  /\ status'[f] \in {"ABSENT", "PENDING"} => delivered'[f] <= lostReplies'[f]
                 /\ delivered'[f] <= 1 + lostReplies'[f]
        <3>1. CASE f = e
            BY <2>1, <2>3, <3>1
        <3>2. CASE f # e
            <4>1. /\ status[f] \in {"ABSENT", "PENDING"} => delivered[f] <= lostReplies[f]
                  /\ delivered[f] <= 1 + lostReplies[f]
                BY DEF DispatchInv, CopiesAreAccounted
            <4> QED
                BY <2>1, <2>4, <3>2, <4>1
        <3> QED
            BY <3>1, <3>2
    <2> QED
        BY <2>5, <2>6 DEF CopiesAreAccounted
<1>14. RepliesAreDeliveries'
    <2> SUFFICES ASSUME EmailEnabled PROVE RepliesAreDeliveries'
        BY DEF RepliesAreDeliveries
    <2>1. \A v \in Workers, f \in Emails :
              Owns(v, f) /\ reply[v] = "sent" => delivered[f] > 0
        BY DEF DispatchInv, RepliesAreDeliveries
    <2>2. \A f \in Emails : status[f] = "SENT" => delivered[f] > 0
        BY DEF DispatchInv, RepliesAreDeliveries, SentWasDelivered
    <2>3. r = "sent" => last = 1
        BY <1>3a
    <2>4. ASSUME NEW f \in Emails
          PROVE  delivered[f] > 0 => delivered'[f] > 0
        <3>1. CASE f = e
            <4>1. delivered[e] > 0 => delivered[e] + lost + last > 0
                BY <1>3b, <1>4
            <4> QED
                BY <1>8, <3>1, <4>1
        <3>2. CASE f # e
            BY <1>8, <3>2
        <3> QED
            BY <3>1, <3>2
    <2>5. ASSUME NEW v \in Workers, NEW f \in Emails, Owns(v, f)', reply'[v] = "sent"
          PROVE  delivered'[f] > 0
        <3>1. CASE v = w
            <4>1. f = e
                BY <1>2a, <1>3, <1>6, <2>5, <3>1 DEF Owns
            <4>2. last = 1
                BY <1>8, <2>3, <2>5, <3>1
            <4>3. delivered[e] + lost + 1 > 0
                BY <1>4
            <4> QED
                BY <1>8, <4>1, <4>2, <4>3
        <3>2. CASE v # w
            <4>1. delivered[f] > 0
                BY <1>6, <1>8, <2>1, <2>5, <3>2
            <4> QED
                BY <2>4, <4>1
        <3> QED
            BY <3>1, <3>2
    <2>6. \A f \in Emails : status'[f] = "SENT" => delivered'[f] > 0
        <3>1. status' = status
            BY <1>1
        <3> QED
            BY <2>2, <2>4, <3>1
    <2> QED
        BY <2>5, <2>6 DEF RepliesAreDeliveries, SentWasDelivered
<1>15. CancelledRowsExist'
    BY <1>1 DEF DispatchInv, CancelledRowsExist
<1> QED
    BY <1>5, <1>9, <1>10, <1>11, <1>13, <1>14, <1>15 DEF DispatchInv

\* What every way of recording an attempt has in common: the row is written by its only
\* owner, with the number of the attempt it made, and let go.
LEMMA Recording ==
    ASSUME DispatchInv, NEW w \in Workers, NEW e \in Emails, e = Head(batch[w]),
           NEW s, s \in {"SENT", AfterFailure(attempt[w])},
           at[w] = "record", Write(w, s), NextRow(w), UNCHANGED cancel
    PROVE  /\ Owns(w, e)
           /\ status' \in [Emails -> Statuses] /\ attempts' \in [Emails -> 0..MaxAttempts]
           /\ status'[e] = s /\ s \in {"SENT", "PENDING", "FAILED"}
           /\ \A f \in Emails \ {e} : status'[f] = status[f] /\ attempts'[f] = attempts[f]
           /\ \A v \in Workers, f \in Emails : Owns(v, f)' <=> v # w /\ Owns(v, f)
           /\ \A v \in Workers : ~Owns(v, e)'
           /\ attempts'[e] = attempts[e] + 1
           /\ OwnedIsClaimed' /\ SingleOwner' /\ OwnerCountsOn' /\ RepliesAreFresh'
           /\ AttemptsAreCounted' /\ CancelledRowsExist'
<1>1. TypeOK /\ Owns(w, e)
    BY DEF DispatchInv, Owns
<1>2. /\ attempt[w] = attempts[e] + 1 /\ attempt[w] \in 0..MaxAttempts
      /\ attempts[e] \in 0..MaxAttempts /\ attempts[e] < MaxAttempts /\ MaxAttempts \in Nat
    BY <1>1, FieldTypes DEF DispatchInv, OwnerCountsOn
<1>3. /\ s \in {"SENT", "PENDING", "FAILED"}
      /\ s = "PENDING" => attempt[w] < MaxAttempts
      /\ s = "FAILED" => attempt[w] = MaxAttempts
    BY <1>2 DEF AfterFailure
<1>4. /\ status' = [status EXCEPT ![e] = s] /\ attempts' = [attempts EXCEPT ![e] = attempt[w]]
    BY DEF Write
<1>5. /\ status' \in [Emails -> Statuses] /\ attempts' \in [Emails -> 0..MaxAttempts]
      /\ status'[e] = s /\ attempts'[e] = attempt[w]
      /\ \A f \in Emails \ {e} : status'[f] = status[f] /\ attempts'[f] = attempts[f]
    BY <1>1, <1>2, <1>3, <1>4, FieldTypes DEF Statuses
<1>6. /\ \A v \in Workers, f \in Emails : Owns(v, f)' <=> v # w /\ Owns(v, f)
      /\ \A v \in Workers \ {w} : attempt'[v] = attempt[v] /\ reply'[v] = reply[v] /\ at'[v] = at[v]
      /\ reply'[w] = None
    BY <1>1, LettingGo
<1>7. \A v \in Workers : ~Owns(v, e)'
    BY <1>1, <1>6 DEF DispatchInv, SingleOwner
<1>8. OwnedIsClaimed' /\ RepliesAreFresh'
    <2>1. OwnedIsClaimed'
        BY <1>5, <1>6, <1>7 DEF DispatchInv, OwnedIsClaimed
    <2>2. RepliesAreFresh'
        BY <1>6 DEF DispatchInv, RepliesAreFresh
    <2> QED
        BY <2>1, <2>2
<1>9. SingleOwner'
    BY <1>6 DEF DispatchInv, SingleOwner
<1>10. OwnerCountsOn'
    <2>1. ASSUME NEW v \in Workers, NEW f \in Emails, Owns(v, f)'
          PROVE  attempt'[v] = attempts'[f] + 1 /\ attempts'[f] < MaxAttempts
        <3>1. v # w /\ Owns(v, f) /\ f # e
            BY <1>6, <1>7, <2>1
        <3> QED
            BY <1>5, <1>6, <3>1 DEF DispatchInv, OwnerCountsOn
    <2>2. \A f \in Emails : status'[f] = "ABSENT" => attempts'[f] < MaxAttempts
        BY <1>3, <1>5 DEF DispatchInv, OwnerCountsOn
    <2> QED
        BY <2>1, <2>2 DEF OwnerCountsOn
<1>11. AttemptsAreCounted'
    BY <1>3, <1>5 DEF DispatchInv, AttemptsAreCounted
<1>12. CancelledRowsExist'
    BY <1>3, <1>5 DEF DispatchInv, CancelledRowsExist
<1> QED
    BY <1>1, <1>2, <1>3, <1>5, <1>6, <1>7, <1>8, <1>9, <1>10, <1>11, <1>12

\* A success is recorded after a delivery.
LEMMA RecordSentKeepsInv ==
    ASSUME DispatchInv, NEW w \in Workers, RecordSent(w)
    PROVE  DispatchInv'
<1>1. /\ TypeOK /\ at[w] = "record" /\ reply[w] = "sent" /\ Write(w, "SENT") /\ NextRow(w)
      /\ UNCHANGED <<now, cancel, delivered, lostReplies, dbErrors, crashes>>
    BY DEF DispatchInv, RecordSent, outside
<1>2. PICK e \in Emails : e = Head(batch[w])
    BY <1>1, BatchHead
<1>3. /\ Owns(w, e)
      /\ status' \in [Emails -> Statuses] /\ attempts' \in [Emails -> 0..MaxAttempts]
      /\ status'[e] = "SENT"
      /\ \A f \in Emails \ {e} : status'[f] = status[f]
      /\ \A v \in Workers, f \in Emails : Owns(v, f)' <=> v # w /\ Owns(v, f)
      /\ \A v \in Workers : ~Owns(v, e)'
      /\ OwnedIsClaimed' /\ SingleOwner' /\ OwnerCountsOn' /\ RepliesAreFresh'
      /\ AttemptsAreCounted' /\ CancelledRowsExist'
    BY <1>1, <1>2, Recording
<1>4. \A v \in Workers \ {w} : reply'[v] = reply[v]
    BY <1>1, LettingGo
<1>5. TypeOK'
    BY <1>1, <1>3, LettingGo DEF TypeOK
<1>6. CopiesAreAccounted'
    BY <1>1, <1>3, <1>4 DEF DispatchInv, CopiesAreAccounted
<1>7. RepliesAreDeliveries'
    BY <1>1, <1>3, <1>4 DEF DispatchInv, RepliesAreDeliveries, SentWasDelivered
<1>8. OrphansAreFaults'
    <2>1. ASSUME NEW f \in Emails, Orphaned(f)'
          PROVE  Orphaned(f)
        <3>1. f # e
            BY <1>3, <2>1 DEF Orphaned
        <3>2. ~Owns(w, f)
            BY <1>2, <1>3, <3>1 DEF Owns
        <3> QED
            BY <1>3, <2>1, <3>1, <3>2 DEF Orphaned
    <2> QED
        BY <1>1, <2>1 DEF DispatchInv, OrphansAreFaults
<1> QED
    BY <1>3, <1>5, <1>6, <1>7, <1>8 DEF DispatchInv

\* A failed try delivered only copies whose replies were lost.
LEMMA RecordFailedKeepsInv ==
    ASSUME DispatchInv, NEW w \in Workers, RecordFailed(w)
    PROVE  DispatchInv'
<1>1. /\ TypeOK /\ at[w] = "record" /\ Write(w, AfterFailure(attempt[w])) /\ NextRow(w)
      /\ reply[w] = "failed"
      /\ UNCHANGED <<now, cancel, delivered, lostReplies, dbErrors, crashes>>
    BY DEF DispatchInv, RecordFailed, outside
<1>2. PICK e \in Emails : e = Head(batch[w])
    BY <1>1, BatchHead
<1> DEFINE s == AfterFailure(attempt[w])
<1>3. /\ Owns(w, e)
      /\ status' \in [Emails -> Statuses] /\ attempts' \in [Emails -> 0..MaxAttempts]
      /\ status'[e] \in {"SENT", "PENDING", "FAILED"} /\ status'[e] = s /\ s # "SENT"
      /\ \A f \in Emails \ {e} : status'[f] = status[f]
      /\ \A v \in Workers, f \in Emails : Owns(v, f)' <=> v # w /\ Owns(v, f)
      /\ \A v \in Workers : ~Owns(v, e)'
      /\ OwnedIsClaimed' /\ SingleOwner' /\ OwnerCountsOn' /\ RepliesAreFresh'
      /\ AttemptsAreCounted' /\ CancelledRowsExist'
    <2>1. s # "SENT"
        BY DEF AfterFailure
    <2> QED
        BY <1>1, <1>2, <2>1, Recording
<1> HIDE DEF s
<1>4. \A v \in Workers \ {w} : reply'[v] = reply[v]
    BY <1>1, LettingGo
<1>5. TypeOK'
    BY <1>1, <1>3, LettingGo DEF TypeOK
<1>6. delivered[e] <= lostReplies[e] /\ delivered[e] <= 1 + lostReplies[e]
    BY <1>1, <1>3 DEF DispatchInv, CopiesAreAccounted
<1>7. CopiesAreAccounted'
    <2>1. delivered' = delivered /\ lostReplies' = lostReplies
        BY <1>1
    <2>2. ASSUME NEW f \in Emails, f # e
          PROVE  /\ status'[f] \in {"ABSENT", "PENDING"} => delivered'[f] <= lostReplies'[f]
                 /\ \A v \in Workers :
                       Owns(v, f)' /\ reply'[v] # "sent" => delivered'[f] <= lostReplies'[f]
                 /\ delivered'[f] <= 1 + lostReplies'[f]
        BY <1>3, <1>4, <2>1, <2>2 DEF DispatchInv, CopiesAreAccounted
    <2> QED
        BY <1>3, <1>6, <2>1, <2>2 DEF CopiesAreAccounted
<1>8. RepliesAreDeliveries'
    BY <1>1, <1>3, <1>4 DEF DispatchInv, RepliesAreDeliveries, SentWasDelivered
<1>9. OrphansAreFaults'
    <2>1. ASSUME NEW f \in Emails, Orphaned(f)'
          PROVE  Orphaned(f) /\ f # e
        <3>1. f # e
            BY <1>3, <2>1 DEF Orphaned
        <3>2. ~Owns(w, f)
            BY <1>2, <1>3, <3>1 DEF Owns
        <3> QED
            BY <1>3, <2>1, <3>1, <3>2 DEF Orphaned
    <2> QED
        BY <1>1, <2>1 DEF DispatchInv, OrphansAreFaults
<1> QED
    BY <1>3, <1>5, <1>7, <1>8, <1>9 DEF DispatchInv

\* A tick that ends early leaves the rows as they are; what its e-mail is left with is a
\* crash or a database error.
LEMMA EndingKeepsInv ==
    ASSUME DispatchInv, NEW w \in Workers, TickRaises(w) \/ Crash(w)
    PROVE  DispatchInv'
<1>1. /\ TypeOK /\ at[w] # "idle" /\ EndTick(w)
      /\ UNCHANGED <<now, status, attempts, cancel, delivered, lostReplies>>
    BY DEF DispatchInv, TickRaises, Crash, DatabaseError, rows
<1>2. PICK e \in Emails : e = Head(batch[w])
    BY <1>1, BatchHead
<1>3. /\ dbErrors' \in [Emails -> 0..MaxDbErrors] /\ crashes' \in 0..MaxCrashes
      /\ \A f \in Emails : dbErrors'[f] \in Nat /\ dbErrors[f] \in Nat
      /\ \/ crashes' = crashes + 1 /\ dbErrors' = dbErrors
         \/ /\ crashes' = crashes /\ dbErrors'[e] = dbErrors[e] + 1
            /\ \A f \in Emails \ {e} : dbErrors'[f] = dbErrors[f]
      /\ crashes \in Nat
    <2>1. /\ dbErrors \in [Emails -> 0..MaxDbErrors] /\ MaxDbErrors \in Nat
          /\ \A n \in 0..MaxDbErrors : n \in Nat
          /\ crashes \in 0..MaxCrashes /\ MaxCrashes \in Nat
        BY <1>1, FieldTypes
    <2>2. CASE TickRaises(w)
        <3>1. /\ dbErrors[e] < MaxDbErrors /\ crashes' = crashes
              /\ dbErrors' = [dbErrors EXCEPT ![e] = @ + 1]
            BY <1>2, <2>2 DEF TickRaises, DatabaseError
        <3>2. dbErrors[e] + 1 \in 0..MaxDbErrors
            BY <2>1, <3>1
        <3> QED
            BY <2>1, <3>1, <3>2
    <2>3. CASE Crash(w)
        <3>1. crashes < MaxCrashes /\ crashes' = crashes + 1 /\ dbErrors' = dbErrors
            BY <2>3 DEF Crash
        <3>2. crashes + 1 \in 0..MaxCrashes
            BY <2>1, <3>1
        <3> QED
            BY <2>1, <3>1, <3>2
    <2> QED
        BY <2>2, <2>3
<1>4. /\ \A v \in Workers, f \in Emails : Owns(v, f)' <=> v # w /\ Owns(v, f)
      /\ \A v \in Workers \ {w} : /\ attempt'[v] = attempt[v] /\ reply'[v] = reply[v]
                                   /\ at'[v] = at[v]
      /\ reply'[w] = None
    BY <1>1, LettingGo
<1>5. TypeOK'
    BY <1>1, <1>3, LettingGo DEF TypeOK
<1>6. OwnedIsClaimed' /\ SingleOwner'
    BY <1>1, <1>4 DEF DispatchInv, OwnedIsClaimed, SingleOwner
<1>7. OwnerCountsOn' /\ AttemptsAreCounted'
    BY <1>1, <1>4 DEF DispatchInv, OwnerCountsOn, AttemptsAreCounted
<1>8. RepliesAreFresh'
    BY <1>4 DEF DispatchInv, RepliesAreFresh
<1>9. CopiesAreAccounted'
    BY <1>1, <1>4 DEF DispatchInv, CopiesAreAccounted
<1>10. RepliesAreDeliveries'
    BY <1>1, <1>4 DEF DispatchInv, RepliesAreDeliveries, SentWasDelivered
<1>11. OrphansAreFaults'
    <2> SUFFICES ASSUME NEW f \in Emails, Orphaned(f)'
                 PROVE  crashes' > 0 \/ dbErrors'[f] > 0
        BY DEF OrphansAreFaults
    <2>1. CASE crashes' = crashes + 1
        BY <1>3, <2>1
    <2>2. CASE f = e /\ dbErrors'[e] = dbErrors[e] + 1
        BY <1>3, <2>2
    <2>3. CASE f # e /\ crashes' = crashes /\ dbErrors'[f] = dbErrors[f]
        <3>1. ~Owns(w, f)
            BY <1>2, <2>3 DEF Owns
        <3>2. Orphaned(f)
            BY <1>1, <1>4, <3>1 DEF Orphaned
        <3> QED
            BY <2>3, <3>2 DEF DispatchInv, OrphansAreFaults
    <2> QED
        BY <1>3, <2>1, <2>2, <2>3
<1>12. CancelledRowsExist'
    BY <1>1 DEF DispatchInv, CancelledRowsExist
<1> QED
    BY <1>5, <1>6, <1>7, <1>8, <1>9, <1>10, <1>11, <1>12 DEF DispatchInv

\* A cancellation writes only the status, which the claim does not rest on.
LEMMA CancelKeepsInv ==
    ASSUME DispatchInv, NEW c \in Cancellers, NEW e \in Emails,
           CancelRead(c, e) \/ CancelCommit(c, e)
    PROVE  DispatchInv'
<1>1. /\ TypeOK
      /\ UNCHANGED <<now, attempts, at, batch, attempt, reply, delivered, lostReplies,
                     dbErrors, crashes>>
    BY DEF DispatchInv, CancelRead, CancelCommit, ticks, outside, rows
<1>2. /\ status' \in [Emails -> Statuses]
      /\ \/ status' = status
         \/ status'[e] = "CANCELLED" /\ \A f \in Emails \ {e} : status'[f] = status[f]
      /\ cancel' \in [Cancellers -> {"new", "done"} \union Emails]
      /\ \A d \in Cancellers \ {c} : cancel'[d] = cancel[d]
      /\ \/ cancel'[c] = e /\ status[e] # "ABSENT" /\ status' = status
         \/ cancel'[c] = "done"
    <2>1. status \in [Emails -> Statuses]
            /\ cancel \in [Cancellers -> {"new", "done"} \union Emails]
        BY <1>1 DEF TypeOK
    <2>2. CASE CancelRead(c, e)
        BY <2>1, <2>2 DEF CancelRead, rows
    <2>3. CASE CancelCommit(c, e)
        BY <2>1, <2>3 DEF CancelCommit, Statuses
    <2> QED
        BY <2>2, <2>3
<1>3. \A v \in Workers, f \in Emails : Owns(v, f)' <=> Owns(v, f)
    BY <1>1 DEF Owns
<1>4. TypeOK'
    BY <1>1, <1>2 DEF TypeOK
<1>5. OwnedIsClaimed' /\ SingleOwner'
    BY <1>2, <1>3 DEF DispatchInv, OwnedIsClaimed, SingleOwner
<1>6. OwnerCountsOn' /\ AttemptsAreCounted' /\ RepliesAreFresh'
    BY <1>1, <1>2, <1>3
       DEF DispatchInv, OwnerCountsOn, AttemptsAreCounted, RepliesAreFresh
<1>7. CopiesAreAccounted' /\ RepliesAreDeliveries'
    BY <1>1, <1>2, <1>3
       DEF DispatchInv, CopiesAreAccounted, RepliesAreDeliveries, SentWasDelivered
<1>8. OrphansAreFaults'
    BY <1>1, <1>2, <1>3 DEF DispatchInv, OrphansAreFaults, Orphaned
<1>9. CancelledRowsExist'
    BY <1>2, EmailsAssumption DEF DispatchInv, CancelledRowsExist
<1> QED
    BY <1>4, <1>5, <1>6, <1>7, <1>8, <1>9 DEF DispatchInv

\* Every step keeps the invariant.
LEMMA StepKeepsInv == DispatchInv /\ [Next]_vars => DispatchInv'
<1> SUFFICES ASSUME DispatchInv, [Next]_vars PROVE DispatchInv'
    OBVIOUS
<1>1. CASE Advance
    BY <1>1, AdvanceKeepsInv
<1>2. CASE \E e \in Emails : Schedule(e)
    BY <1>2, ScheduleKeepsInv
<1>3. CASE \E w \in Workers : Work(w)
    BY <1>3, StartTickKeepsInv, ClaimKeepsInv, SkipKeepsInv, SendKeepsInv,
       RecordSentKeepsInv, RecordFailedKeepsInv DEF Work
<1>4. CASE \E w \in Workers : Fault(w)
    BY <1>4, RecordFailedKeepsInv, EndingKeepsInv DEF Fault
<1>5. CASE \E c \in Cancellers, e \in Emails : CancelRead(c, e) \/ CancelCommit(c, e)
    BY <1>5, CancelKeepsInv
<1>6. CASE UNCHANGED vars
    <2> USE <1>6 DEF vars, rows, ticks, outside, DispatchInv
    <2>1. TypeOK'
        BY DEF TypeOK
    <2>2. \A v \in Workers, f \in Emails : Owns(v, f)' <=> Owns(v, f)
        BY DEF Owns
    <2>3. OwnedIsClaimed' /\ SingleOwner' /\ OwnerCountsOn' /\ RepliesAreFresh'
        BY <2>2 DEF OwnedIsClaimed, SingleOwner, OwnerCountsOn, RepliesAreFresh
    <2>4. AttemptsAreCounted' /\ OrphansAreFaults' /\ CancelledRowsExist'
        BY <2>2 DEF AttemptsAreCounted, OrphansAreFaults, Orphaned, CancelledRowsExist
    <2>5. CopiesAreAccounted' /\ RepliesAreDeliveries'
        BY <2>2 DEF CopiesAreAccounted, RepliesAreDeliveries, SentWasDelivered
    <2> QED
        BY <2>1, <2>3, <2>4, <2>5
<1> QED
    BY <1>1, <1>2, <1>3, <1>4, <1>5, <1>6 DEF Next

-----------------------------------------------------------------------------
(* The safety theorems                                                       *)

\* The inductive invariant holds in every reachable state.
THEOREM DispatchInvariant == Spec => []DispatchInv
BY InitEstablishesInv, StepKeepsInv, PTL DEF Spec

\* Type correctness, for any number of workers, e-mails and faults.
THEOREM TypeCorrect == Spec => []TypeOK
<1>1. DispatchInv => TypeOK
    BY DEF DispatchInv
<1> QED
    BY <1>1, DispatchInvariant, PTL

\* The optimistic claim works: an e-mail is never in two workers' hands, whatever the
\* stale batches, cancellations, crashes and database errors (scheduler.py).
THEOREM SingleOwnerTheorem == Spec => []SingleOwner
<1>1. DispatchInv => SingleOwner
    BY DEF DispatchInv
<1> QED
    BY <1>1, DispatchInvariant, PTL

\* Attempts are counted: PENDING has some left, FAILED has used them all.
THEOREM AttemptsTheorem == Spec => []AttemptsAreCounted
<1>1. DispatchInv => AttemptsAreCounted
    BY DEF DispatchInv
<1> QED
    BY <1>1, DispatchInvariant, PTL

\* Every copy after the first has a lost reply of its own, and SENT is never claimed for
\* an e-mail no server accepted.
THEOREM CopiesTheorem == Spec => []CopiesAreExplained
<1>1. DispatchInv => DuplicatesAreExplained
    BY DEF DispatchInv, CopiesAreAccounted, DuplicatesAreExplained
<1>2. DispatchInv => SentWasDelivered
    BY DEF DispatchInv, RepliesAreDeliveries, SentWasDelivered
<1>3. DispatchInv => CopiesAreExplained
    BY <1>1, <1>2 DEF CopiesAreExplained
<1> QED
    BY <1>3, DispatchInvariant, PTL

\* A row left SENDING without a sender has a crash or a database error behind it.
THEOREM OrphansTheorem == Spec => []OrphansAreFaults
<1>1. DispatchInv => OrphansAreFaults
    BY DEF DispatchInv
<1> QED
    BY <1>1, DispatchInvariant, PTL

-----------------------------------------------------------------------------
(* What is over stays over                                                   *)

\* The e-mail was taken out of the queue, no worker has it in hand, and no cancellation
\* is between its read and its write.
Closed(e) ==
    /\ status[e] \notin {"ABSENT", "PENDING"}
    /\ \A w \in Workers : ~Owns(w, e)
    /\ \A c \in Cancellers : cancel[c] # e

\* Neither its row nor its recipient's mailbox changes, and nobody takes it up.
LeftAlone(e) ==
    /\ status'[e] = status[e] /\ attempts'[e] = attempts[e] /\ delivered'[e] = delivered[e]
    /\ Closed(e)'

\* A worker that stays in its row, or leaves it, does not come to own another.
LEMMA NobodyTakesUp ==
    ASSUME TypeOK, NEW w \in Workers, NEW e \in Emails, ~Owns(w, e),
           \A v \in Workers \ {w} : at'[v] = at[v] /\ batch'[v] = batch[v],
           \/ at'[w] \in {"idle", "loop"}
           \/ at[w] \in {"send", "record"} /\ batch'[w] = batch[w]
           \/ Head(batch[w]) # e /\ batch'[w] = batch[w],
           \A v \in Workers : ~Owns(v, e)
    PROVE  \A v \in Workers : ~Owns(v, e)'
BY DEF Owns

\* A worker's step leaves a closed e-mail alone, be it a regular step or a fault.
LEMMA WorkersLeaveAlone ==
    ASSUME TypeOK, NEW e \in Emails, Closed(e), NEW w \in Workers, Work(w) \/ Fault(w)
    PROVE  LeftAlone(e)
<1> DEFINE f == Head(batch[w])
<1>1. /\ status[e] \notin {"ABSENT", "PENDING"} /\ ~Owns(w, e)
      /\ \A v \in Workers : ~Owns(v, e)
    BY DEF Closed
<1>2. at[w] \in {"send", "record"} => f # e
    BY <1>1 DEF Owns
<1>3. cancel' = cancel
    BY DEF Work, Fault, StartTick, Claim, Skip, Send, RecordSent, RecordFailed,
           TickRaises, Crash, DatabaseError
<1>4. \A v \in Workers \ {w} : at'[v] = at[v] /\ batch'[v] = batch[v]
    BY FieldTypes
       DEF Work, Fault, StartTick, Claim, Skip, Send, RecordSent, RecordFailed,
           TickRaises, Crash, NextRow, EndTick
<1>5. /\ status'[e] = status[e] /\ attempts'[e] = attempts[e]
      /\ delivered'[e] = delivered[e]
    <2>1. CASE StartTick(w) \/ Skip(w) \/ TickRaises(w) \/ Crash(w)
        BY <2>1 DEF StartTick, Skip, TickRaises, Crash, DatabaseError, rows, outside
    <2>2. CASE Claim(w)
        BY <1>1, <2>2, FieldTypes DEF Claim, outside
    <2>3. CASE Send(w)
        BY <1>2, <2>3, FieldTypes DEF Send, rows
    <2>4. CASE RecordSent(w) \/ RecordFailed(w)
        BY <1>2, <2>4, FieldTypes
           DEF RecordSent, RecordFailed, Write, outside
    <2> QED
        BY <2>1, <2>2, <2>3, <2>4 DEF Work, Fault
<1>6. \/ at'[w] \in {"idle", "loop"}
      \/ at[w] \in {"send", "record"} /\ batch'[w] = batch[w]
      \/ f # e /\ batch'[w] = batch[w]
    <2>1. CASE StartTick(w)
        BY <2>1, FieldTypes DEF StartTick
    <2>2. CASE Claim(w)
        BY <1>1, <2>2 DEF Claim
    <2>3. CASE Send(w)
        BY <2>3 DEF Send
    <2>4. CASE NextRow(w) \/ EndTick(w)
        BY <2>4, FieldTypes DEF NextRow, EndTick
    <2> QED
        BY <2>1, <2>2, <2>3, <2>4
           DEF Work, Fault, Skip, RecordSent, RecordFailed, TickRaises, Crash
<1>7. \A v \in Workers : ~Owns(v, e)'
    BY <1>1, <1>4, <1>6, NobodyTakesUp
<1> QED
    BY <1>1, <1>3, <1>5, <1>7 DEF Closed, LeftAlone

\* A closed e-mail is final: not a copy more is sent and its row is never written again.
\* For a settled one this is what a recipient can rely on, and the limit of the cancel
\* race: only a request that read it PENDING can overwrite it.  For one orphaned in SENDING
\* it means that no worker, restart or request ever picks it up (dispatch_due_emails
\* selects and cancel_scheduled_email accepts PENDING only).
THEOREM ClosedTheorem ==
    Spec => [][\A e \in Emails : Closed(e) => LeftAlone(e)]_vars
<1>1. TypeOK /\ [Next]_vars => [\A e \in Emails : Closed(e) => LeftAlone(e)]_vars
    <2> SUFFICES ASSUME TypeOK, Next, NEW e \in Emails, Closed(e) PROVE LeftAlone(e)
        OBVIOUS
    <2>1. /\ status[e] \notin {"ABSENT", "PENDING"}
          /\ \A w \in Workers : ~Owns(w, e)
          /\ \A c \in Cancellers : cancel[c] # e
        BY DEF Closed
    <2>2. CASE Advance
        BY <2>2 DEF Closed, LeftAlone, Advance, Owns, rows, ticks, outside
    <2>3. ASSUME NEW f \in Emails, Schedule(f) PROVE LeftAlone(e)
        <3>1. f # e
            BY <2>1, <2>3 DEF Schedule
        <3>2. status'[e] = status[e]
            BY <2>3, <3>1, FieldTypes DEF Schedule
        <3> QED
            BY <2>1, <2>3, <3>2 DEF Closed, LeftAlone, Schedule, Owns, ticks, outside
    <2>4. ASSUME NEW c \in Cancellers, NEW f \in Emails,
                 CancelRead(c, f) \/ CancelCommit(c, f)
          PROVE  LeftAlone(e)
        <3>1. f # e
            BY <2>1, <2>4 DEF CancelRead, CancelCommit
        <3>2. status'[e] = status[e]
            BY <2>4, <3>1, FieldTypes DEF CancelRead, CancelCommit, rows
        <3>3. \A d \in Cancellers : cancel'[d] # e
            BY <2>1, <2>4, <3>1, EmailsAssumption DEF TypeOK, CancelRead, CancelCommit
        <3>4. UNCHANGED <<attempts, at, batch, delivered>>
            BY <2>4 DEF CancelRead, CancelCommit, rows, ticks, outside
        <3> QED
            BY <2>1, <3>2, <3>3, <3>4 DEF Closed, LeftAlone, Owns
    <2> QED
        BY <2>2, <2>3, <2>4, WorkersLeaveAlone DEF Next
<1> QED
    BY <1>1, TypeCorrect, PTL DEF Spec

-----------------------------------------------------------------------------
(* The workers implement the outbox                                          *)

\* A worker that lets go of e leaves the others' e-mails, and only them, owned.
LEMMA OwnedAfterLettingGo ==
    ASSUME DispatchInv, NEW w \in Workers, NEW e \in Emails, Owns(w, e),
           \A v \in Workers, f \in Emails : Owns(v, f)' <=> v # w /\ Owns(v, f)
    PROVE  e \in Owned /\ Owned' = Owned \ {e}
<1>1. e \in Owned
    BY DEF Owned
<1>2. \A f \in Emails : Owns(w, f) => f = e
    BY DEF Owns
<1>3. ASSUME NEW f \in Emails
      PROVE  f \in Owned' <=> f \in Owned \ {e}
    <2>1. CASE f = e
        <3>1. \A v \in Workers : ~Owns(v, f)'
            BY <2>1 DEF DispatchInv, SingleOwner
        <3> QED
            BY <2>1, <3>1 DEF Owned
    <2>2. CASE f # e
        <3>1. \A v \in Workers : Owns(v, f)' <=> Owns(v, f)
            BY <1>2, <2>2
        <3> QED
            BY <2>2, <3>1 DEF Owned
    <2> QED
        BY <2>1, <2>2
<1> QED
    BY <1>1, <1>3 DEF Owned

\* What is owned depends only on the ticks.
LEMMA OwnedUnchanged ==
    ASSUME \A v \in Workers, f \in Emails : Owns(v, f)' <=> Owns(v, f)
    PROVE  Owned' = Owned
BY DEF Owned

\* An empty table is an empty outbox.
LEMMA InitImplements == Init => Outbox!Init
<1> SUFFICES ASSUME Init PROVE Outbox!Init
    OBVIOUS
<1>1. Owned = {}
    BY DEF Init, Owned, Owns
<1> QED
    BY <1>1 DEF Init, Outbox!Init

\* A successful claim takes the row.
LEMMA ClaimImplements ==
    ASSUME DispatchInv, NEW w \in Workers, Claim(w)
    PROVE  Outbox!Next
<1>1. /\ TypeOK /\ at[w] = "loop" /\ at' = [at EXCEPT ![w] = "send"]
      /\ UNCHANGED <<attempts, batch>>
    BY DEF DispatchInv, Claim
<1>2. PICK e \in Emails : e = Head(batch[w])
    BY <1>1, BatchHead
<1>3. status[e] = "PENDING" /\ status' = [status EXCEPT ![e] = "SENDING"]
    BY <1>2 DEF Claim
<1>4. \A v \in Workers, f \in Emails : Owns(v, f)' <=> Owns(v, f) \/ (v = w /\ f = e)
    BY <1>1, <1>2, FieldTypes DEF Owns
<1>5. Owned' = Owned \union {e}
    BY <1>4 DEF Owned
<1>6. e \notin Owned
    BY <1>3 DEF DispatchInv, OwnedIsClaimed, Owned
<1>7. Outbox!Take(e)
    BY <1>1, <1>3, <1>5, <1>6 DEF Outbox!Take
<1> QED
    BY <1>7 DEF Outbox!Next

\* Every recorded attempt finishes it.
LEMMA RecordImplements ==
    ASSUME DispatchInv, NEW w \in Workers, RecordSent(w) \/ RecordFailed(w)
    PROVE  Outbox!Next
<1> DEFINE n == attempt[w]
<1>1. /\ TypeOK /\ at[w] = "record" /\ NextRow(w) /\ UNCHANGED cancel
      /\ Write(w, "SENT") \/ Write(w, AfterFailure(n))
    BY DEF DispatchInv, RecordSent, RecordFailed
<1>2. PICK e \in Emails : e = Head(batch[w])
    BY <1>1, BatchHead
<1>3. /\ Owns(w, e)
      /\ \A v \in Workers, f \in Emails : Owns(v, f)' <=> v # w /\ Owns(v, f)
    BY <1>1, <1>2, Recording
<1>4. e \in Owned /\ Owned' = Owned \ {e}
    BY <1>3, OwnedAfterLettingGo
<1>5. n = attempts[e] + 1 /\ attempts[e] \in Nat /\ MaxAttempts \in Nat
    BY <1>1, <1>3, FieldTypes DEF DispatchInv, OwnerCountsOn
<1>6. AfterFailure(n) = IF attempts[e] + 1 < MaxAttempts THEN "PENDING" ELSE "FAILED"
    BY <1>5 DEF AfterFailure
<1>7. /\ attempts' = [attempts EXCEPT ![e] = attempts[e] + 1]
      /\ \E result \in {"SENT", AfterFailure(n)} : status' = [status EXCEPT ![e] = result]
    BY <1>1, <1>2, <1>5 DEF Write
<1>8. Outbox!Finish(e)
    BY <1>4, <1>6, <1>7 DEF Outbox!Finish
<1> QED
    BY <1>8 DEF Outbox!Next

\* A tick that ends early vanishes with its e-mail, if it had one.
LEMMA EndingImplements ==
    ASSUME DispatchInv, NEW w \in Workers, TickRaises(w) \/ Crash(w)
    PROVE  Outbox!Next \/ UNCHANGED Outbox!vars
<1>1. /\ TypeOK /\ at[w] # "idle" /\ EndTick(w) /\ UNCHANGED <<status, attempts>>
    BY DEF DispatchInv, TickRaises, Crash, DatabaseError, rows
<1>2. PICK e \in Emails : e = Head(batch[w])
    BY <1>1, BatchHead
<1>3. \A v \in Workers, f \in Emails : Owns(v, f)' <=> v # w /\ Owns(v, f)
    BY <1>1, LettingGo
<1>4. CASE Owns(w, e)
    <2>1. e \in Owned /\ Owned' = Owned \ {e}
        BY <1>3, <1>4, OwnedAfterLettingGo
    <2>2. Outbox!Vanish(e)
        BY <1>1, <2>1 DEF Outbox!Vanish
    <2> QED
        BY <2>2 DEF Outbox!Next
<1>5. CASE ~Owns(w, e)
    <2>1. \A f \in Emails : ~Owns(w, f)
        BY <1>2, <1>5 DEF Owns
    <2>2. Owned' = Owned
        BY <1>3, <2>1, OwnedUnchanged
    <2> QED
        BY <1>1, <2>2 DEF Outbox!vars
<1> QED
    BY <1>4, <1>5

\* The other steps of the workers and of the clock are invisible.
LEMMA InvisibleSteps ==
    ASSUME DispatchInv,
           Advance \/ UNCHANGED vars
             \/ \E w \in Workers : StartTick(w) \/ Skip(w) \/ Send(w)
    PROVE  UNCHANGED Outbox!vars
<1>1. UNCHANGED <<status, attempts>>
    BY DEF Advance, StartTick, Skip, Send, vars, rows
<1>2. \A v \in Workers, f \in Emails : Owns(v, f)' <=> Owns(v, f)
    <2>1. CASE Advance \/ UNCHANGED vars
        BY <2>1 DEF Advance, vars, ticks, Owns
    <2>2. ASSUME NEW w \in Workers, StartTick(w)
          PROVE  \A v \in Workers, f \in Emails : Owns(v, f)' <=> Owns(v, f)
        <3>1. /\ at[w] = "idle" /\ at' = [at EXCEPT ![w] = "loop"]
              /\ \E b \in Batches : batch' = [batch EXCEPT ![w] = b]
            BY <2>2 DEF StartTick
        <3>2. /\ at \in [Workers -> {"idle", "loop", "send", "record"}]
              /\ batch \in [Workers -> Seq(Emails)]
            BY DEF DispatchInv, TypeOK
        <3> QED
            BY <3>1, <3>2 DEF Owns
    <2>3. ASSUME NEW w \in Workers, Skip(w)
          PROVE  \A v \in Workers, f \in Emails : Owns(v, f)' <=> Owns(v, f)
        <3>1. TypeOK /\ at[w] = "loop" /\ NextRow(w)
            BY <2>3 DEF DispatchInv, Skip
        <3>2. \A f \in Emails : ~Owns(w, f)
            BY <3>1 DEF Owns
        <3> QED
            BY <3>1, <3>2, LettingGo
    <2>4. ASSUME NEW w \in Workers, Send(w)
          PROVE  \A v \in Workers, f \in Emails : Owns(v, f)' <=> Owns(v, f)
        <3>1. at[w] = "send" /\ at' = [at EXCEPT ![w] = "record"] /\ batch' = batch
            BY <2>4 DEF Send
        <3>2. at \in [Workers -> {"idle", "loop", "send", "record"}]
            BY DEF DispatchInv, TypeOK
        <3> QED
            BY <3>1, <3>2 DEF Owns
    <2> QED
        BY <2>1, <2>2, <2>3, <2>4
<1> QED
    BY <1>1, <1>2, OwnedUnchanged DEF Outbox!vars

\* What the API does to the table, the outbox knows too.
LEMMA ApiImplements ==
    ASSUME DispatchInv, NEW e \in Emails,
           Schedule(e) \/ \E c \in Cancellers : CancelRead(c, e) \/ CancelCommit(c, e)
    PROVE  Outbox!Next \/ UNCHANGED Outbox!vars
<1>1. UNCHANGED <<attempts, at, batch>>
    BY DEF Schedule, CancelRead, CancelCommit, rows, ticks
<1>2. Owned' = Owned
    BY <1>1, OwnedUnchanged DEF Owns
<1>3. CASE Schedule(e)
    BY <1>1, <1>2, <1>3 DEF Schedule, Outbox!Enqueue, Outbox!Next
<1>4. CASE \E c \in Cancellers : CancelRead(c, e)
    BY <1>2, <1>4 DEF CancelRead, rows, Outbox!vars
<1>5. CASE \E c \in Cancellers : CancelCommit(c, e)
    <2>1. status' = [status EXCEPT ![e] = "CANCELLED"]
        BY <1>5 DEF CancelCommit
    <2>2. status[e] # "ABSENT"
        BY <1>5 DEF CancelCommit, DispatchInv, CancelledRowsExist
    <2> QED
        BY <1>1, <1>2, <2>1, <2>2 DEF Outbox!Cancel, Outbox!Next
<1> QED
    BY <1>3, <1>4, <1>5

\* Every step of the dispatcher is a step of the outbox or none.
LEMMA StepImplements == DispatchInv /\ [Next]_vars => [Outbox!Next]_(Outbox!vars)
<1> SUFFICES ASSUME DispatchInv, [Next]_vars
             PROVE  Outbox!Next \/ UNCHANGED Outbox!vars
    OBVIOUS
<1>1. CASE Advance \/ UNCHANGED vars
    BY <1>1, InvisibleSteps
<1>2. CASE \E e \in Emails : Schedule(e)
    BY <1>2, ApiImplements
<1>3. CASE \E w \in Workers : Work(w)
    BY <1>3, InvisibleSteps, ClaimImplements, RecordImplements DEF Work
<1>4. CASE \E w \in Workers : Fault(w)
    BY <1>4, RecordImplements, EndingImplements DEF Fault
<1>5. CASE \E c \in Cancellers, e \in Emails : CancelRead(c, e) \/ CancelCommit(c, e)
    BY <1>5, ApiImplements
<1> QED
    BY <1>1, <1>2, <1>3, <1>4, <1>5 DEF Next

\* Whatever the workers, the cancellations and the faults do to each other, the table
\* shows the behaviour of the outbox: taken once at a time, counted once per attempt.
THEOREM Refinement == Spec => OutboxSpec
BY InitImplements, StepImplements, DispatchInvariant, PTL DEF Spec, OutboxSpec, Outbox!Spec
=============================================================================
