------------------------- MODULE ReplyMemoryProofs -------------------------
(***************************************************************************)
(* Proofs about ReplyMemory, for every set of turns, sessions, processes,  *)
(* preferences and questions, and every bound.                             *)
(*                                                                         *)
(* Replies: a reply in a bucket, or in the hands of a turn that is about   *)
(* to add one to it, was made under the preferences that name the bucket,  *)
(* unless they changed or could not be read meanwhile.  That a hit is      *)
(* current follows, but does not follow from itself: the entries must be.  *)
(* Hints: one turn of a session runs at a time, so the hint on record as   *)
(* sent is in the dialogue, which so holds each dislike the turn read.     *)
(* Rewrites: a file about to be written is what was read, with the change, *)
(* and what was read is what was acknowledged, as long as one turn at a    *)
(* time writes; what two processes do to each other is told by torn.       *)
(***************************************************************************)
EXTENDS ReplyMemory, FiniteSetTheorems, TLAPS

USE ReplyMemoryAssumption

Entry == [ask : Questions, reply : Turns \cup {None}]
Hearing == [any : BOOLEAN, hint : Seq(Preferences)]
Draft == [read : Seq(Preferences), file : Seq(Preferences),
          add : SUBSET Preferences, del : SUBSET Preferences]

Labels == {"idle", "scoping", "lookup", "asking", "replying", "rewriting", "writing",
           "answered", "embedding", "remembering", "done"}

Drafting == {"rewriting", "writing"}

TypeOK ==
  /\ pc \in [Turns -> Labels]
  /\ session \in [Turns -> Sessions] /\ ask \in [Turns -> Questions]
  /\ process \in [Sessions -> Processes]
  /\ hasHistory \in [Turns -> BOOLEAN]
  /\ scope \in [Turns -> Seq(Preferences)] /\ loaded \in [Turns -> Seq(Entry)]
  /\ reply \in [Turns -> Turns \cup {None}]
  /\ prefs \in Seq(Preferences)
  /\ draft \in [Turns -> Draft \cup {<<>>}]
  /\ \A t \in Turns : pc[t] \in Drafting => draft[t] \in Draft
  /\ \A key \in DOMAIN bucket : bucket[key] \in Seq(Entry)
  /\ heard \in [Sessions -> Hearing]
  /\ injected \in [Sessions -> Seq(Preferences)]
  /\ made \in [Turns -> Seq(Preferences)]
  /\ moved \subseteq Turns /\ unread \subseteq Turns /\ cut \subseteq Sessions
  /\ kept \subseteq Preferences

-----------------------------------------------------------------------------
(***************************************************************************)
(* Sequences                                                               *)
(***************************************************************************)

LEMMA FilesAreSequences == Files \subseteq Seq(Preferences)
<1>1. Cardinality(Preferences) \in Nat
  BY FS_CardinalityType
<1>2. QED
  BY <1>1 DEF Files, SeqOf

\* What is picked of a sequence are its members in the set.
LEMMA PickedMembers ==
  ASSUME NEW s, NEW set, NEW f \in Picked(s, set)
  PROVE  f \in Seq(Preferences) /\ ToSet(f) = ToSet(s) \cap set
BY FilesAreSequences DEF Picked

LEMMA MembersOf ==
  ASSUME NEW S, NEW s \in Seq(S)
  PROVE  ToSet(s) \subseteq S
BY DEF ToSet

LEMMA AppendedMembers ==
  ASSUME NEW S, NEW s \in Seq(S), NEW x \in S
  PROVE  ToSet(Append(s, x)) = ToSet(s) \cup {x}
<1>1. DOMAIN Append(s, x) = 1..(Len(s) + 1) /\ DOMAIN s = 1..Len(s) /\ Len(s) \in Nat
  OBVIOUS
<1>2. \A i \in DOMAIN s : Append(s, x)[i] = s[i]
  OBVIOUS
<1>3. Append(s, x)[Len(s) + 1] = x
  OBVIOUS
<1>4. QED
  BY <1>1, <1>2, <1>3 DEF ToSet

LEMMA JoinedMembers ==
  ASSUME NEW S, NEW s \in Seq(S), NEW u \in Seq(S)
  PROVE  s \o u \in Seq(S) /\ ToSet(s) \subseteq ToSet(s \o u)
<1>1. /\ DOMAIN (s \o u) = 1..(Len(s) + Len(u)) /\ DOMAIN s = 1..Len(s)
      /\ Len(s) \in Nat /\ Len(u) \in Nat
  OBVIOUS
<1>2. \A i \in DOMAIN s : i \in DOMAIN (s \o u) /\ (s \o u)[i] = s[i]
  BY <1>1
<1>3. QED
  BY <1>2 DEF ToSet

\* The hint carries every dislike that was read.
LEMMA HintsHoldDislikes ==
  ASSUME NEW read \in Seq(Preferences), NEW hint \in Selections(read)
  PROVE  /\ hint \in Seq(Preferences)
         /\ {p \in ToSet(read) : p[1] = "dislike"} \subseteq ToSet(hint)
<1>1. PICK d \in Picked(read, OfKind("dislike")), l \in Likes(read) : hint = d \o l
  BY DEF Selections
<1>2. d \in Seq(Preferences) /\ ToSet(d) = ToSet(read) \cap OfKind("dislike")
  BY PickedMembers
<1>3. l \in Seq(Preferences)
  BY PickedMembers DEF Likes
<1>4. ToSet(read) \subseteq Preferences
  BY MembersOf
<1>5. {p \in ToSet(read) : p[1] = "dislike"} \subseteq ToSet(d)
  BY <1>2, <1>4 DEF OfKind
<1>6. QED
  BY <1>1, <1>2, <1>3, <1>5, JoinedMembers

\* What is left of a bucket is some of it.
LEMMA NewestOf ==
  ASSUME NEW S, NEW s \in Seq(S)
  PROVE  /\ Newest(s) \in Seq(S)
         /\ \A i \in DOMAIN Newest(s) : \E j \in DOMAIN s : Newest(s)[i] = s[j]
<1> DEFINE m == Min({BucketLimit, Len(s)})
<1>1. m \in Nat /\ m <= Len(s)
  <2>1. Len(s) \in Nat /\ BucketLimit \in Nat
    OBVIOUS
  <2>2. \E x \in {BucketLimit, Len(s)} : \A y \in {BucketLimit, Len(s)} : x <= y
    BY <2>1
  <2>3. m \in {BucketLimit, Len(s)} /\ \A y \in {BucketLimit, Len(s)} : m <= y
    BY <2>2 DEF Min
  <2>4. QED
    BY <2>1, <2>3
<1>2. Newest(s) = SubSeq(s, Len(s) + 1 - m, Len(s))
  BY DEF Newest
<1> HIDE DEF m
<1>3. /\ Len(s) \in Nat /\ DOMAIN s = 1..Len(s)
      /\ SubSeq(s, Len(s) + 1 - m, Len(s)) = [i \in 1..m |-> s[i + Len(s) - m]]
  BY <1>1
<1>4. \A i \in 1..m : i + Len(s) - m \in DOMAIN s
  BY <1>1, <1>3
<1>5. QED
  BY <1>1, <1>2, <1>3, <1>4

-----------------------------------------------------------------------------
(***************************************************************************)
(* Types                                                                   *)
(***************************************************************************)
LEMMA EntriesTyped ==
  ASSUME TypeOK, NEW key
  PROVE  Entries(key) \in Seq(Entry)
BY DEF Entries, TypeOK

LEMMA InitTypes == Init => TypeOK
BY DEF Init, TypeOK, Hearing, Labels, Drafting

LEMMA StepTypes == TypeOK /\ [Next]_vars => TypeOK'
<1> SUFFICES ASSUME TypeOK, [Next]_vars PROVE TypeOK'
  OBVIOUS
<1> USE DEF turnVars, histVars, cacheVars, Goto, Fault, Changed, Labels, Drafting
<1>1. ASSUME NEW t \in Turns, Begin(t) PROVE TypeOK'
  <2>1. heard[session[t]].any \in BOOLEAN
    BY DEF TypeOK, Hearing
  <2>2. QED
    BY <1>1, <2>1 DEF Begin, TypeOK
<1>2. ASSUME NEW t \in Turns, NEW ok \in BOOLEAN, Scope(t, ok) PROVE TypeOK'
  <2>1. scope' \in [Turns -> Seq(Preferences)]
    BY <1>2 DEF Scope, TypeOK
  <2>2. unread' \subseteq Turns
    BY <1>2 DEF Scope, TypeOK
  <2>3. pc' \in [Turns -> Labels] /\ \A u \in Turns : pc'[u] \in Drafting => pc[u] \in Drafting
    BY <1>2 DEF Scope, TypeOK
  <2>4. QED
    BY <1>2, <2>1, <2>2, <2>3 DEF Scope, TypeOK
<1>3. ASSUME NEW t \in Turns, Lookup(t) PROVE TypeOK'
  <2>1. Entries(Bucket(t)) \in Seq(Entry)
    BY EntriesTyped
  <2>2. reply' \in [Turns -> Turns \cup {None}]
    <3>1. \A i \in DOMAIN Entries(Bucket(t)) : Entries(Bucket(t))[i].reply \in Turns \cup {None}
      <4>1. \A i \in DOMAIN Entries(Bucket(t)) : Entries(Bucket(t))[i] \in Entry
        BY <2>1
      <4>2. QED
        BY <4>1 DEF Entry
    <3>2. UNCHANGED reply \/ \E i \in DOMAIN Entries(Bucket(t)) :
                                reply' = [reply EXCEPT ![t] = Entries(Bucket(t))[i].reply]
      BY <1>3 DEF Lookup
    <3>3. QED
      BY <3>1, <3>2 DEF TypeOK
  <2>3. pc' = [pc EXCEPT ![t] = "asking"] \/ pc' = [pc EXCEPT ![t] = "done"]
    BY <1>3 DEF Lookup
  <2>4. QED
    BY <1>3, <2>2, <2>3 DEF Lookup, TypeOK
<1>4. ASSUME NEW t \in Turns, LookupFails(t) PROVE TypeOK'
  BY <1>4 DEF LookupFails, TypeOK
<1>5. ASSUME NEW t \in Turns, NEW ok \in BOOLEAN, Ask(t, ok) PROVE TypeOK'
  <2> DEFINE s == session[t]
             read == IF ok THEN prefs ELSE <<>>
  <2>1. read \in Seq(Preferences) /\ s \in Sessions
    BY DEF TypeOK
  <2>2. PICK hint \in Selections(read) :
          IF hint = <<>> \/ Sent(s, hint)
          THEN heard' = [heard EXCEPT ![s].any = TRUE] /\ UNCHANGED <<injected, cut>>
          ELSE /\ heard' = [heard EXCEPT ![s] = [any |-> TRUE, hint |-> hint]]
               /\ injected' = [injected EXCEPT ![s] = hint]
               /\ cut' = cut \ {s}
    BY <1>5 DEF Ask
  <2>3. hint \in Seq(Preferences)
    BY <2>1, HintsHoldDislikes
  <2>4. PICK h \in Hearing : heard' = [heard EXCEPT ![s] = h]
    <3>1. heard[s] \in Hearing /\ heard \in [Sessions -> Hearing]
      BY <2>1 DEF TypeOK
    <3>2. [heard[s] EXCEPT !.any = TRUE] \in Hearing /\ [any |-> TRUE, hint |-> hint] \in Hearing
      BY <2>3, <3>1 DEF Hearing
    <3>3. \/ heard' = [heard EXCEPT ![s] = [heard[s] EXCEPT !.any = TRUE]]
          \/ heard' = [heard EXCEPT ![s] = [any |-> TRUE, hint |-> hint]]
      BY <2>2, <3>1
    <3>4. QED
      BY <3>2, <3>3
  <2>5. injected' \in [Sessions -> Seq(Preferences)] /\ cut' \subseteq Sessions
    <3>1. \/ UNCHANGED <<injected, cut>>
          \/ injected' = [injected EXCEPT ![s] = hint] /\ cut' = cut \ {s}
      BY <2>2
    <3>2. injected' \in [Sessions -> Seq(Preferences)]
      BY <2>1, <2>3, <3>1 DEF TypeOK
    <3>3. cut' \subseteq Sessions
      BY <2>1, <3>1 DEF TypeOK
    <3>4. QED
      BY <3>2, <3>3
  <2>6. /\ made' = [made EXCEPT ![t] = read] /\ unread' \subseteq unread \cup {t}
        /\ pc' = [pc EXCEPT ![t] = "replying"]
        /\ UNCHANGED <<turnVars, hasHistory, cacheVars, prefs, draft, moved, kept>>
    BY <1>5 DEF Ask
  <2>7. made' \in [Turns -> Seq(Preferences)] /\ unread' \subseteq Turns
    BY <2>1, <2>6 DEF TypeOK
  <2>8. QED
    BY <2>4, <2>5, <2>6, <2>7 DEF TypeOK
<1>6. ASSUME NEW t \in Turns, ReadPreferences(t) PROVE TypeOK'
  <2>1. PICK d \in Draft : draft' = [draft EXCEPT ![t] = d]
    <3>1. CASE \E p \in Preferences \ ToSet(prefs) :
                 draft' = [draft EXCEPT ![t] = [read |-> prefs, file |-> Appended(prefs, p),
                                                add |-> {p}, del |-> {}]]
      <4>1. PICK p \in Preferences :
              draft' = [draft EXCEPT ![t] = [read |-> prefs, file |-> Appended(prefs, p),
                                             add |-> {p}, del |-> {}]]
        BY <3>1
      <4>2. Appended(prefs, p) \in Seq(Preferences)
        BY DEF Appended, TypeOK
      <4>3. QED
        BY <4>1, <4>2 DEF Draft, TypeOK
    <3>2. CASE \E s \in Statements : \E file \in Without(prefs, s) :
                 draft' = [draft EXCEPT ![t] = [read |-> prefs, file |-> file, add |-> {},
                                                del |-> {p \in Preferences : p[2] = s}]]
      <4>1. PICK s \in Statements : \E file \in Without(prefs, s) :
              draft' = [draft EXCEPT ![t] = [read |-> prefs, file |-> file, add |-> {},
                                             del |-> {p \in Preferences : p[2] = s}]]
        BY <3>2
      <4>f. PICK file \in Without(prefs, s) :
              draft' = [draft EXCEPT ![t] = [read |-> prefs, file |-> file, add |-> {},
                                             del |-> {p \in Preferences : p[2] = s}]]
        BY <4>1
      <4>2. file \in Seq(Preferences)
        BY PickedMembers DEF Without
      <4>3. QED
        BY <4>f, <4>2 DEF Draft, TypeOK
    <3>3. QED
      BY <1>6, <3>1, <3>2 DEF ReadPreferences
  <2>2. draft' \in [Turns -> Draft \cup {<<>>}] /\ draft'[t] = d
    BY <2>1 DEF TypeOK
  <2>3. \A u \in Turns : pc'[u] \in Drafting => draft'[u] \in Draft
    BY <1>6, <2>1, <2>2 DEF ReadPreferences, TypeOK
  <2>4. QED
    BY <1>6, <2>2, <2>3 DEF ReadPreferences, TypeOK
<1>7. ASSUME NEW t \in Turns, Write(t) PROVE TypeOK'
  <2>1. draft[t] \in Draft
    BY <1>7 DEF Write, TypeOK
  <2>2. prefs' \in Seq(Preferences)
    <3>1. prefs' = draft[t].file \/ prefs' = <<>>
      BY <1>7 DEF Write
    <3>2. draft[t].file \in Seq(Preferences)
      BY <2>1 DEF Draft
    <3>3. <<>> \in Seq(Preferences)
      OBVIOUS
    <3>4. QED
      BY <3>1, <3>2, <3>3
  <2>3. kept' \subseteq Preferences /\ moved' \subseteq Turns
    BY <1>7, <2>1 DEF Write, Draft, TypeOK
  <2>4. \A u \in Turns : pc'[u] \in Drafting => u # t /\ pc[u] \in Drafting
    BY <1>7 DEF Write, TypeOK
  <2>5. /\ draft' \in [Turns -> Draft \cup {<<>>}]
        /\ \A u \in Turns : u # t => draft'[u] = draft[u]
    BY <1>7 DEF Write, TypeOK
  <2>6. QED
    BY <1>7, <2>2, <2>3, <2>4, <2>5 DEF Write, TypeOK
<1>17. ASSUME NEW t \in Turns, Truncate(t) PROVE TypeOK'
  BY <1>17 DEF Truncate, TypeOK
<1>8. ASSUME NEW t \in Turns, Answer(t) PROVE TypeOK'
  BY <1>8 DEF Answer, TypeOK
<1>9. ASSUME NEW t \in Turns, Fail(t) PROVE TypeOK'
  BY <1>9 DEF Fail, TypeOK
<1>10. ASSUME NEW t \in Turns, NEW ok \in BOOLEAN, Load(t, ok) PROVE TypeOK'
  <2>1. loaded' \in [Turns -> Seq(Entry)]
    BY <1>10, EntriesTyped DEF Load, TypeOK
  <2>2. pc' = [pc EXCEPT ![t] = "remembering"]
    BY <1>10 DEF Load
  <2>3. QED
    BY <1>10, <2>1, <2>2 DEF Load, TypeOK
<1>11. ASSUME NEW t \in Turns, NEW ok \in BOOLEAN, Remember(t, ok) PROVE TypeOK'
  <2>1. ASSUME NEW key \in DOMAIN bucket'
        PROVE  bucket'[key] \in Seq(Entry)
    <3>1. Append(loaded[t], [ask |-> ask[t], reply |-> reply[t]]) \in Seq(Entry)
      <4>1. [ask |-> ask[t], reply |-> reply[t]] \in Entry /\ loaded[t] \in Seq(Entry)
        BY DEF TypeOK, Entry
      <4>2. QED
        BY <4>1
    <3>2. Newest(Append(loaded[t], [ask |-> ask[t], reply |-> reply[t]])) \in Seq(Entry)
      BY <3>1, NewestOf
    <3>3. bucket'[key] \in {Newest(Append(loaded[t], [ask |-> ask[t], reply |-> reply[t]]))}
                         \cup {bucket[k] : k \in DOMAIN bucket}
      BY <1>11, <2>1 DEF Remember
    <3>4. QED
      BY <3>2, <3>3 DEF TypeOK
  <2>2. pc' = [pc EXCEPT ![t] = "done"] /\ loaded' = [loaded EXCEPT ![t] = <<>>]
    BY <1>11 DEF Remember
  <2>3. QED
    BY <1>11, <2>1, <2>2 DEF Remember, TypeOK
<1>12. ASSUME NEW s \in Sessions, Compress(s) PROVE TypeOK'
  <2>1. [heard[s] EXCEPT !.hint = <<>>] \in Hearing
    <3>1. heard[s] \in Hearing
      BY DEF TypeOK
    <3>2. <<>> \in Seq(Preferences)
      OBVIOUS
    <3>3. QED
      BY <3>1, <3>2 DEF Hearing
  <2>2. heard' = [heard EXCEPT ![s] = [heard[s] EXCEPT !.hint = <<>>]]
    BY <1>12 DEF Compress, TypeOK
  <2>3. QED
    BY <1>12, <2>1, <2>2 DEF Compress, TypeOK
<1>13. ASSUME NEW s \in Sessions, LoseContext(s) PROVE TypeOK'
  <2>1. [any |-> FALSE, hint |-> <<>>] \in Hearing
    BY DEF Hearing
  <2>2. QED
    BY <1>13, <2>1 DEF LoseContext, TypeOK
<1>14. ASSUME NEW p \in Processes, Restart(p) PROVE TypeOK'
  <2>1. /\ draft' \in [Turns -> Draft \cup {<<>>}] /\ loaded' \in [Turns -> Seq(Entry)]
        /\ injected' \in [Sessions -> Seq(Preferences)]
    BY <1>14 DEF Restart, TypeOK
  <2>2. heard' \in [Sessions -> Hearing]
    BY <1>14 DEF Restart, TypeOK, Hearing
  <2>3. /\ pc' \in [Turns -> Labels]
        /\ \A t \in Turns : pc'[t] \in Drafting => pc[t] \in Drafting /\ draft'[t] = draft[t]
    BY <1>14 DEF Restart, Running, TypeOK
  <2>4. kept' \subseteq Preferences
    BY <1>14, MembersOf DEF Restart, TypeOK
  <2>5. QED
    BY <1>14, <2>1, <2>2, <2>3, <2>4 DEF Restart, TypeOK
<1>15. CASE UNCHANGED vars
  BY <1>15 DEF vars, TypeOK
<1>16. QED
  BY <1>1, <1>2, <1>3, <1>4, <1>5, <1>6, <1>7, <1>8, <1>9, <1>10, <1>11, <1>12, <1>13,
     <1>14, <1>15, <1>17 DEF Next

-----------------------------------------------------------------------------
(***************************************************************************)
(* What a step leaves alone                                                *)
(***************************************************************************)
Turn(t) ==
  \/ Begin(t) \/ Lookup(t) \/ LookupFails(t)
  \/ ReadPreferences(t) \/ Truncate(t) \/ Write(t) \/ Answer(t) \/ Fail(t)
  \/ \E ok \in BOOLEAN : Scope(t, ok) \/ Ask(t, ok) \/ Load(t, ok) \/ Remember(t, ok)

\* What the replies and the drafts of the turn u consist of.
Work(u) == <<pc[u], scope[u], loaded[u], reply[u], made[u], draft[u]>>

LEMMA TurnOnly ==
  ASSUME TypeOK, NEW t \in Turns, Turn(t)
  PROVE  /\ pc[t] # "done"
         /\ \A u \in Turns \ {t} : Work(u)' = Work(u)
         /\ moved \subseteq moved' /\ unread \subseteq unread'
         /\ UNCHANGED <<turnVars>>
<1> USE DEF Work, histVars, cacheVars, turnVars, Goto, Fault, Changed, TypeOK
<1>1. CASE Begin(t)
  BY <1>1 DEF Begin
<1>2. CASE Lookup(t)
  BY <1>2 DEF Lookup
<1>3. CASE LookupFails(t)
  BY <1>3 DEF LookupFails
<1>4. CASE ReadPreferences(t)
  <2>1. pc[t] = "replying" /\ UNCHANGED <<turnVars, scope, loaded, reply, made, moved, unread>>
    BY <1>4 DEF ReadPreferences
  <2>2. pc' = [pc EXCEPT ![t] = "rewriting"] /\ \E d : draft' = [draft EXCEPT ![t] = d]
    BY <1>4 DEF ReadPreferences
  <2>3. QED
    BY <2>1, <2>2
<1>5. CASE Truncate(t)
  BY <1>5 DEF Truncate
<1>13. CASE Write(t)
  BY <1>13 DEF Write
<1>6. CASE Answer(t)
  BY <1>6 DEF Answer
<1>7. CASE Fail(t)
  BY <1>7 DEF Fail
<1>8. ASSUME NEW ok \in BOOLEAN, Scope(t, ok)
      PROVE  /\ pc[t] # "done"
             /\ \A u \in Turns \ {t} : Work(u)' = Work(u)
             /\ moved \subseteq moved' /\ unread \subseteq unread'
             /\ UNCHANGED <<turnVars>>
  BY <1>8 DEF Scope
<1>9. ASSUME NEW ok \in BOOLEAN, Ask(t, ok)
      PROVE  /\ pc[t] # "done"
             /\ \A u \in Turns \ {t} : Work(u)' = Work(u)
             /\ moved \subseteq moved' /\ unread \subseteq unread'
             /\ UNCHANGED <<turnVars>>
  BY <1>9 DEF Ask
<1>10. ASSUME NEW ok \in BOOLEAN, Load(t, ok)
       PROVE  /\ pc[t] # "done"
              /\ \A u \in Turns \ {t} : Work(u)' = Work(u)
              /\ moved \subseteq moved' /\ unread \subseteq unread'
              /\ UNCHANGED <<turnVars>>
  BY <1>10 DEF Load
<1>11. ASSUME NEW ok \in BOOLEAN, Remember(t, ok)
       PROVE  /\ pc[t] # "done"
              /\ \A u \in Turns \ {t} : Work(u)' = Work(u)
              /\ moved \subseteq moved' /\ unread \subseteq unread'
              /\ UNCHANGED <<turnVars>>
  BY <1>11 DEF Remember
<1>12. QED
  BY <1>1, <1>2, <1>3, <1>4, <1>5, <1>6, <1>7, <1>8, <1>9, <1>10, <1>11, <1>13 DEF Turn

LEMMA NextIs ==
  ASSUME [Next]_vars
  PROVE  \/ \E t \in Turns : Turn(t)
         \/ \E s \in Sessions : Compress(s) \/ LoseContext(s)
         \/ \E p \in Processes : Restart(p)
         \/ UNCHANGED vars
BY DEF Next, Turn

-----------------------------------------------------------------------------
(***************************************************************************)
(* Replies                                                                 *)
(***************************************************************************)

\* A finished turn whose reply belongs in a bucket.
Good(u, key) ==
  /\ u \in Turns /\ pc[u] = "done"
  /\ made[u] = key \/ u \in moved \cup unread

Early == {"idle", "scoping", "lookup", "asking", "replying", "rewriting", "writing"}
Late  == {"embedding", "remembering"}

\* A turn's own reply, until it is remembered: what it was made under is what
\* the buyer prefers, and then what its bucket is named after.
Own(t) ==
  /\ pc[t] \in {"replying", "rewriting", "writing", "answered"} /\ t \notin moved \cup unread => made[t] = prefs
  /\ pc[t] \in Late /\ t \notin moved \cup unread => made[t] = scope[t]
  /\ pc[t] \in Early => reply[t] = None
  /\ pc[t] \in Late \cup {"answered"} => reply[t] = t

\* What a turn delivers is its own, or a reply fit for the bucket it asked.
Reused(t) == reply[t] \in {None, t} \/ (pc[t] = "done" /\ Good(reply[t], scope[t]))

\* What a turn has read of its bucket, to append to it.
Holds(t) == \A i \in DOMAIN loaded[t] : pc[t] = "remembering" /\ Good(loaded[t][i].reply, scope[t])

Stored == \A key \in DOMAIN bucket : \A i \in DOMAIN bucket[key] : Good(bucket[key][i].reply, key)

Replies == Stored /\ \A t \in Turns : Own(t) /\ Reused(t) /\ Holds(t)

LEMMA InitReplies == Init => Replies
BY DEF Init, Replies, Stored, Own, Reused, Holds, Early, Late

\* What is done stays as it is.
LEMMA GoodStays ==
  ASSUME moved \subseteq moved', unread \subseteq unread',
         \A u \in Turns : pc[u] = "done" => pc'[u] = "done" /\ made'[u] = made[u],
         NEW u, NEW key, Good(u, key)
  PROVE  Good(u, key)'
BY DEF Good

LEMMA EntriesGood ==
  ASSUME Replies, NEW key, NEW i \in DOMAIN Entries(key)
  PROVE  Good(Entries(key)[i].reply, key)
BY DEF Replies, Stored, Entries

LEMMA StepReplies == TypeOK /\ Replies /\ [Next]_vars => Replies'
<1> SUFFICES ASSUME TypeOK, Replies, [Next]_vars PROVE Replies'
  OBVIOUS
\* One turn takes a step.
<1>1. ASSUME NEW t \in Turns, Turn(t)
      PROVE  Replies'
  <2>1. /\ pc[t] # "done"
        /\ \A u \in Turns \ {t} : Work(u)' = Work(u)
        /\ moved \subseteq moved' /\ unread \subseteq unread'
    BY <1>1, TurnOnly
  <2>2. \A u \in Turns \ {t} : /\ pc'[u] = pc[u] /\ scope'[u] = scope[u] /\ loaded'[u] = loaded[u]
                               /\ reply'[u] = reply[u] /\ made'[u] = made[u]
    BY <2>1 DEF Work
  <2>3. \A u, key : Good(u, key) => Good(u, key)'
    <3>1. \A u \in Turns : pc[u] = "done" => pc'[u] = "done" /\ made'[u] = made[u]
      BY <2>1, <2>2
    <3>2. QED
      BY <2>1, <3>1, GoodStays
  <2>4. \A u \in Turns \ {t} : Reused(u)' /\ Holds(u)'
    BY <2>2, <2>3 DEF Replies, Reused, Holds
  <2>5. \A u \in Turns \ {t} : Own(u)'
    <3>1. prefs' = prefs \/ \A u \in Turns : Running(u) => u \in moved'
      BY <1>1 DEF Turn, cacheVars, histVars, Begin, Lookup, LookupFails, ReadPreferences, Truncate,
                  Write, Changed, Answer, Fail, Scope, Ask, Load, Remember
    <3>2. QED
      BY <2>1, <2>2, <3>1 DEF Replies, Own, Running, Early, Late
  <2>6. ASSUME UNCHANGED bucket, Own(t)', Reused(t)', Holds(t)'
        PROVE  Replies'
    <3>1. Stored'
      BY <2>3, <2>6 DEF Replies, Stored
    <3>2. QED
      BY <2>4, <2>5, <2>6, <3>1 DEF Replies
  <2>7. Own(t) /\ Reused(t) /\ Holds(t)
    BY DEF Replies
  <2>8. ASSUME pc[t] # "remembering" PROVE DOMAIN loaded[t] = {}
    BY <2>7, <2>8 DEF Holds
  <2> USE DEF histVars, cacheVars, turnVars, Goto, Fault, Changed, TypeOK
  \* The cache is not asked, or does not answer.
  <2>9. ASSUME Begin(t) \/ LookupFails(t) \/ Fail(t) \/ ReadPreferences(t) \/ Truncate(t) \/ Write(t)
        PROVE  Replies'
    <3>1. /\ pc[t] # "remembering" /\ UNCHANGED <<bucket, loaded[t], reply[t], made[t], scope[t]>>
          /\ \/ pc[t] = "idle" /\ pc'[t] = "scoping"
             \/ pc[t] = "lookup" /\ pc'[t] = "asking"
             \/ pc[t] \in {"replying", "embedding"} /\ pc'[t] = "done"
             \/ pc[t] = "replying" /\ pc'[t] = "rewriting" /\ prefs' = prefs
             \/ pc[t] \in Drafting /\ pc'[t] \in {"writing", "replying"} /\ t \in moved'
      <4>1. CASE Begin(t)
        BY <4>1 DEF Begin
      <4>2. CASE LookupFails(t)
        BY <4>2 DEF LookupFails
      <4>3. CASE Fail(t)
        BY <4>3 DEF Fail
      <4>4. CASE ReadPreferences(t)
        BY <4>4 DEF ReadPreferences
      <4>5. CASE Truncate(t)
        BY <4>5 DEF Truncate, Running, Drafting
      <4>6. CASE Write(t)
        BY <4>6 DEF Write, Running, Drafting
      <4>7. QED
        BY <2>9, <4>1, <4>2, <4>3, <4>4, <4>5, <4>6
    <3>2. Own(t)'
      BY <2>1, <2>7, <3>1 DEF Own, Early, Late, Drafting
    <3>3. Reused(t)'
      BY <2>7, <3>1, None \notin Turns DEF Own, Reused, Early, Late, Drafting
    <3>4. Holds(t)'
      BY <2>8, <3>1 DEF Holds
    <3>5. QED
      BY <2>6, <3>1, <3>2, <3>3, <3>4
  <2>10. ASSUME NEW ok \in BOOLEAN, Scope(t, ok)
         PROVE  Replies'
    <3>1. /\ UNCHANGED <<bucket, loaded, reply, made, prefs, moved>>
          /\ pc[t] \in {"scoping", "answered"}
          /\ pc[t] = "scoping" => pc'[t] \in {"lookup", "asking"}
          /\ pc[t] = "answered" => pc'[t] \in {"embedding", "done"}
          /\ scope'[t] = prefs \/ t \in unread'
      BY <2>10 DEF Scope
    <3>2. Own(t)'
      BY <2>1, <2>7, <3>1 DEF Own, Early, Late
    <3>3. Reused(t)'
      BY <2>7, <3>1 DEF Own, Reused, Early, Late
    <3>4. Holds(t)'
      BY <2>8, <3>1 DEF Holds
    <3>5. QED
      BY <2>6, <3>1, <3>2, <3>3, <3>4
  <2>11. CASE Lookup(t)
    <3>1. /\ pc[t] = "lookup" /\ UNCHANGED <<bucket, loaded, made, scope, prefs>>
          /\ \/ pc'[t] = "asking" /\ reply' = reply
             \/ /\ pc'[t] = "done"
                /\ \E i \in DOMAIN Entries(scope[t]) : reply'[t] = Entries(scope[t])[i].reply
      BY <2>11 DEF Lookup, Bucket
    <3>2. Own(t)'
      BY <2>7, <3>1 DEF Own, Early, Late
    <3>3. Reused(t)'
      <4>1. CASE pc'[t] = "asking" /\ reply' = reply
        BY <2>7, <3>1, <4>1 DEF Own, Reused, Early
      <4>2. CASE /\ pc'[t] = "done"
                 /\ \E i \in DOMAIN Entries(scope[t]) : reply'[t] = Entries(scope[t])[i].reply
        <5>1. Good(reply'[t], scope[t])
          BY <4>2, EntriesGood
        <5>2. pc'[t] = "done" /\ scope'[t] = scope[t] /\ \E u : u = reply'[t]
          BY <3>1, <4>2
        <5>3. PICK u, key : u = reply'[t] /\ key = scope[t]
          OBVIOUS
        <5>4. Good(u, key)'
          BY <2>3, <5>1, <5>3
        <5>5. QED
          BY <5>2, <5>3, <5>4 DEF Reused, Good
      <4>3. QED
        BY <3>1, <4>1, <4>2
    <3>4. Holds(t)'
      BY <2>8, <3>1 DEF Holds
    <3>5. QED
      BY <2>6, <3>1, <3>2, <3>3, <3>4
  <2>12. ASSUME NEW ok \in BOOLEAN, Ask(t, ok)
         PROVE  Replies'
    <3>1. /\ UNCHANGED <<bucket, loaded, reply, scope, prefs, moved>>
          /\ pc[t] = "asking" /\ pc'[t] = "replying"
          /\ made'[t] = prefs \/ t \in unread'
      BY <2>12 DEF Ask
    <3>2. Own(t)'
      BY <2>7, <3>1 DEF Own, Early, Late
    <3>3. Reused(t)'
      BY <2>7, <3>1 DEF Own, Reused, Early
    <3>4. Holds(t)'
      BY <2>8, <3>1 DEF Holds
    <3>5. QED
      BY <2>6, <3>1, <3>2, <3>3, <3>4
  <2>13. CASE Answer(t)
    <3>1. /\ UNCHANGED <<bucket, loaded, made, scope, prefs, moved, unread>>
          /\ pc[t] = "replying" /\ pc'[t] = "answered" /\ reply'[t] = t
      BY <2>13 DEF Answer
    <3>2. Own(t)'
      BY <2>7, <3>1 DEF Own, Early, Late
    <3>3. Reused(t)'
      BY <3>1 DEF Reused
    <3>4. Holds(t)'
      BY <2>8, <3>1 DEF Holds
    <3>5. QED
      BY <2>6, <3>1, <3>2, <3>3, <3>4
  <2>14. ASSUME NEW ok \in BOOLEAN, Load(t, ok)
         PROVE  Replies'
    <3>1. /\ UNCHANGED <<bucket, made, scope, reply, prefs, moved, unread>>
          /\ pc[t] = "embedding" /\ pc'[t] = "remembering"
          /\ loaded'[t] = Entries(scope[t]) \/ loaded'[t] = <<>>
      BY <2>14 DEF Load, Bucket
    <3>2. Own(t)'
      BY <2>7, <3>1 DEF Own, Early, Late
    <3>3. Reused(t)'
      BY <2>7, <3>1 DEF Own, Reused, Late
    <3>4. Holds(t)'
      <4>1. ASSUME NEW i \in DOMAIN loaded'[t]
            PROVE  Good(loaded'[t][i].reply, scope[t])
        BY <3>1, <4>1, EntriesGood
      <4>2. ASSUME NEW u, NEW key, u = reply, Good(u, key) PROVE Good(u, key)'
        BY <2>3, <4>2
      <4>3. ASSUME NEW i \in DOMAIN loaded'[t], NEW u, NEW key, u = loaded'[t][i].reply, key = scope[t]
            PROVE  Good(u, key)'
        BY <2>3, <4>1, <4>3
      <4>4. QED
        BY <3>1, <4>3 DEF Holds, Good
    <3>5. QED
      BY <2>6, <3>1, <3>2, <3>3, <3>4
  <2>15. ASSUME NEW ok \in BOOLEAN, Remember(t, ok)
         PROVE  Replies'
    <3> DEFINE new == Append(loaded[t], [ask |-> ask[t], reply |-> reply[t]])
    <3>1. /\ UNCHANGED <<made, scope, reply, prefs, moved, unread>>
          /\ pc[t] = "remembering" /\ pc'[t] = "done" /\ loaded'[t] = <<>>
      BY <2>15 DEF Remember
    <3>2. Own(t)' /\ Reused(t)' /\ Holds(t)'
      BY <2>7, <3>1 DEF Own, Reused, Holds, Early, Late
    <3>3. reply[t] = t /\ Good(t, scope[t])'
      BY <2>7, <3>1 DEF Own, Late, Good
    <3>4. UNCHANGED bucket
          \/ bucket' = [key \in DOMAIN bucket \cup {scope[t]} |->
                          IF key = scope[t] THEN Newest(new) ELSE bucket[key]]
      BY <2>15 DEF Remember, Bucket
    <3>5. ASSUME NEW i \in DOMAIN new, NEW u, u = new[i].reply,
                 NEW key, key = scope[t]
          PROVE  Good(u, key)'
      <4>1. loaded[t] \in Seq(Entry) /\ [ask |-> ask[t], reply |-> reply[t]] \in Entry
        BY DEF Entry
      <4>2. (i \in DOMAIN loaded[t] /\ new[i] = loaded[t][i]) \/ new[i].reply = reply[t]
        BY <4>1
      <4>3. CASE i \in DOMAIN loaded[t] /\ new[i] = loaded[t][i]
        <5>1. Good(u, key)
          BY <2>7, <3>5, <4>3 DEF Holds
        <5>2. QED
          BY <2>3, <5>1
      <4>4. CASE new[i].reply = reply[t]
        BY <3>1, <3>3, <3>5, <4>4 DEF Good
      <4>5. QED
        BY <4>2, <4>3, <4>4
    <3>6. Stored'
      <4> SUFFICES ASSUME NEW key \in DOMAIN bucket', NEW i \in DOMAIN bucket'[key],
                          NEW u, u = bucket'[key][i].reply
                   PROVE  Good(u, key)'
        BY DEF Stored, Good
      <4>1. CASE key \in DOMAIN bucket /\ bucket'[key] = bucket[key]
        <5>1. Good(u, key)
          BY <4>1 DEF Replies, Stored
        <5>2. QED
          BY <2>3, <5>1
      <4>2. CASE key = scope[t] /\ bucket'[key] = Newest(new)
        <5>1. new \in Seq(Entry)
          <6>1. loaded[t] \in Seq(Entry) /\ [ask |-> ask[t], reply |-> reply[t]] \in Entry
            BY DEF Entry
          <6>2. QED
            BY <6>1
        <5> HIDE DEF new
        <5>2. PICK j \in DOMAIN new : Newest(new)[i] = new[j]
          BY <4>2, <5>1, NewestOf
        <5>3. QED
          BY <3>5, <4>2, <5>2
      <4>3. QED
        BY <3>4, <4>1, <4>2
    <3>7. QED
      BY <2>4, <2>5, <3>2, <3>6 DEF Replies
  <2>16. QED
    BY <1>1, <2>9, <2>10, <2>11, <2>12, <2>13, <2>14, <2>15 DEF Turn
\* A dialogue loses its hint.
<1>2. ASSUME NEW s \in Sessions, Compress(s) \/ LoseContext(s)
      PROVE  Replies'
  BY <1>2 DEF Compress, LoseContext, turnVars, cacheVars, Replies, Stored, Own, Reused, Holds, Good
\* A process restarts.
<1>3. ASSUME NEW p \in Processes, Restart(p)
      PROVE  Replies'
  <2>1. UNCHANGED <<bucket, scope, reply, made, prefs, moved, unread>>
    BY <1>3 DEF Restart, cacheVars, turnVars, histVars
  <2>2. \A t \in Turns :
          \/ pc'[t] = pc[t] /\ loaded'[t] \in {loaded[t], <<>>}
          \/ pc'[t] = "done" /\ loaded'[t] = <<>> /\ Running(t)
    <3> SUFFICES ASSUME NEW t \in Turns
                 PROVE  \/ pc'[t] = pc[t] /\ loaded'[t] \in {loaded[t], <<>>}
                        \/ pc'[t] = "done" /\ loaded'[t] = <<>> /\ Running(t)
      OBVIOUS
    <3>1. /\ pc'[t] = (IF process[session[t]] = p /\ Running(t) THEN "done" ELSE pc[t])
          /\ loaded'[t] = (IF process[session[t]] = p THEN <<>> ELSE loaded[t])
      BY <1>3 DEF Restart
    <3>2. QED
      BY <3>1
  <2>3. \A u, key : Good(u, key) => Good(u, key)'
    BY <2>1, <2>2 DEF Good, Running
  <2>4. Stored'
    BY <2>1, <2>3 DEF Replies, Stored, Good
  <2>5. ASSUME NEW t \in Turns
        PROVE  Own(t)' /\ Reused(t)' /\ Holds(t)'
    <3>1. Own(t) /\ Reused(t) /\ Holds(t)
      BY DEF Replies
    <3>2. Own(t)'
      BY <2>1, <2>2, <3>1 DEF Own, Early, Late
    <3>3. Reused(t)'
      BY <2>1, <2>2, <2>3, <3>1 DEF Reused, Good
    <3>4. Holds(t)'
      BY <2>1, <2>2, <2>3, <3>1 DEF Holds, Good
    <3>5. QED
      BY <3>2, <3>3, <3>4
  <2>6. QED
    BY <2>4, <2>5 DEF Replies
<1>4. CASE UNCHANGED vars
  BY <1>4 DEF vars, turnVars, cacheVars, histVars, Replies, Stored, Own, Reused, Holds, Good
<1>5. QED
  BY <1>1, <1>2, <1>3, <1>4, NextIs

-----------------------------------------------------------------------------
(***************************************************************************)
(* Hints                                                                   *)
(***************************************************************************)
\* A session's turns come one after the other.
OneAtATime ==
  \A t, u \in Turns : session[t] = session[u] /\ Running(t) /\ Running(u) => t = u

\* What is on record as sent is what the dialogue holds.
Recorded(s) == s \in cut \/ injected[s] = <<>> \/ injected[s] = heard[s].hint

Dislikes(read) == {p \in ToSet(read) : p[1] = "dislike"}

Heard(t) ==
  pc[t] \in {"replying", "rewriting", "writing"} =>
    session[t] \in cut \/ Dislikes(made[t]) \subseteq ToSet(heard[session[t]].hint)

Hints == OneAtATime /\ (\A s \in Sessions : Recorded(s)) /\ \A t \in Turns : Heard(t)

LEMMA InitHints == Init => Hints
BY DEF Init, Hints, OneAtATime, Recorded, Heard, Running

LEMMA StepHints == TypeOK /\ Hints /\ [Next]_vars => Hints'
<1> SUFFICES ASSUME TypeOK, Hints, [Next]_vars PROVE Hints'
  OBVIOUS
<1> USE DEF turnVars, cacheVars, histVars, Goto, Fault
\* Any step of a turn but the one that asks.
<1>1. ASSUME NEW t \in Turns, Turn(t), \A ok \in BOOLEAN : ~Ask(t, ok)
      PROVE  Hints'
  <2>1. UNCHANGED <<turnVars, heard, injected, cut, made>>
    BY <1>1 DEF Turn, Begin, Lookup, LookupFails, ReadPreferences, Truncate, Write, Answer, Fail,
                Scope, Load, Remember
  <2>2. \A u \in Turns \ {t} : pc'[u] = pc[u]
    BY <1>1, TurnOnly DEF Work
  <2>3. /\ pc'[t] \in {"replying"} \cup Drafting => pc[t] \in {"replying"} \cup Drafting
        /\ ~Running(t) => \A u \in Turns : session[u] = session[t] => ~Running(u)
    <3>1. CASE Begin(t)
      BY <3>1 DEF Begin, TypeOK, Drafting
    <3>2. ASSUME ~Begin(t)
          PROVE  /\ pc'[t] \in {"replying"} \cup Drafting => pc[t] \in {"replying"} \cup Drafting
                 /\ Running(t)
      BY <1>1, <3>2 DEF Turn, Lookup, LookupFails, ReadPreferences, Truncate, Write, Answer, Fail,
                        Scope, Load, Remember, Running, TypeOK, Drafting
    <3>3. QED
      BY <3>1, <3>2
  <2>4. OneAtATime'
    BY <2>1, <2>2, <2>3 DEF Hints, OneAtATime, Running
  <2>5. \A s \in Sessions : Recorded(s)'
    BY <2>1 DEF Hints, Recorded
  <2>6. \A u \in Turns : Heard(u)'
    BY <2>1, <2>2, <2>3 DEF Hints, Heard, Drafting
  <2>7. QED
    BY <2>4, <2>5, <2>6 DEF Hints
<1>2. ASSUME NEW t \in Turns, NEW ok \in BOOLEAN, Ask(t, ok)
      PROVE  Hints'
  <2> DEFINE s == session[t]
             read == IF ok THEN prefs ELSE <<>>
  <2>1. /\ read \in Seq(Preferences) /\ s \in Sessions
        /\ heard \in [Sessions -> Hearing] /\ injected \in [Sessions -> Seq(Preferences)]
        /\ pc[t] = "asking" /\ pc' = [pc EXCEPT ![t] = "replying"]
        /\ made' = [made EXCEPT ![t] = read] /\ UNCHANGED turnVars
    BY <1>2 DEF Ask, TypeOK
  <2>2. PICK hint \in Selections(read) :
          IF hint = <<>> \/ Sent(s, hint)
          THEN heard' = [heard EXCEPT ![s].any = TRUE] /\ UNCHANGED <<injected, cut>>
          ELSE /\ heard' = [heard EXCEPT ![s] = [any |-> TRUE, hint |-> hint]]
               /\ injected' = [injected EXCEPT ![s] = hint]
               /\ cut' = cut \ {s}
    BY <1>2 DEF Ask
  <2>3. hint \in Seq(Preferences) /\ Dislikes(read) \subseteq ToSet(hint)
    BY <2>1, HintsHoldDislikes DEF Dislikes
  <2>4. \A q \in Sessions \ {s} : heard'[q] = heard[q] /\ injected'[q] = injected[q]
                                  /\ (q \in cut' <=> q \in cut)
    <3>1. CASE hint = <<>> \/ Sent(s, hint)
      BY <2>1, <2>2, <3>1
    <3>2. CASE ~(hint = <<>> \/ Sent(s, hint))
      BY <2>1, <2>2, <3>2
    <3>3. QED
      BY <3>1, <3>2
  <2>5. /\ Recorded(s)'
        /\ s \in cut' \/ hint = <<>> \/ heard'[s].hint = hint
    <3>1. CASE hint = <<>> \/ Sent(s, hint)
      <4>1. heard[s] \in Hearing
        BY <2>1
      <4>2. heard'[s].hint = heard[s].hint /\ UNCHANGED <<injected, cut>>
        <5>1. heard' = [heard EXCEPT ![s].any = TRUE] /\ UNCHANGED <<injected, cut>>
          BY <2>2, <3>1
        <5>2. heard'[s] = [heard[s] EXCEPT !.any = TRUE]
          BY <2>1, <5>1
        <5>3. heard'[s].hint = heard[s].hint
          BY <4>1, <5>2 DEF Hearing
        <5>4. QED
          BY <5>1, <5>3
      <4>3. Recorded(s)
        BY <2>1 DEF Hints
      <4>4. Recorded(s)'
        BY <2>1, <4>2, <4>3 DEF Recorded
      <4>5. s \in cut' \/ hint = <<>> \/ heard'[s].hint = hint
        <5>1. hint = <<>> \/ injected[s] = hint
          BY <3>1 DEF Sent
        <5>2. s \in cut \/ injected[s] = <<>> \/ injected[s] = heard[s].hint
          BY <4>3 DEF Recorded
        <5>3. cut' = cut
          BY <4>2
        <5>4. QED
          BY <4>2, <5>1, <5>2, <5>3
      <4>6. QED
        BY <4>4, <4>5
    <3>2. CASE ~(hint = <<>> \/ Sent(s, hint))
      <4>1. heard'[s] = [any |-> TRUE, hint |-> hint] /\ injected'[s] = hint
        BY <2>1, <2>2, <3>2
      <4>2. Recorded(s)'
        <5>1. injected'[s] = heard'[s].hint
          BY <4>1
        <5>2. QED
          BY <2>1, <5>1 DEF Recorded
      <4>3. QED
        BY <4>1, <4>2
    <3>3. QED
      BY <3>1, <3>2
  <2>6. OneAtATime'
    <3>1. \A u \in Turns : Running(u)' => Running(u)
      <4>1. \A u \in Turns \ {t} : pc'[u] = pc[u]
        BY <1>2, TurnOnly DEF Work, Turn
      <4>2. Running(t)
        BY <2>1 DEF Running
      <4>3. QED
        BY <4>1, <4>2 DEF Running
    <3>2. QED
      BY <2>1, <3>1 DEF Hints, OneAtATime
  <2>7. \A q \in Sessions : Recorded(q)'
    <3>1. ASSUME NEW q \in Sessions \ {s}
          PROVE  Recorded(q)'
      BY <2>4, <3>1 DEF Hints, Recorded
    <3>2. ASSUME NEW q \in Sessions, q = s
          PROVE  Recorded(q)'
      BY <2>1, <2>5, <3>2 DEF Recorded
    <3>3. QED
      BY <3>1, <3>2
  <2>8. ASSUME NEW u \in Turns
        PROVE  Heard(u)'
    <3>1. CASE u = t
      <4>1. made'[t] = read
        BY <2>1 DEF TypeOK
      <4>2. ToSet(<<>>) = {}
        BY DEF ToSet
      <4>3. s \in cut' \/ Dislikes(read) \subseteq ToSet(heard'[s].hint)
        BY <2>3, <2>5, <4>2
      <4>4. session'[t] = s
        BY <2>1
      <4>5. QED
        BY <3>1, <4>1, <4>3, <4>4 DEF Heard
    <3>2. CASE u # t /\ session[u] = s
      <4>1. pc'[u] = pc[u] /\ ~Running(u)
        BY <2>1, <3>2 DEF Hints, OneAtATime, Running, TypeOK
      <4>2. QED
        BY <4>1 DEF Heard, Running
    <3>3. CASE u # t /\ session[u] # s
      <4>1. pc'[u] = pc[u] /\ made'[u] = made[u] /\ session'[u] = session[u]
        BY <2>1, <3>3 DEF TypeOK
      <4>2. session[u] \in Sessions \ {s}
        BY <3>3 DEF TypeOK
      <4>3. QED
        BY <2>4, <4>1, <4>2 DEF Hints, Heard
    <3>4. QED
      BY <3>1, <3>2, <3>3
  <2>9. QED
    BY <2>6, <2>7, <2>8 DEF Hints
<1>3. ASSUME NEW s \in Sessions, Compress(s) \/ LoseContext(s)
      PROVE  Hints'
  <2>1. /\ UNCHANGED <<pc, turnVars, injected, made>> /\ cut' = cut \cup {s}
        /\ \A q \in Sessions \ {s} : heard'[q] = heard[q]
    BY <1>3 DEF Compress, LoseContext, TypeOK
  <2>2. \A t \in Turns : session[t] \in Sessions
    BY DEF TypeOK
  <2>3. OneAtATime' /\ \A q \in Sessions : Recorded(q)'
    BY <2>1 DEF Hints, OneAtATime, Running, Recorded
  <2>4. \A t \in Turns : Heard(t)'
    BY <2>1, <2>2 DEF Hints, Heard
  <2>5. QED
    BY <2>3, <2>4 DEF Hints
<1>4. ASSUME NEW p \in Processes, Restart(p)
      PROVE  Hints'
  <2>1. /\ UNCHANGED <<turnVars, made, cut>>
        /\ \A t \in Turns : pc'[t] = (IF process[session[t]] = p /\ Running(t) THEN "done" ELSE pc[t])
        /\ \A s \in Sessions : process[s] = p => injected'[s] = <<>>
        /\ \A s \in Sessions : process[s] # p => injected'[s] = injected[s] /\ heard'[s] = heard[s]
    BY <1>4 DEF Restart
  <2>2. \A t \in Turns : session[t] \in Sessions
    BY DEF TypeOK
  <2>3. \A t \in Turns : Running(t)' => Running(t) /\ pc'[t] = pc[t] /\ process[session[t]] # p
    BY <2>1 DEF Running
  <2>4. OneAtATime'
    BY <2>1, <2>3 DEF Hints, OneAtATime
  <2>5. \A s \in Sessions : Recorded(s)'
    BY <2>1 DEF Hints, Recorded
  <2>6. \A t \in Turns : Heard(t)'
    BY <2>1, <2>2, <2>3 DEF Hints, Heard, Running
  <2>7. QED
    BY <2>4, <2>5, <2>6 DEF Hints
<1>5. CASE UNCHANGED vars
  BY <1>5 DEF vars, Hints, OneAtATime, Running, Recorded, Heard
<1>6. QED
  BY <1>1, <1>2, <1>3, <1>4, <1>5, NextIs

-----------------------------------------------------------------------------
(***************************************************************************)
(* Rewrites                                                                *)
(***************************************************************************)

\* What a tool call is about to write is what it read, changed as asked.
Drafted(t) ==
  pc[t] \in Drafting =>
    ToSet(draft[t].file) = (ToSet(draft[t].read) \cup draft[t].add) \ draft[t].del

\* A write under way is the only one, and had read what was acknowledged.
Alone(t) ==
  pc[t] = "writing" =>
    /\ prefs = <<>> /\ ToSet(draft[t].read) = kept
    /\ \A u \in Turns \ {t} : pc[u] # "writing"

Rewrites ==
  KeptUnlessTorn /\ \A t \in Turns : Drafted(t) /\ (torn \/ Alone(t))

LEMMA InitRewrites == Init => Rewrites
BY DEF Init, Rewrites, KeptUnlessTorn, Drafted, Alone, Drafting, ToSet

LEMMA StepRewrites == TypeOK /\ Rewrites /\ [Next]_vars => Rewrites'
<1> SUFFICES ASSUME TypeOK, Rewrites, [Next]_vars PROVE Rewrites'
  OBVIOUS
<1> USE DEF turnVars, cacheVars, histVars, Goto, Fault, Drafting
<1>1. ASSUME NEW t \in Turns, Turn(t), ~ReadPreferences(t), ~Truncate(t), ~Write(t)
      PROVE  Rewrites'
  <2>1. /\ UNCHANGED <<prefs, draft, kept, torn>>
        /\ pc[t] \notin Drafting /\ pc'[t] \notin Drafting
    BY <1>1 DEF Turn, Begin, Lookup, LookupFails, Answer, Fail, Scope, Ask, Load, Remember, TypeOK
  <2>2. \A u \in Turns \ {t} : pc'[u] = pc[u]
    BY <1>1, TurnOnly DEF Work
  <2>3. QED
    BY <2>1, <2>2 DEF Rewrites, KeptUnlessTorn, Drafted, Alone
<1>2. ASSUME NEW t \in Turns, ReadPreferences(t)
      PROVE  Rewrites'
  <2>1. /\ UNCHANGED <<prefs, kept, torn>>
        /\ pc[t] = "replying" /\ pc'[t] = "rewriting"
    BY <1>2 DEF ReadPreferences, TypeOK
  <2>2. \A u \in Turns \ {t} : pc'[u] = pc[u] /\ draft'[u] = draft[u]
    BY <1>2, TurnOnly DEF Turn, Work
  <2>3. ToSet(draft'[t].file) = (ToSet(draft'[t].read) \cup draft'[t].add) \ draft'[t].del
    <3>1. CASE \E p \in Preferences \ ToSet(prefs) :
                 draft' = [draft EXCEPT ![t] = [read |-> prefs, file |-> Appended(prefs, p),
                                                add |-> {p}, del |-> {}]]
      <4>1. PICK p \in Preferences \ ToSet(prefs) :
              draft'[t] = [read |-> prefs, file |-> Appended(prefs, p), add |-> {p}, del |-> {}]
        BY <3>1 DEF TypeOK
      <4>2. ToSet(Appended(prefs, p)) = ToSet(prefs) \cup {p}
        BY AppendedMembers DEF Appended, TypeOK
      <4>3. QED
        BY <4>1, <4>2
    <3>2. CASE \E s \in Statements : \E file \in Without(prefs, s) :
                 draft' = [draft EXCEPT ![t] = [read |-> prefs, file |-> file, add |-> {},
                                                del |-> {p \in Preferences : p[2] = s}]]
      <4>1. PICK s \in Statements : \E file \in Without(prefs, s) :
              draft'[t] = [read |-> prefs, file |-> file, add |-> {},
                           del |-> {p \in Preferences : p[2] = s}]
        BY <3>2, ZenonT(30) DEF TypeOK
      <4>2. PICK file \in Without(prefs, s) :
              draft'[t] = [read |-> prefs, file |-> file, add |-> {},
                           del |-> {p \in Preferences : p[2] = s}]
        BY <4>1
      <4>3. ToSet(file) = ToSet(prefs) \cap {p \in Preferences : p[2] # s}
        BY PickedMembers DEF Without
      <4>4. ToSet(prefs) \subseteq Preferences
        BY MembersOf DEF TypeOK
      <4>5. QED
        BY <4>2, <4>3, <4>4
    <3>3. QED
      BY <1>2, <3>1, <3>2 DEF ReadPreferences
  <2>4. QED
    BY <2>1, <2>2, <2>3 DEF Rewrites, KeptUnlessTorn, Drafted, Alone
<1>3. ASSUME NEW t \in Turns, Truncate(t)
      PROVE  Rewrites'
  <2>1. /\ pc[t] = "rewriting" /\ pc'[t] = "writing" /\ prefs' = <<>>
        /\ torn' = (torn \/ prefs # draft[t].read \/ \E u \in Turns : pc[u] = "writing")
        /\ UNCHANGED <<draft, kept>>
    BY <1>3 DEF Truncate, TypeOK
  <2>2. \A u \in Turns \ {t} : pc'[u] = pc[u]
    BY <1>3, TurnOnly DEF Turn, Work
  <2>3. torn' \/ ToSet(draft[t].read) = kept
    BY <2>1 DEF Rewrites, KeptUnlessTorn
  <2>4. \A u \in Turns : torn' \/ Alone(u)'
    BY <2>1, <2>2, <2>3 DEF Alone
  <2>5. QED
    BY <2>1, <2>2, <2>4 DEF Rewrites, KeptUnlessTorn, Drafted
<1>4. ASSUME NEW t \in Turns, Write(t)
      PROVE  Rewrites'
  <2>1. /\ pc[t] = "writing" /\ pc'[t] = "replying"
        /\ prefs' \in {draft[t].file} \cup (IF prefs = <<>> THEN {} ELSE {<<>>})
        /\ torn' = torn
        /\ kept' = (kept \cup draft[t].add) \ draft[t].del
    BY <1>4 DEF Write, TypeOK
  <2>2. \A u \in Turns \ {t} : pc'[u] = pc[u] /\ draft'[u] = draft[u]
    BY <1>4, TurnOnly DEF Turn, Work
  <2>3. Drafted(t) /\ (torn \/ Alone(t))
    BY DEF Rewrites
  <2>4. torn \/ ToSet(prefs') = kept'
    BY <2>1, <2>3 DEF Drafted, Alone
  <2>5. \A u \in Turns : torn \/ pc'[u] # "writing"
    BY <2>1, <2>2, <2>3 DEF Alone
  <2>6. QED
    BY <2>1, <2>2, <2>4, <2>5 DEF Rewrites, KeptUnlessTorn, Drafted, Alone
<1>5. ASSUME NEW s \in Sessions, Compress(s) \/ LoseContext(s)
      PROVE  Rewrites'
  BY <1>5 DEF Compress, LoseContext, Rewrites, KeptUnlessTorn, Drafted, Alone
<1>8. ASSUME NEW p \in Processes, Restart(p)
      PROVE  Rewrites'
  <2> DEFINE Cut == \E t \in Turns : process[session[t]] = p /\ pc[t] = "writing"
  <2>1. UNCHANGED <<prefs, torn>> /\ kept' = (IF Cut THEN ToSet(prefs) ELSE kept)
    BY <1>8 DEF Restart
  <2>2. \A t \in Turns :
          pc'[t] \in Drafting => pc[t] = pc'[t] /\ draft'[t] = draft[t] /\ process[session[t]] # p
    BY <1>8 DEF Restart, Running
  <2>3. \A t \in Turns : Drafted(t)'
    BY <2>2 DEF Rewrites, Drafted
  <2>4. CASE torn
    BY <2>1, <2>3, <2>4 DEF Rewrites, KeptUnlessTorn
  <2>5. CASE ~torn /\ Cut
    <3>1. \A t \in Turns : pc'[t] # "writing"
      <4>1. PICK u \in Turns : process[session[u]] = p /\ pc[u] = "writing"
        BY <2>5
      <4>2. \A t \in Turns \ {u} : pc[t] # "writing"
        BY <2>5, <4>1 DEF Rewrites, Alone
      <4>3. QED
        BY <2>2, <4>1, <4>2
    <3>2. QED
      BY <2>1, <2>3, <2>5, <3>1 DEF Rewrites, KeptUnlessTorn, Alone
  <2>6. CASE ~torn /\ ~Cut
    <3>1. \A t \in Turns : pc[t] = "writing" => pc'[t] = "writing"
      BY <1>8, <2>6 DEF Restart
    <3>2. \A t \in Turns : Alone(t)'
      BY <2>1, <2>2, <2>6 DEF Rewrites, Alone
    <3>3. QED
      BY <2>1, <2>3, <2>6, <3>1, <3>2 DEF Rewrites, KeptUnlessTorn
  <2>7. QED
    BY <2>4, <2>5, <2>6
<1>6. CASE UNCHANGED vars
  BY <1>6 DEF vars, Rewrites, KeptUnlessTorn, Drafted, Alone
<1>7. QED
  BY <1>1, <1>2, <1>3, <1>4, <1>5, <1>6, <1>8, NextIs

-----------------------------------------------------------------------------
(***************************************************************************)
(* The theorems                                                            *)
(***************************************************************************)
IInv == TypeOK /\ Replies /\ Hints /\ Rewrites

\* The invariant holds throughout handle_intent and the two tools' rewrites.
THEOREM Inductive == Spec => []IInv
<1>1. Init => IInv
  BY InitTypes, InitReplies, InitHints, InitRewrites DEF IInv
<1>2. IInv /\ [Next]_vars => IInv'
  BY StepTypes, StepReplies, StepHints, StepRewrites DEF IInv
<1>3. QED
  BY <1>1, <1>2, PTL DEF Spec

\* The state keeps its type.
THEOREM TypeCorrect == Spec => []TypeOK
<1>1. IInv => TypeOK
  BY DEF IInv
<1>2. QED
  BY <1>1, Inductive, PTL

\* SemanticCache.lookup and remember: a reply reused from the cache was made
\* under the preferences the turn has read, whatever changes or fails between
\* a turn's two readings of its scope.
THEOREM ReusedRepliesAreCurrent == Spec => []HitsAreCurrent
<1>1. IInv => HitsAreCurrent
  BY DEF IInv, Replies, Reused, Good, HitsAreCurrent
<1>2. QED
  BY <1>1, Inductive, PTL

\* _build_inputs: the dialogue of a turn holds every dislike the turn has read,
\* unless its context was compressed or lost.
THEOREM NoDislikeIsLost == Spec => []DislikesAreHeard
<1>1. IInv => DislikesAreHeard
  BY DEF IInv, Hints, Heard, Dislikes, DislikesAreHeard
<1>2. QED
  BY <1>1, Inductive, PTL

\* JsonFilePreferenceStore: whenever no write is under way, and until a process
\* rewrites the file over another one's changes, it holds what the appends and
\* deletions leave that were acknowledged, since a kill last cut a write short:
\* that empties it.
THEOREM AcknowledgedChangesLast == Spec => []KeptUnlessTorn
<1>1. IInv => KeptUnlessTorn
  BY DEF IInv, Rewrites
<1>2. QED
  BY <1>1, Inductive, PTL
=============================================================================
