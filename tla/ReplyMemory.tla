---------------------------- MODULE ReplyMemory ----------------------------
(***************************************************************************)
(* What the service remembers of one buyer between turns: the long-term    *)
(* preferences (PreferenceStore, here the file store, which reads and      *)
(* rewrites), the hint that carries them into a session's dialogue         *)
(* (_build_inputs, PreferenceSelector, _injected_preferences), and the     *)
(* semantic cache, whose buckets are named by the preferences              *)
(* (_preference_scope).  The SQL store's one-statement changes are the     *)
(* behaviours in which nothing comes between ReadPreferences and Write.    *)
(***************************************************************************)
EXTENDS Naturals, Sequences, FiniteSets, SequencesExt, FiniteSetsExt

CONSTANTS Turns, Sessions, Processes,
          Preferences,   \* <<kind, statement>>, kind "like" or "dislike"
          Questions,     \* classes of questions similar to one another
          Unsafe,        \* those is_cacheable_query refuses
          TopK,          \* preference_top_k
          BucketLimit,   \* _BUCKET_LIMIT
          MaxFaults,     \* bound: failed reads, lost snapshots, restarts
          MaxEdits,      \* bound: changes of the preferences
          None

ASSUME ReplyMemoryAssumption ==
  /\ Preferences \subseteq {"like", "dislike"} \X {p[2] : p \in Preferences}
  /\ IsFiniteSet(Preferences)
  /\ Unsafe \subseteq Questions
  /\ TopK \in Nat \ {0} /\ BucketLimit \in Nat \ {0}
  /\ MaxFaults \in Nat /\ MaxEdits \in Nat
  /\ None \notin Turns

VARIABLES
  pc, session, ask,  \* of each turn
  process,   \* the process that serves each session
  hasHistory,  \* of each turn: the context its agent had
  scope,     \* the preferences a turn has read to name its bucket
  loaded,    \* the bucket a turn has read to append its reply
  reply,     \* the turn whose reply a turn delivers: itself, or the one a hit reuses
  prefs,     \* the preference file, oldest first
  draft,     \* the file as a tool call is about to rewrite it
  bucket,    \* the semantic cache, by scope: sequences of [ask, reply]
  heard,     \* AgentState.context: has anything been said, and the last hint in it
  injected,  \* _injected_preferences
  faults, edits,
  made,      \* history: the preferences a turn built its inputs from
  moved,     \* history: turns during which the preferences changed
  unread,    \* history: turns that could not read the preferences
  cut,       \* history: sessions whose context lost its hint, not their record of it
  kept,      \* history: what the changes acknowledged since a kill last cut a
             \* write short leave of what it left of the preferences
  torn       \* history: a rewrite undid, or crossed, one of another process

turnVars == <<session, ask, process>>
histVars == <<made, moved, unread, cut, kept, torn>>
cacheVars == <<scope, loaded, reply, bucket>>
vars == <<pc, turnVars, hasHistory, cacheVars, prefs, draft, heard, injected, faults, edits, histVars>>

\* The contents of a preference file; the members of s in a set, in their order.
Files == {s \in SeqOf(Preferences, Cardinality(Preferences)) : IsInjective(s)}

InOrder(f, s) ==
  \A i, j \in DOMAIN f : i < j => \E k, l \in DOMAIN s : k < l /\ f[i] = s[k] /\ f[j] = s[l]

Picked(s, set) == {f \in Files : ToSet(f) = ToSet(s) \cap set /\ InOrder(f, s)}

Running(t) == pc[t] \notin {"idle", "done"}

Init ==
  /\ pc = [t \in Turns |-> "idle"]
  /\ session \in [Turns -> Sessions] /\ ask \in [Turns -> Questions]
  /\ process \in [Sessions -> Processes]
  /\ hasHistory = [t \in Turns |-> FALSE]
  /\ scope = [t \in Turns |-> <<>>] /\ loaded = [t \in Turns |-> <<>>]
  /\ reply = [t \in Turns |-> None]
  /\ prefs = <<>> /\ draft = [t \in Turns |-> <<>>]
  /\ bucket = <<>>
  /\ heard = [s \in Sessions |-> [any |-> FALSE, hint |-> <<>>]]
  /\ injected = [s \in Sessions |-> <<>>]
  /\ faults = 0 /\ edits = 0
  /\ made = [t \in Turns |-> <<>>] /\ moved = {} /\ unread = {} /\ cut = {}
  /\ kept = {} /\ torn = FALSE

-----------------------------------------------------------------------------
Goto(t, l) == pc' = [pc EXCEPT ![t] = l]

\* The file store does not suspend between reading and rewriting: the other
\* turns of its process wait.
Awake(t) ==
  \A u \in Turns \ {t} :
    process[session[u]] = process[session[t]] => pc[u] \notin {"rewriting", "writing"}

Fault(t, ok) ==
  IF ok THEN UNCHANGED <<faults, unread>>
  ELSE faults < MaxFaults /\ faults' = faults + 1 /\ unread' = unread \cup {t}

(***************************************************************************)
(* Asking the cache                                                        *)
(***************************************************************************)

\* handle_intent up to its first question to the preference store.
Begin(t) ==
  /\ pc[t] = "idle" /\ Awake(t)
  /\ \A u \in Turns : session[u] = session[t] => ~Running(u)
  /\ hasHistory' = [hasHistory EXCEPT ![t] = heard[session[t]].any]
  /\ Goto(t, "scoping")
  /\ UNCHANGED <<turnVars, cacheVars, prefs, draft, heard, injected, faults, edits, histVars>>

Cacheable(t) == ~hasHistory[t] /\ ask[t] \notin Unsafe

\* _bucket_key.  Defect: one bucket for the buyer.
Bucket_Buyer(t) == <<>>

Bucket(t) == scope[t]

\* _load_entries.
Entries(key) == IF key \in DOMAIN bucket THEN bucket[key] ELSE <<>>

\* _preference_scope: all the preferences; what cannot be read counts as none.
Scope(t, ok) ==
  /\ pc[t] \in {"scoping", "answered"} /\ Awake(t) /\ Fault(t, ok)
  /\ scope' = [scope EXCEPT ![t] = IF ok THEN prefs ELSE <<>>]
  /\ Goto(t, IF pc[t] = "scoping" THEN IF Cacheable(t) THEN "lookup" ELSE "asking"
             ELSE IF Cacheable(t) THEN "embedding" ELSE "done")
  /\ UNCHANGED <<turnVars, hasHistory, loaded, reply, bucket, prefs, draft, heard, injected,
                 edits, made, moved, cut, kept, torn>>

\* lookup.  The most similar entry: any of those in the question's class.
Lookup(t) ==
  /\ pc[t] = "lookup" /\ Awake(t)
  /\ LET entries == Entries(Bucket(t))
         hits == {i \in DOMAIN entries : entries[i].ask = ask[t]}
     IN IF hits = {} THEN Goto(t, "asking") /\ UNCHANGED reply
        ELSE /\ Goto(t, "done")
             /\ \E i \in hits : reply' = [reply EXCEPT ![t] = entries[i].reply]
  /\ UNCHANGED <<turnVars, hasHistory, scope, loaded, bucket, prefs, draft, heard, injected,
                 faults, edits, histVars>>

\* No vector, or no Redis: a miss.
LookupFails(t) ==
  /\ pc[t] = "lookup" /\ Awake(t) /\ faults < MaxFaults /\ faults' = faults + 1
  /\ Goto(t, "asking")
  /\ UNCHANGED <<turnVars, hasHistory, cacheVars, prefs, draft, heard, injected, edits, histVars>>

(***************************************************************************)
(* The hint                                                                *)
(***************************************************************************)

OfKind(kind) == {p \in Preferences : p[1] = kind}

\* The likes there is room for: the newest, or any when relevance ranks them.
Likes(read) ==
  LET likes == ToSet(read) \cap OfKind("like")
  IN UNION {Picked(read, set) : set \in kSubset(Min({TopK, Cardinality(likes)}), likes)}

\* select.  Defect: the dislikes compete for the places too.
Selections_Ranked(read) == {SubSeq(read, 1, Min({TopK, Len(read)}))}

Selections(read) ==
  {dislikes \o likes : dislikes \in Picked(read, OfKind("dislike")), likes \in Likes(read)}

\* The hint in force for a session is sent again only when it changes.
Sent(s, hint) == injected[s] = hint

\* _build_inputs, and the start of the reply, which puts them in the context.
Ask(t, ok) ==
  LET s == session[t]
      read == IF ok THEN prefs ELSE <<>>
  IN /\ pc[t] = "asking" /\ Awake(t) /\ Fault(t, ok)
     /\ made' = [made EXCEPT ![t] = read]
     /\ \E hint \in Selections(read) :
          IF hint = <<>> \/ Sent(s, hint)
          THEN heard' = [heard EXCEPT ![s].any = TRUE] /\ UNCHANGED <<injected, cut>>
          ELSE /\ heard' = [heard EXCEPT ![s] = [any |-> TRUE, hint |-> hint]]
               /\ injected' = [injected EXCEPT ![s] = hint]
               /\ cut' = cut \ {s}
     /\ Goto(t, "replying")
     /\ UNCHANGED <<turnVars, hasHistory, cacheVars, prefs, draft, edits, moved, kept, torn>>

-----------------------------------------------------------------------------
(***************************************************************************)
(* The tools of the memory                                                 *)
(***************************************************************************)
Statements == {p[2] : p \in Preferences}

\* append, and delete: both kinds of a statement go.
Appended(read, p) == IF p \in ToSet(read) THEN read ELSE Append(read, p)

\* Defect: the dislike of a statement is left.
Without_Likes(read, s) == Picked(read, Preferences \ {<<"like", s>>})

Without(read, s) == Picked(read, {p \in Preferences : p[2] # s})

\* The store has answered: what was asked is acknowledged when it is written.
ReadPreferences(t) ==
  /\ pc[t] = "replying" /\ Awake(t) /\ edits < MaxEdits
  /\ \/ \E p \in Preferences \ ToSet(prefs) :
          draft' = [draft EXCEPT ![t] = [read |-> prefs, file |-> Appended(prefs, p), add |-> {p}, del |-> {}]]
     \/ \E s \in Statements : \E file \in Without(prefs, s) :
          /\ \E p \in ToSet(prefs) : p[2] = s
          /\ draft' = [draft EXCEPT ![t] =
               [read |-> prefs, file |-> file, add |-> {}, del |-> {p \in Preferences : p[2] = s}]]
  /\ edits' = edits + 1
  /\ Goto(t, "rewriting")
  /\ UNCHANGED <<turnVars, hasHistory, cacheVars, prefs, heard, injected, faults, histVars>>

\* History: the turns under way when the file changes.
Changed == moved' = moved \cup {u \in Turns : Running(u)}

\* _write: write_text empties the file first.  Whoever reads it now, or after
\* the process is killed here, finds no JSON in it and takes it for no
\* preferences.
Truncate(t) ==
  /\ pc[t] = "rewriting"
  /\ prefs' = <<>>
  /\ torn' = (torn \/ prefs # draft[t].read \/ \E u \in Turns : pc[u] = "writing")
  /\ Changed
  /\ Goto(t, "writing")
  /\ UNCHANGED <<turnVars, hasHistory, cacheVars, draft, heard, injected, faults, edits,
                 made, unread, cut, kept>>

\* Then it writes it, over what another process has written in it since: the
\* end of that may be left behind, and the file is no JSON.
Write(t) ==
  /\ pc[t] = "writing"
  /\ prefs' \in {draft[t].file} \cup (IF prefs = <<>> THEN {} ELSE {<<>>})
  /\ kept' = (kept \cup draft[t].add) \ draft[t].del
  /\ Changed
  /\ draft' = [draft EXCEPT ![t] = <<>>]
  /\ Goto(t, "replying")
  /\ UNCHANGED <<turnVars, hasHistory, cacheVars, heard, injected, faults, edits,
                 made, unread, cut, torn>>

-----------------------------------------------------------------------------
(***************************************************************************)
(* Remembering the reply                                                   *)
(***************************************************************************)
Answer(t) ==
  /\ pc[t] = "replying" /\ Awake(t)
  /\ reply' = [reply EXCEPT ![t] = t]
  /\ Goto(t, "answered")
  /\ UNCHANGED <<turnVars, hasHistory, scope, loaded, bucket, prefs, draft, heard, injected,
                 faults, edits, histVars>>

\* An error is answered and never remembered; nor is a reply without a vector.
Fail(t) ==
  /\ pc[t] \in {"replying", "embedding"} /\ Awake(t) /\ faults < MaxFaults /\ faults' = faults + 1
  /\ Goto(t, "done")
  /\ UNCHANGED <<turnVars, hasHistory, cacheVars, prefs, draft, heard, injected, edits, histVars>>

\* The question has its vector; a bucket that cannot be read is empty.
Load(t, ok) ==
  /\ pc[t] = "embedding" /\ Awake(t)
  /\ IF ok THEN UNCHANGED faults ELSE faults < MaxFaults /\ faults' = faults + 1
  /\ loaded' = [loaded EXCEPT ![t] = IF ok THEN Entries(Bucket(t)) ELSE <<>>]
  /\ Goto(t, "remembering")
  /\ UNCHANGED <<turnVars, hasHistory, scope, reply, bucket, prefs, draft, heard, injected, edits, histVars>>

Newest(entries) == SubSeq(entries, Len(entries) + 1 - Min({BucketLimit, Len(entries)}), Len(entries))

\* The whole bucket is written back, or the write fails.
Remember(t, ok) ==
  /\ pc[t] = "remembering" /\ Awake(t)
  /\ IF ok THEN /\ bucket' = [key \in DOMAIN bucket \cup {Bucket(t)} |->
                     IF key = Bucket(t)
                     THEN Newest(Append(loaded[t], [ask |-> ask[t], reply |-> reply[t]]))
                     ELSE bucket[key]]
               /\ UNCHANGED faults
     ELSE faults < MaxFaults /\ faults' = faults + 1 /\ UNCHANGED bucket
  /\ loaded' = [loaded EXCEPT ![t] = <<>>]
  /\ Goto(t, "done")
  /\ UNCHANGED <<turnVars, hasHistory, scope, reply, prefs, draft, heard, injected, edits, histVars>>

-----------------------------------------------------------------------------
(***************************************************************************)
(* The dialogue's losses                                                   *)
(***************************************************************************)

\* AgentScope folds the older messages, the hint among them, into a summary.
Compress(s) ==
  /\ heard[s].hint # <<>>
  /\ heard' = [heard EXCEPT ![s].hint = <<>>] /\ cut' = cut \cup {s}
  /\ UNCHANGED <<pc, turnVars, hasHistory, cacheVars, prefs, draft, injected, faults, edits,
                 made, moved, unread, kept, torn>>

\* The session's agent is evicted and its snapshot is lost: _forget_session
\* leaves _injected_preferences as it is.
LoseContext(s) ==
  /\ heard[s].any /\ \A t \in Turns : session[t] = s => ~Running(t)
  /\ faults < MaxFaults /\ faults' = faults + 1
  /\ heard' = [heard EXCEPT ![s] = [any |-> FALSE, hint |-> <<>>]] /\ cut' = cut \cup {s}
  /\ UNCHANGED <<pc, turnVars, hasHistory, cacheVars, prefs, draft, injected, edits,
                 made, moved, unread, kept, torn>>

\* A process starts again: its turns are lost, its sessions come back from
\* the snapshots of the turns before, and every hint is sent anew.  A write cut
\* short leaves the file as it is by then: empty, and its preferences are gone.
Restart(p) ==
  /\ faults < MaxFaults /\ faults' = faults + 1
  /\ pc' = [t \in Turns |-> IF process[session[t]] = p /\ Running(t) THEN "done" ELSE pc[t]]
  /\ draft' = [t \in Turns |-> IF process[session[t]] = p THEN <<>> ELSE draft[t]]
  /\ loaded' = [t \in Turns |-> IF process[session[t]] = p THEN <<>> ELSE loaded[t]]
  /\ injected' = [s \in Sessions |-> IF process[s] = p THEN <<>> ELSE injected[s]]
  /\ heard' = [s \in Sessions |->
       IF process[s] = p /\ \E t \in Turns : session[t] = s /\ Running(t)
       THEN [any |-> \A t \in Turns : session[t] = s /\ Running(t) => hasHistory[t], hint |-> <<>>]
       ELSE heard[s]]
  /\ kept' = IF \E t \in Turns : process[session[t]] = p /\ pc[t] = "writing" THEN ToSet(prefs) ELSE kept
  /\ UNCHANGED <<turnVars, hasHistory, scope, reply, bucket, prefs, edits,
                 made, moved, unread, cut, torn>>

Next ==
  \/ \E t \in Turns :
       \/ Begin(t) \/ Lookup(t) \/ LookupFails(t)
       \/ ReadPreferences(t) \/ Truncate(t) \/ Write(t) \/ Answer(t) \/ Fail(t)
       \/ \E ok \in BOOLEAN : Scope(t, ok) \/ Ask(t, ok) \/ Load(t, ok) \/ Remember(t, ok)
  \/ \E s \in Sessions : Compress(s) \/ LoseContext(s)
  \/ \E p \in Processes : Restart(p)

Spec == Init /\ [][Next]_vars

-----------------------------------------------------------------------------
(***************************************************************************)
(* Properties                                                              *)
(***************************************************************************)

\* A reply reused from the cache was made under the preferences the turn that
\* reuses it has read (none, when it could not), whatever was added or
\* withdrawn in between, unless they changed while it was being made (its
\* bucket is named after the turn, by a second reading) or the turn it was
\* made in could not read them.
HitsAreCurrent ==
  \A t \in Turns :
    LET u == reply[t]
    IN u \notin {None, t} => made[u] = scope[t] \/ u \in moved \cup unread

\* While a turn is answered, the dialogue holds every dislike of the buyer
\* the turn has read, sent now or on an earlier turn of the session, unless
\* the context was cut after the hint was sent.
DislikesAreHeard ==
  \A t \in Turns :
    pc[t] = "replying" =>
      \/ session[t] \in cut
      \/ {p \in ToSet(made[t]) : p[1] = "dislike"} \subseteq ToSet(heard[session[t]].hint)

\* Whenever no write is under way, the file holds what the acknowledged changes
\* of the preferences leave, whatever was read or failed in between, with two
\* exceptions: once a process has rewritten it over what another wrote since it
\* read, or wrote meanwhile, nothing is promised; and a kill in the middle of a
\* write empties the file, acknowledged changes and all, so that they count
\* from there.
KeptUnlessTorn ==
  torn \/ (\E t \in Turns : pc[t] = "writing") \/ ToSet(prefs) = kept
=============================================================================
