------------------------------ MODULE Settings ------------------------------
(***************************************************************************)
(* settings/: every change of a setting or credential at run time, from    *)
(* the web UI (sdui/actions.py) and from the agent's tools, goes through   *)
(* SettingsService: persist, audit, reload the live copy, under a lock per *)
(* key.  What the agent asks for on a guarded key waits in                 *)
(* PendingApprovalQueue until a user approves it.                          *)
(*                                                                         *)
(* Writers are the tasks of the event loop that call the service; a task   *)
(* is interrupted only where the code awaits, so each action is what it    *)
(* does between two awaits.  A list or dict setting is a sequence of       *)
(* entries, a credential at most one; an entry has the name it is found by *)
(* and the number of the request that wrote it, which stands for its       *)
(* content.                                                                *)
(***************************************************************************)
EXTENDS Integers, Sequences, FiniteSets

CONSTANTS
  Writers,        \* tasks that call the service
  Lists,          \* list-shaped keys
  Unique,         \* those whose validation rejects a name that is there twice:
                  \* mcp_servers, skill_markets
  Dicts,          \* dict-shaped keys
  Merging,        \* those whose reloader keeps a field the new value has not:
                  \* llm, safety_permissions, monitoring_config, loop_protector
  Ignored,        \* keys whose reloader does nothing: tool_security,
                  \* scheduler_cron, webhook_endpoints
  Secrets,        \* keys of the credential vault
  Guarded,        \* _ADMIN_ONLY_KEYS; credentials are guarded anyway
  Names,          \* names of entries
  Sticky,         \* the fields a Merging reloader keeps (admin_users, not
                  \* user_permissions)
  Asks,           \* what may be asked for: operation, key, name, by the agent?
  AuditMax,       \* ActionHandler._AUDIT_MAX
  MaxRequests,    \* bound: requests made
  MaxFaults       \* bound: cancelled requests, failed statements and reloads

Keys == Lists \cup Dicts \cup Secrets

Ops == {"set", "append", "update", "delete", "merge"}

ASSUME SettingsAssumption ==
  /\ Guarded \subseteq Keys
  /\ Unique \subseteq Lists /\ Merging \subseteq Dicts
  /\ Ignored \subseteq Lists \cup Dicts /\ Sticky \subseteq Names
  /\ Asks \subseteq [op : Ops, key : Keys, name : Names, agent : BOOLEAN]
  /\ AuditMax \in Nat \ {0} /\ MaxRequests \in Nat /\ MaxFaults \in Nat

VARIABLES
  store,          \* the settings table and the vault
  live,           \* what the running components use: RuntimeConfigHolder._state,
                  \* SafetyGuard, os.environ for credentials
  audit,          \* sdui_audit_log: numbers of the requests
  lock,           \* per key, the tasks at its asyncio.Lock: the first holds it
  at,             \* where each task is
  req,            \* the request it runs
  val,            \* the value it is going to write
  log,            \* the audit log it has read
  pending,        \* PendingApprovalQueue._entries
  asked,          \* requests made so far
  ran,            \* history: how often each request changed the store
  behind,         \* history: keys whose last reload failed or was cut off
  cut,            \* history: requests whose audit failed or was cut off
  torn,           \* history: has an audit overwritten what it had not read?
  faults          \* what is left of MaxFaults

taskVars == <<at, req, val, log>>
auditVars == <<audit, torn, cut>>
liveVars == <<live, behind>>
askVars == <<pending, asked>>
vars == <<store, liveVars, auditVars, lock, taskVars, askVars, ran, faults>>

Numbers == 1..MaxRequests
Requests == [no : Numbers, op : Ops, key : Keys, name : Names, agent : BOOLEAN]
Request(n, a) == [no |-> n, op |-> a.op, key |-> a.key, name |-> a.name, agent |-> a.agent]
NoRequest == [no |-> 0]
Entries == [name : Names, by : Numbers]

\* What the callers ask: the agent's tools call the service themselves, the UI
\* edits list items, merges dicts and replaces whole values; entries are deleted
\* by the agent only, credentials by both.
Askable(r) ==
  \/ r.key \in Lists /\ r.op \in {"set", "append", "update"}
  \/ r.key \in Lists /\ r.op = "delete" /\ r.agent
  \/ r.key \in Dicts /\ r.op = IF r.agent THEN "set" ELSE "merge"
  \/ r.key \in Secrets /\ r.op \in {"set", "delete"}

RequiresApproval(r) == r.agent /\ r.key \in Guarded \cup Secrets

Init ==
  /\ store = [k \in Keys |-> <<>>] /\ live = store
  /\ audit = <<>> /\ lock = [k \in Keys |-> <<>>]
  /\ at = [w \in Writers |-> "idle"]
  /\ req = [w \in Writers |-> NoRequest]
  /\ val = [w \in Writers |-> <<>>] /\ log = [w \in Writers |-> <<>>]
  /\ pending = {} /\ asked = 0
  /\ ran = [n \in Numbers |-> 0]
  /\ behind = {} /\ cut = {} /\ torn = FALSE
  /\ faults = MaxFaults

-----------------------------------------------------------------------------
(* What a request makes of a value *)

\* The elements of s at the positions P, in order; by the first i of them.
KeptUpTo(s, P) ==
  LET kept[i \in 0..Len(s)] ==
        IF i = 0 THEN <<>>
        ELSE IF i \in P THEN Append(kept[i - 1], s[i]) ELSE kept[i - 1]
  IN  kept

Kept(s, P) == KeptUpTo(s, P)[Len(s)]

Named(v, n) == {i \in DOMAIN v : v[i].name = n}

Entry(r) == [name |-> r.name, by |-> r.no]

\* A dict keeps one entry per field.
Merged(v, r) ==
  IF Named(v, r.name) = {} THEN Append(v, Entry(r))
  ELSE [i \in DOMAIN v |-> IF v[i].name = r.name THEN Entry(r) ELSE v[i]]

\* update_item patches the first match, delete_item removes every match.
Updated(v, r) ==
  [v EXCEPT ![CHOOSE i \in Named(v, r.name) : \A j \in Named(v, r.name) : i <= j] = Entry(r)]

Without(v, n) == Kept(v, {i \in DOMAIN v : v[i].name # n})

Applied(v, r) ==
  CASE r.op = "set"    -> <<Entry(r)>>
    [] r.op = "append" -> Append(v, Entry(r))
    [] r.op = "update" -> Updated(v, r)
    [] r.op = "delete" -> Without(v, r.name)
    [] r.op = "merge"  -> Merged(v, r)

\* What the UI looks at before it calls the service: no list is to get a name
\* it has, an entry to be patched must be there.
Offered(v, r) ==
  /\ r.op = "append" => Named(v, r.name) = {}
  /\ r.op = "update" => Named(v, r.name) # {}

\* Faulty: the duplicate check of the UI is taken for good.
AcceptedUnchecked(v, r) ==
  r.op \in {"update", "delete"} => Named(v, r.name) # {}

\* Under the lock: update_item and delete_item need a match; validate_value
\* rejects a second entry of the same name for the Unique lists only, the
\* others rely on the UI; delete_credential (the agent's) does not mind a
\* missing credential, delete_vault_credential does.
Accepted(v, r) ==
  /\ r.op = "append" /\ r.key \in Unique => Named(v, r.name) = {}
  /\ r.op = "update" => Named(v, r.name) # {}
  /\ r.op = "delete" => Named(v, r.name) # {} \/ (r.key \in Secrets /\ r.agent)

-----------------------------------------------------------------------------
(* Requests *)

Holds(w) == lock[req[w].key] # <<>> /\ Head(lock[req[w].key]) = w

\* async with self._lock(key): the lock is FIFO.
Enter(w, r) ==
  /\ lock' = [lock EXCEPT ![r.key] = Append(@, w)]
  /\ at' = [at EXCEPT ![w] = IF r.key \in Secrets /\ r.op = "set" THEN "put" ELSE "get"]
  /\ req' = [req EXCEPT ![w] = r]

\* The request is over; leaving the async with releases the lock.
Leave(w) ==
  /\ lock' = [lock EXCEPT ![req[w].key] = Kept(@, {i \in DOMAIN @ : @[i] # w})]
  /\ at' = [at EXCEPT ![w] = "idle"]
  /\ val' = [val EXCEPT ![w] = <<>>]
  /\ log' = [log EXCEPT ![w] = <<>>]
  /\ req' = [req EXCEPT ![w] = NoRequest]

\* A request the rate limiter or the validation refuses changes nothing and is
\* left out; one that needs approval is only put aside.  The UI's item edits
\* and merges first read the setting, outside the lock.
Ask(w, r) ==
  /\ at[w] = "idle" /\ asked < MaxRequests /\ Askable(r)
  /\ asked' = asked + 1
  /\ \/ RequiresApproval(r) /\ pending' = pending \cup {r} /\ UNCHANGED <<lock, taskVars>>
     \/ /\ ~RequiresApproval(r) /\ ~r.agent /\ r.op \in {"append", "update", "merge"}
        /\ at' = [at EXCEPT ![w] = "check"] /\ req' = [req EXCEPT ![w] = r]
        /\ UNCHANGED <<lock, val, log, pending>>
     \/ /\ ~RequiresApproval(r) /\ (r.agent \/ r.op \notin {"append", "update", "merge"})
        /\ Enter(w, r) /\ UNCHANGED <<val, log, pending>>
  /\ UNCHANGED <<store, liveVars, auditVars, ran, faults>>

\* Faulty: the entry stays in the queue.
ResolveKeeps(w, r) ==
  /\ at[w] = "idle" /\ r \in pending
  /\ Enter(w, r)
  /\ UNCHANGED <<store, liveVars, auditVars, val, log, askVars, ran, faults>>

\* resolve_approval(): the entry is popped before it runs.
Resolve(w, r) ==
  /\ at[w] = "idle" /\ r \in pending
  /\ pending' = pending \ {r}
  /\ Enter(w, r)
  /\ UNCHANGED <<store, liveVars, auditVars, val, log, asked, ran, faults>>

\* _settings_write, _settings_append, _settings_update_item: an item that is
\* there already, or missing, is refused; a merge is done on what was read.
Checked(w, v) ==
  LET r == req[w]
  IN  /\ at[w] = "check"
      /\ \/ r.op # "merge" /\ ~Offered(v, r) /\ Leave(w)
         \/ r.op # "merge" /\ Offered(v, r) /\ Enter(w, r) /\ UNCHANGED <<val, log>>
         \/ r.op = "merge" /\ Enter(w, r) /\ val' = [val EXCEPT ![w] = v] /\ UNCHANGED log
      /\ UNCHANGED <<store, liveVars, auditVars, askVars, ran>>

Check(w) == at[w] = "check" /\ Checked(w, store[req[w].key]) /\ UNCHANGED faults

\* A read that raises counts as an empty setting: a merge then replaces it.
CheckFails(w) ==
  /\ faults > 0 /\ faults' = faults - 1
  /\ Checked(w, <<>>)

\* Faulty: the value is read before the lock is held.
GetEarly(w) ==
  LET r == req[w]
      v == IF r.op = "merge" THEN val[w] ELSE store[r.key]
  IN  /\ at[w] = "get"
      /\ \/ ~Accepted(v, r) /\ Leave(w)
         \/ /\ Accepted(v, r)
            /\ at' = [at EXCEPT ![w] = "put"]
            /\ val' = [val EXCEPT ![w] = Applied(v, r)]
            /\ UNCHANGED <<req, log, lock>>
      /\ UNCHANGED <<store, liveVars, auditVars, askVars, ran, faults>>

\* Faulty: a refused request keeps the lock.
GetLeaks(w) ==
  LET r == req[w]
      v == IF r.op = "merge" THEN val[w] ELSE store[r.key]
  IN  /\ at[w] = "get" /\ Holds(w)
      /\ \/ /\ ~Accepted(v, r)
            /\ at' = [at EXCEPT ![w] = "idle"] /\ UNCHANGED <<lock, req, val, log>>
         \/ /\ Accepted(v, r)
            /\ at' = [at EXCEPT ![w] = "put"]
            /\ val' = [val EXCEPT ![w] = Applied(v, r)]
            /\ UNCHANGED <<req, log, lock>>
      /\ UNCHANGED <<store, liveVars, auditVars, askVars, ran, faults>>

\* The old value is read (for a merge, it was read before), the new one made.
Get(w) ==
  LET r == req[w]
      v == IF r.op = "merge" THEN val[w] ELSE store[r.key]
  IN  /\ at[w] = "get" /\ Holds(w)
      /\ \/ ~Accepted(v, r) /\ Leave(w)
         \/ /\ Accepted(v, r)
            /\ at' = [at EXCEPT ![w] = "put"]
            /\ val' = [val EXCEPT ![w] = Applied(v, r)]
            /\ UNCHANGED <<req, log, lock>>
      /\ UNCHANGED <<store, liveVars, auditVars, askVars, ran, faults>>

\* set_setting(), vault.store() or vault.delete().
Put(w) ==
  LET r == req[w]
      v == IF r.key \in Secrets /\ r.op = "set" THEN <<Entry(r)>> ELSE val[w]
  IN  /\ at[w] = "put" /\ Holds(w)
      /\ store' = [store EXCEPT ![r.key] = v]
      /\ val' = [val EXCEPT ![w] = v]
      /\ ran' = [ran EXCEPT ![r.no] = @ + 1]
      /\ at' = [at EXCEPT ![w] = "audit"]
      /\ UNCHANGED <<req, log, lock, liveVars, auditVars, askVars, faults>>

\* The statement raises.
PutFails(w) ==
  /\ at[w] = "put" /\ Holds(w)
  /\ faults > 0 /\ faults' = faults - 1
  /\ Leave(w)
  /\ UNCHANGED <<store, liveVars, auditVars, askVars, ran>>

\* _record_audit(): one log for all keys, read and written without a lock.
Audit(w) ==
  /\ at[w] = "audit"
  /\ log' = [log EXCEPT ![w] = audit]
  /\ at' = [at EXCEPT ![w] = "record"]
  /\ UNCHANGED <<store, liveVars, auditVars, lock, req, val, askVars, ran, faults>>

\* A read that raises counts as an empty log.
AuditFails(w) ==
  /\ at[w] = "audit"
  /\ faults > 0 /\ faults' = faults - 1
  /\ log' = [log EXCEPT ![w] = <<>>]
  /\ at' = [at EXCEPT ![w] = "record"]
  /\ UNCHANGED <<store, liveVars, auditVars, lock, req, val, askVars, ran>>

LastOf(s, n) == SubSeq(s, IF Len(s) > n THEN Len(s) - n + 1 ELSE 1, Len(s))

\* Faulty: the cap drops one entry too many.
RecordShort(w) ==
  /\ at[w] = "record"
  /\ audit' = LastOf(Append(log[w], req[w].no), AuditMax - 1)
  /\ torn' = (torn \/ audit # log[w])
  /\ at' = [at EXCEPT ![w] = "reload"]
  /\ UNCHANGED <<store, liveVars, cut, lock, req, val, log, askVars, ran, faults>>

\* The log keeps its last AuditMax entries.
Record(w) ==
  /\ at[w] = "record"
  /\ audit' = LastOf(Append(log[w], req[w].no), AuditMax)
  /\ torn' = (torn \/ audit # log[w])
  /\ at' = [at EXCEPT ![w] = "reload"]
  /\ UNCHANGED <<store, liveVars, cut, lock, req, val, log, askVars, ran, faults>>

\* A failed audit is swallowed.
RecordFails(w) ==
  /\ at[w] = "record"
  /\ faults > 0 /\ faults' = faults - 1
  /\ cut' = cut \cup {req[w].no}
  /\ at' = [at EXCEPT ![w] = "reload"]
  /\ UNCHANGED <<store, liveVars, audit, torn, lock, req, val, log, askVars, ran>>

\* A Merging reloader: the fields of the new value, and of the old one the
\* Sticky fields it does not have.
Overlaid(old, new) ==
  Kept(old, {i \in DOMAIN old : old[i].name \in Sticky /\ Named(new, old[i].name) = {}}) \o new

\* SettingsReloadRegistry.dispatch() calls the reloader of key k with v.  Most
\* replace what is live.  A credential is read from the vault again, and one
\* that was deleted stays in os.environ.
Reloaded(k, v) ==
  IF k \in Ignored THEN live[k]
  ELSE IF k \in Merging THEN Overlaid(live[k], v)
  ELSE IF k \notin Secrets THEN v
  ELSE IF store[k] = <<>> THEN live[k] ELSE store[k]

\* Faulty: the lock is given back before the reload.
ReloadUnlocked(w) ==
  LET k == req[w].key
  IN  \/ /\ at[w] = "reload" /\ Holds(w)
         /\ lock' = [lock EXCEPT ![k] = Tail(@)]
         /\ UNCHANGED <<store, liveVars, auditVars, taskVars, askVars, ran, faults>>
      \/ /\ at[w] = "reload" /\ ~Holds(w)
         /\ live' = [live EXCEPT ![k] = Reloaded(k, val[w])]
         /\ behind' = behind \ {k}
         /\ Leave(w)
         /\ UNCHANGED <<store, auditVars, askVars, ran, faults>>

\* The live copy is reloaded and the lock released; SETTINGS_CHANGED has no
\* listener.
Reload(w) ==
  LET k == req[w].key
  IN  /\ at[w] = "reload"
      /\ live' = [live EXCEPT ![k] = Reloaded(k, val[w])]
      /\ behind' = behind \ {k}
      /\ Leave(w)
      /\ UNCHANGED <<store, auditVars, askVars, ran, faults>>

\* A reloader raises: reported, the live copy stays.
ReloadFails(w) ==
  /\ at[w] = "reload"
  /\ faults > 0 /\ faults' = faults - 1
  /\ behind' = behind \cup {req[w].key}
  /\ Leave(w)
  /\ UNCHANGED <<store, live, auditVars, askVars, ran>>

\* The request is cancelled where it awaits (a tool call that takes too long).
Cancel(w) ==
  /\ at[w] # "idle"
  /\ faults > 0 /\ faults' = faults - 1
  /\ behind' = IF at[w] \in {"audit", "record", "reload"} THEN behind \cup {req[w].key} ELSE behind
  /\ cut' = IF at[w] \in {"audit", "record"} THEN cut \cup {req[w].no} ELSE cut
  /\ Leave(w)
  /\ UNCHANGED <<store, live, audit, torn, askVars, ran>>

Proceed(w) == Check(w) \/ Get(w) \/ Put(w) \/ Audit(w) \/ Record(w) \/ Reload(w)

Fail(w) ==
  \/ CheckFails(w) \/ PutFails(w) \/ AuditFails(w) \/ RecordFails(w)
  \/ ReloadFails(w) \/ Cancel(w)

Next ==
  \E w \in Writers :
    \/ \E a \in Asks : Ask(w, Request(asked + 1, a))
    \/ \E r \in pending : Resolve(w, r)
    \/ Proceed(w) \/ Fail(w)

\* The event loop runs every task that can go on; nobody need ask or approve.
Fairness == \A w \in Writers : WF_vars(Proceed(w))

Spec == Init /\ [][Next]_vars

FairSpec == Spec /\ Fairness

-----------------------------------------------------------------------------
(* Properties *)

Statuses == {"idle", "check", "get", "put", "audit", "record", "reload"}

\* The tables, the queue of approvals, the locks and the tasks keep the types
\* of the code; the audit log keeps to its limit.
TypeOK ==
  /\ store \in [Keys -> Seq(Entries)] /\ live \in [Keys -> Seq(Entries)]
  /\ audit \in Seq(Numbers) /\ Len(audit) <= AuditMax
  /\ lock \in [Keys -> Seq(Writers)]
  /\ at \in [Writers -> Statuses] /\ req \in [Writers -> Requests \cup {NoRequest}]
  /\ val \in [Writers -> Seq(Entries)] /\ log \in [Writers -> Seq(Numbers)]
  /\ pending \subseteq Requests /\ asked \in 0..MaxRequests
  /\ ran \in [Numbers -> Nat]
  /\ behind \subseteq Keys /\ cut \subseteq Numbers /\ torn \in BOOLEAN
  /\ faults \in 0..MaxFaults

\* The task that has changed key k and not yet reloaded it.
Changing(k) == {w \in Writers : at[w] \in {"audit", "record", "reload"} /\ req[w].key = k}

Items(v) == {v[i] : i \in DOMAIN v}

\* The live copy of a Merging key has every stored field, and beyond them only
\* Sticky fields of an earlier value.
Agrees(k) ==
  IF k \in Merging
  THEN /\ Items(store[k]) \subseteq Items(live[k])
       /\ \A e \in Items(live[k]) \ Items(store[k]) :
            e.name \in Sticky /\ Named(store[k], e.name) = {}
  ELSE live[k] = store[k]

\* What runs is what is stored, except while a change is under way or after its
\* reload failed or was cut off.  (A deleted credential and a Sticky field that
\* a new dict leaves out stay in use; an Ignored key waits for a restart.)
LiveFollowsStore ==
  \A k \in Keys \ Ignored :
    \/ Agrees(k)
    \/ k \in Secrets /\ store[k] = <<>>
    \/ Changing(k) # {} \/ k \in behind

\* An operation on one item leaves every other item of the list as it is,
\* whoever changed it in between: the read is under the same lock as the write.
OthersKept ==
  [][\A w \in Writers :
       LET r == req[w]
       IN  (at[w] = "put" /\ at'[w] = "audit" /\ r.op \in {"append", "update", "delete"}) =>
             Without(store'[r.key], r.name) = Without(store[r.key], r.name)]_vars

\* No mcp_servers or skill_markets gets two entries of one name: what the UI
\* looked at before the lock is validated again under it.  (For scheduler_cron
\* and safety_approval it is not, and two appends can store a name twice.)
UniqueNames ==
  \A k \in Unique : \A n \in Names : Cardinality(Named(store[k], n)) <= 1

\* "execute the original intent exactly once": no request changes the store
\* twice, and one that waits for approval has not changed it at all.
ApprovedOnce ==
  /\ \A n \in Numbers : ran[n] <= 1
  /\ \A r \in pending : ran[r.no] = 0

\* A change is missing from the audit log only while it is being audited, if
\* that was cut off, if the log is full, or if two audits overlapped or the log
\* could not be read.
AuditTells ==
  torn \/ Len(audit) = AuditMax \/
    \A n \in Numbers : ran[n] > 0 =>
      \/ n \in cut \/ \E i \in DOMAIN audit : audit[i] = n
      \/ \E w \in Writers : req[w].no = n /\ at[w] \in {"audit", "record"}

\* Every request comes to its end: whoever holds a lock gives it back.
RequestEnds == \A w \in Writers : (at[w] # "idle") ~> (at[w] = "idle")

=============================================================================
