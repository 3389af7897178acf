------------------------------ MODULE Profiles ------------------------------
(***************************************************************************)
(* Accounts of the platform (interfaces/api/routers: admin, auth, identity *)
(* and profile): the rows of user_profile and user_identities in           *)
(* PostgreSQL, one transaction at a time unless a transaction reads before *)
(* it writes, and the language of each user, which the executor keeps in   *)
(* Redis for five minutes (_get_user_language_preference).                 *)
(***************************************************************************)
EXTENDS Integers, FiniteSets

CONSTANTS
  Users,       \* emails
  FirstAdmin,  \* the administrator the platform starts with
  Numbers,     \* values of identities
  Kinds,       \* their types: "whatsapp", and any other an administrator writes
  Languages,   \* "es", "en"; "" stands for the choice of none, or for no choice
  Requests,    \* requests served at a time
  Nobody,
  TTL,         \* of a cached language, in ticks
  MaxRequests, MaxFaults   \* bounds of the model

VARIABLES
  rows,     \* user_profile, by user
  numbers,  \* user_identities: type, value and canonical user
  tokens,   \* users who hold a JWT; it has no expiry
  cache,    \* user_lang_pref, Absent when there is no entry
  ttl,      \* its time to live
  pc,       \* what each request is about to do
  started, faults,
  \* history
  overtaken,  \* requests whose user's language was written after they read it
  reason      \* users whose entry in the cache may be out of date for a known reason

database == <<rows, numbers, tokens>>
vars == <<database, cache, ttl, pc, started, faults, overtaken, reason>>

Absent == "absent"
Chosen == Languages \cup {""}
Keep == "keep"          \* a body of update_profile without preferences
Without == "without"    \* one whose preferences name no language

Row == [role : {"user", "admin"}, status : {"active", "disabled"}, language : Chosen]

Idle == [at |-> "idle", user |-> Nobody, arg |-> Keep, seen |-> Absent]

TypeOK ==
  /\ DOMAIN rows \subseteq Users
  /\ \A u \in DOMAIN rows : rows[u] \in Row
  /\ numbers \subseteq Kinds \X Numbers \X Users
  /\ tokens \subseteq Users
  /\ cache \in [Users -> Chosen \cup {Absent}]
  /\ ttl \in [Users -> 0..TTL]
  /\ pc \in [Requests -> [at : {"idle", "admitted", "update", "invalidate", "query", "store"},
                          user : Users \cup {Nobody},
                          arg : Chosen \cup {Keep, Without},
                          seen : Chosen \cup {Absent}]]
  /\ overtaken \subseteq Requests
  /\ reason \subseteq Users

Init ==
  /\ rows = [u \in {FirstAdmin} |-> [role |-> "admin", status |-> "active", language |-> ""]]
  /\ numbers = {}
  /\ tokens = {FirstAdmin}
  /\ cache = [u \in Users |-> Absent]
  /\ ttl = [u \in Users |-> 0]
  /\ pc = [r \in Requests |-> Idle]
  /\ started = 0
  /\ faults = 0
  /\ overtaken = {}
  /\ reason = {}

-----------------------------------------------------------------------------
Exists(u) == u \in DOMAIN rows

Active(u) == Exists(u) /\ rows[u].status = "active"

Language(u) == IF Exists(u) THEN rows[u].language ELSE ""

\* What a profile has that _get_or_create_profile or set_language inserts.
NewRow(language) == [role |-> "user", status |-> "active", language |-> language]

WithRow(u, row) == [v \in DOMAIN rows \cup {u} |-> IF v = u THEN row ELSE rows[v]]

WithoutRow(u) == [v \in DOMAIN rows \ {u} |-> rows[v]]

\* The accounts check_access may answer with for the value v of an identity, of
\* which it takes one: by identity among the active, else by email.
CheckAccess(v) ==
  LET byNumber == {u \in Users : Active(u) /\ \E k \in Kinds : <<k, v, u>> \in numbers} IN
  IF byNumber # {} THEN byNumber ELSE {u \in {v} \cap Users : Active(u)}

Free(r) == pc[r] = Idle /\ started < MaxRequests

Go(r, label) == pc' = [pc EXCEPT ![r].at = label]

Enter(r, at, u, arg, seen) ==
  /\ pc' = [pc EXCEPT ![r] = [at |-> at, user |-> u, arg |-> arg, seen |-> seen]]
  /\ started' = started + 1

Return(r) == pc' = [pc EXCEPT ![r] = Idle]

\* The language of u is written: whoever has read it has an old one.
Overtake(u, r) ==
  overtaken' = (overtaken \cup {q \in Requests : pc[q].user = u}) \ {r}

-----------------------------------------------------------------------------
\* auth_callback: a JWT for an active account.
Login(u) ==
  /\ u \notin tokens
  /\ Active(u)
  /\ tokens' = tokens \cup {u}
  /\ UNCHANGED <<rows, numbers, cache, ttl, pc, started, faults, overtaken, reason>>

\* get_profile: the profile is created when it is not there.
GetProfile(u) ==
  /\ u \in tokens
  /\ ~Exists(u)
  /\ rows' = WithRow(u, NewRow(""))
  /\ UNCHANGED <<numbers, tokens, cache, ttl, pc, started, faults, overtaken, reason>>

\* Mutant: the entry in the cache is left to expire.
SetLanguageOnly(r, u, l) ==
  /\ Free(r)
  /\ u \in tokens
  /\ rows' = WithRow(u, IF Exists(u) THEN [rows[u] EXCEPT !.language = l] ELSE NewRow(l))
  /\ started' = started + 1
  /\ Overtake(u, r)
  /\ UNCHANGED <<numbers, tokens, cache, ttl, pc, faults, reason>>

\* set_language: one upsert; the cache follows.
SetLanguage(r, u, l) ==
  /\ Free(r)
  /\ u \in tokens
  /\ rows' = WithRow(u, IF Exists(u) THEN [rows[u] EXCEPT !.language = l] ELSE NewRow(l))
  /\ Enter(r, "invalidate", u, l, Absent)
  /\ Overtake(u, r)
  /\ UNCHANGED <<numbers, tokens, cache, ttl, faults, reason>>

\* update_profile: the profile is read; it is inserted at the end of the same
\* transaction when it is not there.
ReadProfile(r, u, arg) ==
  /\ Free(r)
  /\ u \in tokens
  /\ Enter(r, "update", u, arg, IF Exists(u) THEN rows[u].language ELSE Absent)
  /\ overtaken' = overtaken \ {r}
  /\ UNCHANGED <<database, cache, ttl, faults, reason>>

\* What update_profile writes: preferences are replaced as a whole.
Preferences(r) ==
  CASE pc[r].arg = Keep -> IF pc[r].seen = Absent THEN "" ELSE pc[r].seen
    [] pc[r].arg = Without -> ""
    [] OTHER -> pc[r].arg

\* Mutant: a body without preferences counts as empty preferences.
WriteEmpty(r) ==
  LET u == pc[r].user
      language == IF pc[r].arg \in {Keep, Without} THEN "" ELSE pc[r].arg IN
  /\ pc[r].at = "update"
  /\ rows' = IF Exists(u) THEN [rows EXCEPT ![u].language = language]
             ELSE IF pc[r].seen = Absent THEN WithRow(u, NewRow(language)) ELSE rows
  /\ IF pc[r].arg \in Chosen THEN Go(r, "invalidate") ELSE Return(r)
  /\ Overtake(u, r)
  /\ UNCHANGED <<numbers, tokens, cache, ttl, started, faults, reason>>

\* update_profile: UPDATE, of no row when it was deleted meanwhile.  The cache
\* follows when the body names a language.
WriteProfile(r) ==
  LET u == pc[r].user IN
  /\ pc[r].at = "update"
  /\ rows' = IF Exists(u) THEN [rows EXCEPT ![u].language = Preferences(r)]
             ELSE IF pc[r].seen = Absent THEN WithRow(u, NewRow(Preferences(r))) ELSE rows
  /\ IF pc[r].arg \in Chosen THEN Go(r, "invalidate") ELSE Return(r)
  /\ reason' = IF pc[r].arg = Without \/ (pc[r].arg = Keep /\ r \in overtaken)
               THEN reason \cup {u} ELSE reason
  /\ Overtake(u, IF pc[r].arg \in Chosen THEN r ELSE Nobody)
  /\ UNCHANGED <<numbers, tokens, cache, ttl, started, faults>>

\* DEL user_lang_pref, after the transaction.
Invalidate(r) ==
  LET u == pc[r].user IN
  /\ pc[r].at = "invalidate"
  /\ cache' = [cache EXCEPT ![u] = Absent]
  /\ ttl' = [ttl EXCEPT ![u] = 0]
  /\ reason' = reason \ {u}
  /\ Return(r)
  /\ UNCHANGED <<database, started, faults, overtaken>>

-----------------------------------------------------------------------------
\* _get_user_language_preference: GET finds nothing.  (A hit changes nothing,
\* and neither does an answer while Redis does not answer.)
AskLanguage(r, u) ==
  /\ Free(r)
  /\ cache[u] = Absent
  /\ Enter(r, "query", u, Keep, Absent)
  /\ UNCHANGED <<database, cache, ttl, faults, overtaken, reason>>

\* The query, whose failure counts as no preference.
QueryLanguage(r) ==
  /\ pc[r].at = "query"
  /\ \/ /\ pc' = [pc EXCEPT ![r] = [@ EXCEPT !.at = "store", !.seen = Language(pc[r].user)]]
        /\ overtaken' = overtaken \ {r}
        /\ UNCHANGED faults
     \/ /\ faults < MaxFaults
        /\ faults' = faults + 1
        /\ pc' = [pc EXCEPT ![r] = [@ EXCEPT !.at = "store", !.seen = ""]]
        /\ overtaken' = overtaken \cup {r}
  /\ UNCHANGED <<database, cache, ttl, started, reason>>

\* SETEX, whatever happened since the query.
StoreLanguage(r) ==
  LET u == pc[r].user IN
  /\ pc[r].at = "store"
  /\ cache' = [cache EXCEPT ![u] = pc[r].seen]
  /\ ttl' = [ttl EXCEPT ![u] = TTL]
  /\ reason' = IF r \in overtaken THEN reason \cup {u} ELSE reason \ {u}
  /\ Return(r)
  /\ UNCHANGED <<database, started, faults, overtaken>>

Expire ==
  /\ \E u \in Users : cache[u] # Absent
  /\ ttl' = [u \in Users |-> IF ttl[u] = 0 THEN 0 ELSE ttl[u] - 1]
  /\ cache' = [u \in Users |-> IF ttl'[u] = 0 THEN Absent ELSE cache[u]]
  /\ reason' = {u \in reason : cache'[u] # Absent}
  /\ UNCHANGED <<database, pc, started, faults, overtaken>>

\* A pod dies, or a command raises and its transaction is rolled back.  A
\* failing DEL is not told.
Fails(r) ==
  /\ pc[r] # Idle
  /\ faults < MaxFaults
  /\ faults' = faults + 1
  /\ reason' = IF pc[r].at = "invalidate" THEN reason \cup {pc[r].user} ELSE reason
  /\ Return(r)
  /\ UNCHANGED <<database, cache, ttl, started, overtaken>>

-----------------------------------------------------------------------------
\* require_admin: a transaction of its own, before that of the operation.
Admit(r) ==
  /\ Free(r)
  /\ \E u \in tokens : Exists(u) /\ rows[u].role = "admin"
  /\ Enter(r, "admitted", Nobody, Keep, Absent)
  /\ UNCHANGED <<database, cache, ttl, faults, overtaken, reason>>

Commit(r) ==
  /\ pc[r].at = "admitted"
  /\ Return(r)
  /\ UNCHANGED <<tokens, cache, ttl, started, faults>>

\* Mutant: the number is inserted for every account that asks for it.
LinkedAgain(k, n, u) == numbers \cup {<<k, n, u>>}

\* INSERT INTO user_identities ... ON CONFLICT DO NOTHING: a number stays with
\* the account that has it under that type, and the caller is told "ok".
Linked(k, n, u) ==
  IF \E v \in Users : <<k, n, v>> \in numbers THEN numbers ELSE numbers \cup {<<k, n, u>>}

\* create_user: an account that exists keeps its role.
CreateUser(r, u, role) ==
  /\ Commit(r)
  /\ rows' = IF Exists(u) THEN rows ELSE WithRow(u, [NewRow("") EXCEPT !.role = role])
  /\ \/ numbers' = numbers
     \/ \E n \in Numbers : numbers' = Linked("whatsapp", n, u)
  /\ UNCHANGED <<overtaken, reason>>

\* update_user: role or status.
UpdateUser(r, u) ==
  /\ Commit(r)
  /\ Exists(u)
  /\ \/ \E role \in {"user", "admin"} : rows' = [rows EXCEPT ![u].role = role]
     \/ \E status \in {"active", "disabled"} : rows' = [rows EXCEPT ![u].status = status]
  /\ UNCHANGED <<numbers, overtaken, reason>>

\* delete_user: its identities, then its row, in one transaction (identities
\* added meanwhile go with the row, ON DELETE CASCADE).  Tokens and the cache
\* are left.
DeleteUser(r, u) ==
  /\ Commit(r)
  /\ rows' = WithoutRow(u)
  /\ numbers' = {identity \in numbers : identity[3] # u}
  /\ reason' = reason \cup {u}
  /\ Overtake(u, Nobody)

\* add_identity: the foreign key refuses an account that is not there.
AddIdentity(r, u, k, n) ==
  /\ Commit(r)
  /\ Exists(u)
  /\ numbers' = Linked(k, n, u)
  /\ UNCHANGED <<rows, overtaken, reason>>

\* remove_identity: whatever its type.
RemoveIdentity(r, u, n) ==
  /\ Commit(r)
  /\ numbers' = {identity \in numbers : identity[2] # n \/ identity[3] # u}
  /\ UNCHANGED <<rows, overtaken, reason>>

-----------------------------------------------------------------------------
UserNext(r) ==
  \E u \in Users :
    \/ \E l \in Chosen : SetLanguage(r, u, l)
    \/ \E arg \in Chosen \cup {Keep, Without} : ReadProfile(r, u, arg)
    \/ AskLanguage(r, u)

AdminNext(r) ==
  \E u \in Users :
    \/ \E role \in {"user", "admin"} : CreateUser(r, u, role)
    \/ UpdateUser(r, u)
    \/ DeleteUser(r, u)
    \/ \E n \in Numbers : \/ \E k \in Kinds : AddIdentity(r, u, k, n)
                          \/ RemoveIdentity(r, u, n)

RequestNext(r) ==
  \/ UserNext(r) \/ WriteProfile(r) \/ Invalidate(r)
  \/ QueryLanguage(r) \/ StoreLanguage(r)
  \/ Admit(r) \/ AdminNext(r)
  \/ Fails(r)

Next ==
  \/ \E u \in Users : Login(u) \/ GetProfile(u)
  \/ \E r \in Requests : RequestNext(r)
  \/ Expire

Spec == Init /\ [][Next]_vars

-----------------------------------------------------------------------------
\* A chosen language is lost to nothing but a newer choice, a body that replaces
\* all preferences, or an update of the profile that had read it before it was
\* chosen (update_profile reads and writes without a lock).
LostOnlyWhenOvertaken ==
  [][\A u \in DOMAIN rows \cap DOMAIN rows' :
       rows'[u].language # rows[u].language =>
         \E r \in Requests :
           \/ pc'[r] # pc[r] /\ pc'[r].at = "invalidate" /\ pc'[r].user = u
           \/ /\ pc[r].at = "update" /\ pc'[r] = Idle /\ pc[r].user = u
              /\ pc[r].arg = Without \/ r \in overtaken]_vars

\* Whatever administrators do at the same time, identities belong to accounts
\* that exist, and when check_access can answer a number as two accounts (it
\* takes the first it finds), they have it under different types.
NumbersBelongToAccounts ==
  /\ \A identity \in numbers : Exists(identity[3])
  /\ \A n \in Numbers : \A u, v \in CheckAccess(n) :
       u # v => \E k, l \in Kinds : k # l /\ {<<k, n, u>>, <<l, n, v>>} \subseteq numbers

\* A cached language that is not the one in the profile is there for one of five
\* reasons: the request that is to delete it has not come to it or failed, it was
\* stored by a reader that the choice overtook or whose query failed, preferences
\* were replaced by a body without a language or an old one, or the user was
\* deleted.
StaleHasReason ==
  \A u \in Users :
    cache[u] \notin {Absent, Language(u)} =>
      \/ u \in reason
      \/ \E r \in Requests : pc[r].at = "invalidate" /\ pc[r].user = u
==============================================================================
