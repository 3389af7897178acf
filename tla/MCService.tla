------------------------------ MODULE MCService ------------------------------
(***************************************************************************)
(* What the users of the service have: the chat with its conversations,    *)
(* their documents, their accounts and profiles, and the plan of the day.  *)
(* They meet in nothing that the fate of one rests on: a behaviour is a    *)
(* behaviour of one of them, and the others stay as they start.            *)
(***************************************************************************)
EXTENDS ChatService, FiniteSets

CONSTANTS
  r1, r2,      \* requests
  ana, luis,   \* users
  q1, c1,      \* a question, a conversation
  d1, d2,      \* uploads
  asked, wiped \* a client that asks, one that wipes

VARIABLE part

-----------------------------------------------------------------------------
CONSTANTS Uploads, Queries, Wipes, Names, Containing, RagTTL, SearchTicks

ASSUME DocumentsAssumption == RagTTL \in Nat /\ SearchTicks \in Nat

VARIABLES exists, points, rows, cached, dTTL, job, dPc, found, since, name, old, dFaults,
          told, why, goneFor

documents == <<exists, points, rows, cached, dTTL, job, dPc, found, since, name, old, dFaults,
               told, why, goneFor>>

\* "a.pdf" is a substring of "data.pdf".
MCContaining == [n \in Names |-> IF n = "a.pdf" THEN Names ELSE {n}]

Docs ==
  INSTANCE Documents WITH
    CacheTTL <- RagTTL, cacheTTL <- dTTL, pc <- dPc, faults <- dFaults

-----------------------------------------------------------------------------
CONSTANTS Owners, FirstAdmin, Numbers, Kinds, Languages, Nobody, LanguageTTL, MaxRequests

ASSUME ProfilesAssumption ==
  /\ FirstAdmin \in Owners
  /\ "whatsapp" \in Kinds
  /\ Languages \cap {"", "absent", "keep", "without"} = {}
  /\ Nobody \notin Requests /\ Nobody \notin Owners
  /\ LanguageTTL \in Nat \ {0}

VARIABLES accounts, numbers, tokens, cache, ttl, aPc, started, aFaults, overtaken, reason

profiles == <<accounts, numbers, tokens, cache, ttl, aPc, started, aFaults, overtaken, reason>>

Profile ==
  INSTANCE Profiles WITH
    Users <- Owners, TTL <- LanguageTTL, rows <- accounts, pc <- aPc, faults <- aFaults

-----------------------------------------------------------------------------
CONSTANTS Planned, DayWindow, MaxClaims

ASSUME PlannerAssumption == "nobody" \notin Planned /\ DayWindow \in Nat \ {0}

VARIABLES claimed, pPc, todo, user, summary, credentials, calendar, claims, pFaults,
          briefs, overlap, answered

planner == <<claimed, pPc, todo, user, summary, credentials, calendar, claims, pFaults,
             briefs, overlap, answered>>

Day ==
  INSTANCE DayPlanner WITH
    Users <- Planned, Attempts <- Requests, Window <- DayWindow,
    window <- claimed, pc <- pPc, faults <- pFaults

-----------------------------------------------------------------------------
AllInit ==
  /\ part \in {"chat", "documents", "profiles", "planner"}
  /\ Init /\ Docs!Init /\ Profile!Init /\ Day!Init
  /\ part # "documents" => name = [u \in Uploads |-> CHOOSE n \in Names : TRUE]
  /\ part # "chat" => role = [u \in Users |-> 1]

ChatNext == part = "chat" /\ Next /\ UNCHANGED <<documents, profiles, planner>>

DocumentsNext == part = "documents" /\ Docs!Next /\ UNCHANGED <<vars, profiles, planner>>

ProfilesNext == part = "profiles" /\ Profile!Next /\ UNCHANGED <<vars, documents, planner>>

PlannerNext == part = "planner" /\ Day!Next /\ UNCHANGED <<vars, documents, profiles>>

AllNext ==
  /\ UNCHANGED part
  /\ ChatNext \/ DocumentsNext \/ ProfilesNext \/ PlannerNext

AllSpec == AllInit /\ [][AllNext]_<<part, vars, documents, profiles, planner>>

-----------------------------------------------------------------------------
\* What was reported as indexed is found, unless it was wiped or replaced.
IndexedIsSearchable == Docs!IndexedIsSearchable

\* Texts of documents that are gone are answered from the cache for a time only.
StaleTextExpires == Docs!StaleTextExpires

\* Identities belong to accounts, and a number to several only by its types.
NumbersBelongToAccounts == Profile!NumbersBelongToAccounts

\* A cached language that is out of date has one of five reasons.
StaleHasReason == Profile!StaleHasReason

\* A chosen language is lost only to an update that read the profile before.
LostOnlyWhenOvertaken == Profile!LostOnlyWhenOvertaken

\* Nobody gets two plans in a window that was claimed in order.
BriefedOncePerWindow == Day!BriefedOncePerWindow
=============================================================================
