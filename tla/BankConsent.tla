----------------------------- MODULE BankConsent -----------------------------
(***************************************************************************)
(* Consents to read accounts at a bank, the tokens they store and the      *)
(* accounts they own: the exchange of the authorisation code, the readers  *)
(* that refresh an aging token and the revocation                          *)
(* (apps/api/src/services/banks.ts, webhooks.ts), and the worker that      *)
(* refreshes the tokens it listed at the start of its tick                 *)
(* (apps/worker/src/jobs/bank_sync.ts).                                    *)
(*                                                                         *)
(* Everyone reads the stored token in one transaction, asks the provider   *)
(* in none, and stores the answer in another one, whatever is stored by    *)
(* then.  The provider gives a new refresh token with every answer and     *)
(* accepts the last one only.                                              *)
(***************************************************************************)
EXTENDS Naturals, FiniteSets

CONSTANTS
  Consent,   \* of provider 'truelayer' and type 'AIS'
  Account,   \* the accounts the bank lists, by IBAN
  Request,   \* exchangeBankConsent, getBalances and getTransactions
  Worker,    \* the worker that holds the advisory lock 'bank-sync'
  MaxToken,  \* how often the tokens of a consent are renewed
  None

ASSUME TokenAssumption == MaxToken \in Nat \ {0}
ASSUME DisjointAssumption ==
  /\ Worker \notin Request
  /\ None \notin Consent

VARIABLES
  status,   \* bank_consents.status
  stored,   \* bank_consents.enc_tokens: the number of its tokens, 0 for none
  owner,    \* bank_accounts.consent_id
  current,  \* at the provider: the number of the last tokens it gave
  aged,     \* consents whose last access token has a minute or less to live
  at,
  held,     \* the consent and the token a request, or the worker, works with
  listed,   \* what the worker's tick listed and has yet to reach
  lost      \* history: tokens given to a process that died before it stored them

rows == <<status, stored, owner>>
provider == <<current, aged>>
vars == <<rows, provider, at, held, listed, lost>>

Process == Request \cup {Worker}
Token == 0 .. MaxToken
Status == {"pending", "granted", "revoked"}
Nothing == [consent |-> None, token |-> 0]

\* startBankConsent left them pending, with a code verifier and no tokens.
Init ==
  /\ status = [c \in Consent |-> "pending"]
  /\ stored = [c \in Consent |-> 0]
  /\ owner = [a \in Account |-> None]
  /\ current = [c \in Consent |-> 0]
  /\ aged = {}
  /\ at = [p \in Process |-> "idle"]
  /\ held = [p \in Process |-> Nothing]
  /\ listed = [c \in {} |-> 0]
  /\ lost = {}
-----------------------------------------------------------------------------
Goto(p, label) == at' = [at EXCEPT ![p] = label]
Hold(p, c, t) == held' = [held EXCEPT ![p] = [consent |-> c, token |-> t]]

\* A request ends; the worker goes on with its list.
Leave(p) ==
  /\ Goto(p, IF p = Worker THEN "listing" ELSE "done")
  /\ held' = [held EXCEPT ![p] = Nothing]

\* The tokens a process got from the provider and has not stored
InHand(p, c) ==
  /\ at[p] \in {"exchanged", "refreshed"}
  /\ held[p] = [consent |-> c, token |-> current[c]]

\* normalizeTokens: the provider's answer, fresh
Give(p, c) ==
  /\ current' = [current EXCEPT ![c] = @ + 1]
  /\ aged' = aged \ {c}
  /\ Hold(p, c, current[c] + 1)

\* An access token comes within a minute of its end.
Age(c) ==
  /\ c \notin aged
  /\ current[c] \in 1 .. MaxToken - 1
  /\ aged' = aged \cup {c}
  /\ UNCHANGED <<rows, current, at, held, listed, lost>>
-----------------------------------------------------------------------------
(* exchangeBankConsent                                                        *)

\* The provider takes the code and its verifier once.
ExchangeCode(r, c) ==
  /\ at[r] = "idle"
  /\ current[c] = 0
  /\ Give(r, c)
  /\ Goto(r, "exchanged")
  /\ UNCHANGED <<rows, listed, lost>>

GrantConsent(r) ==
  LET c == held[r].consent IN
  /\ at[r] = "exchanged"
  /\ status' = [status EXCEPT ![c] = "granted"]
  /\ stored' = [stored EXCEPT ![c] = held[r].token]
  /\ Goto(r, "granted")
  /\ UNCHANGED <<owner, provider, held, listed, lost>>

\* Mutant: the accounts are stored before the tokens.
SyncAccountsFirst(r) ==
  /\ at[r] \in {"exchanged", "granted"}
  /\ \E found \in SUBSET Account :
       owner' = [a \in Account |->
                   IF a \in found THEN held[r].consent ELSE owner[a]]
  /\ IF at[r] = "granted" THEN Leave(r) ELSE UNCHANGED <<at, held>>
  /\ UNCHANGED <<status, stored, provider, listed, lost>>

\* syncAccounts: an account another consent found before changes its owner.
SyncAccounts(r) ==
  /\ at[r] = "granted"
  /\ \E found \in SUBSET Account :
       owner' = [a \in Account |->
                   IF a \in found THEN held[r].consent ELSE owner[a]]
  /\ Leave(r)
  /\ UNCHANGED <<status, stored, provider, listed, lost>>
-----------------------------------------------------------------------------
(* getValidAccessToken, of the API and of the worker                          *)

\* Whoever finds less than a minute on the token it has read refreshes it.
NeedsRefresh(c, token) == token < current[c] \/ c \in aged

\* getBalances, getTransactions: the account's consent, whatever its status is
ReadToken(r, a) ==
  LET c == owner[a] IN
  /\ at[r] = "idle"
  /\ c # None
  /\ stored[c] # 0
  /\ NeedsRefresh(c, stored[c])
  /\ Hold(r, c, stored[c])
  /\ Goto(r, "refreshing")
  /\ UNCHANGED <<rows, provider, listed, lost>>

\* refreshAccessToken: a token that is no longer the last one is refused.
Refresh(p) ==
  LET c == held[p].consent IN
  /\ at[p] = "refreshing"
  /\ IF held[p].token = current[c]
     THEN Give(p, c) /\ Goto(p, "refreshed")
     ELSE Leave(p) /\ UNCHANGED provider
  /\ UNCHANGED <<rows, listed, lost>>

\* Mutant: the tokens that were read win over the answer's.
StoreReadTokens(p) ==
  /\ at[p] = "refreshed"
  /\ stored' = [stored EXCEPT ![held[p].consent] = held[p].token - 1]
  /\ Leave(p)
  /\ UNCHANGED <<status, owner, provider, listed, lost>>

\* The UPDATE of expires_at and enc_tokens
StoreTokens(p) ==
  /\ at[p] = "refreshed"
  /\ stored' = [stored EXCEPT ![held[p].consent] = held[p].token]
  /\ Leave(p)
  /\ UNCHANGED <<status, owner, provider, listed, lost>>
-----------------------------------------------------------------------------
(* The worker's tick                                                          *)

\* The granted consents, 200 at most, with the tokens they store
BeginTick ==
  /\ at[Worker] = "idle"
  /\ listed' = [c \in {d \in Consent : status[d] = "granted"} |-> stored[c]]
  /\ Goto(Worker, "listing")
  /\ UNCHANGED <<rows, provider, held, lost>>

\* syncConsent: nothing to refresh, or the refresh with the listed token
SyncConsent(c) ==
  /\ at[Worker] = "listing"
  /\ c \in DOMAIN listed
  /\ listed' = [d \in DOMAIN listed \ {c} |-> listed[d]]
  /\ IF listed[c] # 0 /\ NeedsRefresh(c, listed[c])
     THEN Hold(Worker, c, listed[c]) /\ Goto(Worker, "refreshing")
     ELSE UNCHANGED <<at, held>>
  /\ UNCHANGED <<rows, provider, lost>>

\* Mutant: a tick that is through keeps the job lock.
EndTickLocked ==
  /\ at[Worker] = "listing"
  /\ DOMAIN listed = {}
  /\ Goto(Worker, "done")
  /\ UNCHANGED <<rows, provider, held, listed, lost>>

EndTick ==
  /\ at[Worker] = "listing"
  /\ DOMAIN listed = {}
  /\ Goto(Worker, "idle")
  /\ UNCHANGED <<rows, provider, held, listed, lost>>
-----------------------------------------------------------------------------
(* revokeConsent; handleConsentWebhook stores any status the bank tells.     *)

Revoke(c) ==
  /\ status[c] # "revoked"
  /\ status' = [status EXCEPT ![c] = "revoked"]
  /\ UNCHANGED <<stored, owner, provider, at, held, listed, lost>>

Notify(c, told) ==
  /\ status' = [status EXCEPT ![c] = told]
  /\ UNCHANGED <<stored, owner, provider, at, held, listed, lost>>
-----------------------------------------------------------------------------
(* Failures                                                                   *)

\* The provider refuses or does not answer.
FailRefresh(p) ==
  /\ at[p] = "refreshing"
  /\ Leave(p)
  /\ UNCHANGED <<rows, provider, listed, lost>>

\* The process dies, or the database does not take what it would store.
Crash(p) ==
  /\ at[p] \notin {"idle", "done"}
  /\ at' = [at EXCEPT ![p] = IF p = Worker THEN "idle" ELSE "done"]
  /\ held' = [held EXCEPT ![p] = Nothing]
  /\ listed' = IF p = Worker THEN [c \in {} |-> 0] ELSE listed
  /\ lost' = lost \cup {c \in Consent : InHand(p, c)}
  /\ UNCHANGED <<rows, provider>>
-----------------------------------------------------------------------------
Next ==
  \/ \E c \in Consent : 
       \/ Age(c) \/ SyncConsent(c) \/ Revoke(c)
       \/ \E told \in Status : Notify(c, told)
  \/ \E r \in Request :
       \/ \E c \in Consent : ExchangeCode(r, c)
       \/ \E a \in Account : ReadToken(r, a)
       \/ GrantConsent(r) \/ SyncAccounts(r)
  \/ \E p \in Process :
       Refresh(p) \/ StoreTokens(p) \/ FailRefresh(p) \/ Crash(p)
  \/ BeginTick \/ EndTick

Spec == Init /\ [][Next]_vars

\* A handler that has an answer stores it or dies.  The loop ticks again; a tick
\* that fails, or a provider that does not answer, again and again does not keep
\* a consent from ever being reached, nor a token from ever being refreshed.
Fairness ==
  /\ \A p \in Process : WF_vars(StoreTokens(p) \/ Crash(p))
  /\ \A r \in Request : WF_vars(GrantConsent(r) \/ Crash(r))
  /\ WF_vars(BeginTick) /\ WF_vars(EndTick)
  /\ \A c \in Consent :
       /\ SF_vars(SyncConsent(c))
       /\ SF_vars(held[Worker].consent = c /\ Refresh(Worker))

FairSpec == Spec /\ Fairness
-----------------------------------------------------------------------------
TypeOK ==
  /\ status \in [Consent -> Status]
  /\ stored \in [Consent -> Token] /\ current \in [Consent -> Token]
  /\ owner \in [Account -> Consent \cup {None}]
  /\ aged \subseteq Consent /\ lost \subseteq Consent
  /\ at \in [Process -> {"idle", "done", "exchanged", "granted", "refreshing",
                         "refreshed", "listing"}]
  /\ held \in [Process -> [consent : Consent, token : Token] \cup {Nothing}]
  /\ DOMAIN listed \subseteq Consent /\ \A c \in DOMAIN listed : listed[c] \in Token

\* The only refresh token the provider still accepts is stored, or on its way to
\* be: no slow writer ever stores an older one over it, whoever refreshed with
\* whatever they read.  It is lost only with the process that held it.
LastTokenIsKept ==
  \A c \in Consent \ lost :
    \/ stored[c] = current[c]
    \/ \E p \in Process : InHand(p, c)

\* An account is owned by a consent that has tokens: a reader never finds it
\* without, though the exchange that found it may die at any point.
OwnerHasTokens ==
  \A a \in Account : owner[a] # None => stored[owner[a]] # 0

\* The worker renews the tokens of a granted consent, unless they were lost.
AgedIsRenewed ==
  \A c \in Consent :
    c \in aged /\ status[c] = "granted"
      ~> c \notin aged \/ status[c] # "granted" \/ c \in lost
=============================================================================
