----------------------------- MODULE Connections -----------------------------
(***************************************************************************)
(* One OAuth connection of the owner: the row of its account, the flows    *)
(* that consent to it, the vault of its secrets and their retirement       *)
(* (src/src/prm/runtime/connections.py).                                   *)
(*                                                                         *)
(* The vault is a directory: what is written or erased there is not part   *)
(* of any transaction. A step is one transaction, or what a process does   *)
(* between two. A refresh is a state: its session holds the row of the     *)
(* account while the token endpoint is asked, until it ends or is lost.    *)
(***************************************************************************)
EXTENDS Naturals

CONSTANTS Processes,
          Flows,           \* consents the owner may begin
          MaxSecret,       \* bound: secrets ever put in the vault
          MaxRevision,     \* bound: revisions of the account
          CommitAnswered   \* the answer to the commit of a callback is not lost

ASSUME ConnectionsAssumption ==
  /\ MaxSecret \in Nat /\ MaxRevision \in Nat \ {0}
  /\ CommitAnswered \in BOOLEAN

VARIABLES account,   \* pa_connections.accounts
          flow,      \* pa_connections.flows
          vault,     \* the secrets in the vault
          retired,   \* the cleanup records of secrets, in pa_runtime
          process,   \* what each process is doing
          made,      \* number of secrets made
          origin,    \* the flow each secret stems from
          revoked,   \* flows begun before a disconnection
          token,     \* the refresh token in each secret, named after the first that held it
          sent,      \* requests made with each refresh token
          kept       \* answers to them that left the token in force

rows == <<account, flow, retired>>
history == <<made, origin, revoked, token, sent, kept>>
vars == <<rows, vault, process, history>>

None == "none"
NoSecret == 0
Secrets == 1..MaxSecret
Idle == [phase |-> "idle", flow |-> None, revision |-> 0,
         secret |-> NoSecret, new |-> NoSecret, guarded |-> FALSE]

Account(status, revision, secret) == [status |-> status, revision |-> revision, secret |-> secret]

Init ==
  /\ account = Account("none", 0, NoSecret)
  /\ flow = [f \in Flows |-> [status |-> "none", expected |-> 0]]
  /\ vault = {}
  /\ retired = [x \in Secrets |-> "none"]
  /\ process = [p \in Processes |-> Idle]
  /\ made = 0
  /\ origin = [x \in Secrets |-> None]
  /\ revoked = {}
  /\ token = [x \in Secrets |-> NoSecret]
  /\ sent = [x \in Secrets |-> 0]
  /\ kept = [x \in Secrets |-> 0]

RowFree == \A p \in Processes : ~process[p].guarded
\* A process starts on a call, goes on with it, and is done.
Start(p, phase, f, revision, secret) ==
  [process EXCEPT ![p] = [phase |-> phase, flow |-> f, revision |-> revision,
                          secret |-> secret, new |-> NoSecret, guarded |-> FALSE]]
Proceed(p, phase, secret, new, guarded) ==
  [process EXCEPT ![p] = [phase |-> phase, flow |-> process[p].flow, revision |-> process[p].revision,
                          secret |-> secret, new |-> new, guarded |-> guarded]]
Goto(p, phase) == Proceed(p, phase, process[p].secret, process[p].new, process[p].guarded)
Back(p) == [process EXCEPT ![p] = Idle]
Consumed(f) == [status |-> "consumed", expected |-> flow[f].expected]

\* A secret is recorded for retirement once; a done record stays done.
Retire(xs) == [x \in Secrets |-> IF x \in xs /\ retired[x] = "none" THEN "queued" ELSE retired[x]]

\* The next secret goes into the vault, with the refresh token it was given.
Put(f, t) ==
  /\ made < MaxSecret
  /\ made' = made + 1
  /\ vault' = vault \cup {made + 1}
  /\ origin' = [origin EXCEPT ![made + 1] = f]
  /\ token' = [token EXCEPT ![made + 1] = t]

-----------------------------------------------------------------------------
(* begin and callback.                                                      *)

Begin(f) ==
  /\ flow[f].status = "none"
  /\ RowFree
  /\ account' = IF account.status = "none"
                THEN Account("awaiting_handshake", 1, NoSecret)
                ELSE account
  /\ flow' = [flow EXCEPT ![f] = [status |-> "open", expected |-> account'.revision]]
  /\ UNCHANGED <<retired, vault, process, history>>

\* The state is used up before the code is exchanged.
Consume(p, f) ==
  /\ process[p].phase = "idle"
  /\ flow[f].status = "open"
  /\ flow' = [flow EXCEPT ![f] = Consumed(f)]
  /\ process' = Start(p, "exchanging", f, 0, NoSecret)
  /\ UNCHANGED <<account, retired, vault, history>>

\* A consent comes with a refresh token of its own.
Exchange(p) ==
  /\ process[p].phase = "exchanging"
  /\ Put(process[p].flow, made + 1)
  /\ process' = Proceed(p, "consented", NoSecret, made + 1, FALSE)
  /\ UNCHANGED <<rows, revoked, sent, kept>>

Connected(p) ==
  /\ account' = Account("connected", account.revision + 1, process[p].new)
  /\ retired' = Retire({account.secret} \ {NoSecret})
  /\ \/ account.secret = NoSecret /\ process' = Back(p)
     \/ account.secret # NoSecret /\ process' = Goto(p, "cleaning")
     \/ ~CommitAnswered /\ process' = Goto(p, "withdrawing")

\* Defective variant: any row will do, whatever became of it since the consent.
ConnectAnyRevision(p) ==
  /\ process[p].phase = "consented"
  /\ RowFree
  /\ account.revision < MaxRevision
  /\ Connected(p)
  /\ UNCHANGED <<flow, vault, history>>

\* The connection is what it was when the owner began; a commit whose answer is
\* lost looks like one that failed.
Connect(p) ==
  /\ process[p].phase = "consented"
  /\ RowFree
  /\ account.revision < MaxRevision
  /\ account.revision = flow[process[p].flow].expected
  /\ Connected(p)
  /\ UNCHANGED <<flow, vault, history>>

ConnectFails(p) ==
  /\ process[p].phase = "consented"
  /\ process' = Goto(p, "withdrawing")
  /\ UNCHANGED <<rows, vault, history>>

Withdraw(p) ==
  /\ process[p].phase = "withdrawing"
  /\ vault' = vault \ {process[p].new}
  /\ process' = Back(p)
  /\ UNCHANGED <<rows, history>>

-----------------------------------------------------------------------------
(* credential.                                                              *)

\* The fence is committed before the endpoint can rotate the token.
FenceRefresh(p) ==
  /\ process[p].phase = "idle"
  /\ RowFree
  /\ account.status = "connected" /\ account.secret \in vault
  /\ account.revision < MaxRevision
  /\ account' = Account("awaiting_refresh", account.revision + 1, account.secret)
  /\ process' = Start(p, "refreshing", None, account.revision + 1, account.secret)
  /\ UNCHANGED <<flow, retired, vault, history>>

Refresh(p) ==
  /\ process[p].phase = "refreshing"
  /\ RowFree
  /\ account = Account("awaiting_refresh", process[p].revision, process[p].secret)
  /\ sent' = [sent EXCEPT ![token[process[p].secret]] = @ + 1]
  /\ process' = Proceed(p, "asking", process[p].secret, NoSecret, TRUE)
  /\ UNCHANGED <<rows, vault, made, origin, revoked, token, kept>>

\* The endpoint answers with the next refresh token, or with none: then the one
\* that was sent is still in force and goes into the new secret.
Refreshed(p) ==
  LET old == token[process[p].secret] IN
  /\ process[p].phase = "asking"
  /\ \/ Put(origin[process[p].secret], made + 1) /\ UNCHANGED kept
     \/ Put(origin[process[p].secret], old) /\ kept' = [kept EXCEPT ![old] = @ + 1]
  /\ process' = Proceed(p, "refreshed", process[p].secret, made + 1, process[p].guarded)
  /\ UNCHANGED <<rows, revoked, sent>>

\* The new secret is recorded too, in case the commit is the last that is heard.
CommitRefresh(p) ==
  /\ process[p].phase = "refreshed" /\ process[p].guarded
  /\ account' = Account("connected", account.revision, process[p].new)
  /\ retired' = Retire({process[p].secret, process[p].new})
  /\ process' = Proceed(p, "cleaning", process[p].secret, process[p].new, FALSE)
  /\ UNCHANGED <<flow, vault, history>>

LoseSession(p) ==
  /\ process[p].guarded
  /\ process' = Proceed(p, process[p].phase, process[p].secret, process[p].new, FALSE)
  /\ UNCHANGED <<rows, vault, history>>

\* Defective variant: after an error the connection may be used again.
RefreshFailsReopening(p) ==
  /\ process[p].phase \in {"refreshing", "asking", "refreshed"}
  /\ account' = IF account.status = "awaiting_refresh" /\ account.revision = process[p].revision
                THEN Account("connected", account.revision, account.secret) ELSE account
  /\ process' = Back(p)
  /\ UNCHANGED <<flow, retired, vault, history>>

\* The outcome is unknown: the fence stays until the owner consents anew.
RefreshFails(p) ==
  /\ process[p].phase \in {"refreshing", "asking", "refreshed"}
  /\ process' = Back(p)
  /\ UNCHANGED <<rows, vault, history>>

-----------------------------------------------------------------------------
(* cleanup_retired. The vault is not undone when its transaction is.        *)

\* Defective variant: what is recorded is erased, in use or not.
SelectAny(p, x) ==
  /\ process[p].phase = "cleaning"
  /\ retired[x] = "queued"
  /\ process' = Proceed(p, "erasing", x, process[p].new, FALSE)
  /\ UNCHANGED <<rows, vault, history>>

Select(p, x) ==
  /\ process[p].phase = "cleaning"
  /\ retired[x] = "queued" /\ account.secret # x
  /\ process' = Proceed(p, "erasing", x, process[p].new, FALSE)
  /\ UNCHANGED <<rows, vault, history>>

Erase(p) ==
  /\ process[p].phase = "erasing"
  /\ vault' = vault \ {process[p].secret}
  /\ \E status \in {"done", retired[process[p].secret]} :
       retired' = [retired EXCEPT ![process[p].secret] = status]
  /\ process' = Goto(p, "cleaning")
  /\ UNCHANGED <<account, flow, history>>

-----------------------------------------------------------------------------
(* revoke, and the ends of processes.                                       *)

Revoke(p) ==
  /\ process[p].phase = "idle"
  /\ RowFree
  /\ account.status # "none" /\ account.revision < MaxRevision
  /\ account' = Account("disconnected", account.revision + 1, NoSecret)
  /\ flow' = [f \in Flows |-> IF flow[f].status = "none" THEN flow[f] ELSE Consumed(f)]
  /\ revoked' = {f \in Flows : flow[f].status # "none"}
  /\ process' = Start(p, "disconnecting", None, 0, account.secret)
  /\ UNCHANGED <<retired, vault, made, origin, token, sent, kept>>

Disconnect(p) ==
  /\ process[p].phase = "disconnecting"
  /\ vault' = vault \ {process[p].secret}
  /\ process' = Back(p)
  /\ UNCHANGED <<rows, history>>

\* A crash anywhere, or the end of a cleanup: nothing that was not committed stays
\* but the vault, and nobody finishes for the process.
Leave(p) ==
  /\ process[p].phase # "idle"
  /\ process' = Back(p)
  /\ UNCHANGED <<rows, vault, history>>

Callback(p) ==
  \/ \E f \in Flows : Consume(p, f)
  \/ Exchange(p) \/ Connect(p) \/ ConnectFails(p) \/ Withdraw(p)

Credential(p) ==
  \/ FenceRefresh(p) \/ Refresh(p) \/ Refreshed(p) \/ CommitRefresh(p)
  \/ LoseSession(p) \/ RefreshFails(p)

Cleanup(p) == (\E x \in Secrets : Select(p, x)) \/ Erase(p)

Next ==
  \/ \E f \in Flows : Begin(f)
  \/ \E p \in Processes : Callback(p) \/ Credential(p) \/ Cleanup(p) \/ Revoke(p) \/ Disconnect(p) \/ Leave(p)

Spec == Init /\ [][Next]_vars

-----------------------------------------------------------------------------
(* Properties.                                                             *)

RowTypes ==
  /\ account \in [status: {"none", "awaiting_handshake", "connected", "awaiting_refresh", "disconnected"},
                  revision: 0..MaxRevision, secret: Secrets \cup {NoSecret}]
  /\ account.status \in {"connected", "awaiting_refresh"} <=> account.secret # NoSecret
  /\ flow \in [Flows -> [status: {"none", "open", "consumed"}, expected: 0..MaxRevision]]
  /\ vault \subseteq 1..made /\ made \in 0..MaxSecret
  /\ retired \in [Secrets -> {"none", "queued", "done"}]
  /\ process \in [Processes ->
       [phase: {"idle", "exchanging", "consented", "withdrawing", "refreshing", "asking", "refreshed",
                "cleaning", "erasing", "disconnecting"},
        flow: Flows \cup {None}, revision: 0..MaxRevision,
        secret: Secrets \cup {NoSecret}, new: Secrets \cup {NoSecret}, guarded: BOOLEAN]]
  /\ origin \in [Secrets -> Flows \cup {None}]
  /\ revoked \subseteq Flows

TokenTypes ==
  /\ token \in [Secrets -> Secrets \cup {NoSecret}]
  /\ sent \in [Secrets -> Nat]
  /\ kept \in [Secrets -> Nat]

\* The shape of the row, the vault and the processes; a connected account has a
\* secret and a disconnected one has none (connections.py:22-27).
TypeOK == RowTypes /\ TokenTypes

\* A refresh token is sent again only if every request made with it before was
\* answered and left it in force: not after a rotation, and not after an answer that
\* was lost on the way or in a crash (connections.py:202-214).
TokenResentOnlyIfKept == \A t \in Secrets : sent[t] <= kept[t] + 1

\* The owner's disconnection wins over consents begun before it, wherever their
\* callbacks or refreshes are: what is in use stems from a consent begun after it
\* (connections.py:177, 209-211, 254-256).
RevocationWins == account.secret # NoSecret => origin[account.secret] \notin revoked

\* The secret in use is in the vault: neither a late cleanup nor a withdrawn
\* callback nor another's disconnection has erased it (connections.py:184, 217-218, 243).
ActiveSecretStored == account.secret # NoSecret => account.secret \in vault

=============================================================================
