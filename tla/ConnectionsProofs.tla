-------------------------- MODULE ConnectionsProofs --------------------------
(* Theorems about Connections, for any number of processes, consents,       *)
(* secrets and revisions.                                                   *)
EXTENDS Connections, TLAPS

-----------------------------------------------------------------------------
(* The inductive invariant.                                                 *)

\* Secrets beyond those made have left no trace; who needs one has one.
Bounds ==
  /\ account.secret <= made
  /\ \A x \in Secrets : x > made => retired[x] = "none"
  /\ \A p \in Processes :
       /\ process[p].secret <= made /\ process[p].new <= made
       /\ process[p].phase \in {"consented", "withdrawing", "refreshed"} => process[p].new # NoSecret
       /\ process[p].phase \in {"refreshing", "asking", "refreshed", "erasing"}
            => process[p].secret # NoSecret

\* A consent expects a revision the row has had; a disconnection has left those
\* begun before it behind.
Begun ==
  /\ account.status = "none" => account.revision = 0
  /\ \A f \in Flows : flow[f].status # "none" => flow[f].expected <= account.revision
  /\ \A f \in revoked : flow[f].status # "none" /\ flow[f].expected < account.revision
  /\ \A p \in Processes : process[p].phase \in {"exchanging", "consented"}
       => process[p].flow \in Flows /\ flow[process[p].flow].status = "consumed"

\* While a session holds the row it is alone, and the row is as it was fenced.
Guarded ==
  /\ \A p \in Processes : process[p].guarded =>
       /\ process[p].phase \in {"asking", "refreshed"}
       /\ account.status = "awaiting_refresh"
       /\ account.revision = process[p].revision
       /\ account.secret = process[p].secret
  /\ \A p, q \in Processes : process[p].guarded /\ process[q].guarded => p = q

\* Refreshes that were fenced have revisions of their own.
Refreshing(p) == process[p].phase \in {"refreshing", "asking", "refreshed"}

Fences ==
  /\ \A p \in Processes : Refreshing(p) => process[p].revision <= account.revision
  /\ \A p, q \in Processes :
       Refreshing(p) /\ Refreshing(q) /\ process[p].revision = process[q].revision => p = q

\* A secret in the vault that no row refers to yet is known to one process; what is
\* erased was recorded before.
Carrying(p) == process[p].phase \in {"consented", "refreshed"}

Carriers ==
  /\ \A p \in Processes : process[p].phase = "erasing" => retired[process[p].secret] # "none"
  /\ \A p \in Processes : Carrying(p) =>
       /\ process[p].new # account.secret
       /\ retired[process[p].new] = "none"
  /\ \A p, q \in Processes : Carrying(p) /\ Carrying(q) /\ process[p].new = process[q].new => p = q

\* Secrets that were made have a token, named after one that was made.
Issued ==
  \A x \in Secrets : /\ x > made => token[x] = NoSecret /\ sent[x] = 0 /\ kept[x] = 0
                     /\ x <= made => token[x] \in 1..made

\* The token of the active secret is in force, or it was sent: then the fence is
\* taken and no other process has it.
InForce(t) == sent[t] <= kept[t]

ActiveToken ==
  account.secret # NoSecret /\ ~InForce(token[account.secret]) =>
    /\ account.status = "awaiting_refresh"
    /\ \A p \in Processes : process[p].phase = "refreshing" => process[p].revision # account.revision

\* What a callback is about to commit has a token of its own, never sent; what a
\* refresh that holds the row is about to commit has the next token or the old one,
\* and that in force.
NewTokens ==
  /\ \A p \in Processes : process[p].phase = "consented" =>
       /\ token[process[p].new] = process[p].new
       /\ sent[process[p].new] = 0
       /\ account.secret # NoSecret => token[account.secret] # process[p].new
  /\ \A p \in Processes : process[p].phase = "refreshed" /\ process[p].guarded =>
       /\ token[process[p].new] \in {process[p].new, token[process[p].secret]}
       /\ InForce(token[process[p].new])

Tokens == TokenResentOnlyIfKept /\ ActiveToken /\ NewTokens

Origins ==
  \A p \in Processes :
    /\ process[p].phase = "consented" => origin[process[p].new] = process[p].flow
    /\ process[p].phase = "refreshed" => origin[process[p].new] = origin[process[p].secret]

IInv ==
  /\ TypeOK /\ Bounds /\ Begun /\ Guarded /\ Fences /\ Carriers /\ Origins /\ Issued /\ Tokens
  /\ RevocationWins

\* Secrets on their way out are neither in use nor about to be.
Doomed(p) ==
  CASE process[p].phase = "withdrawing" -> process[p].new
    [] process[p].phase \in {"erasing", "disconnecting"} -> process[p].secret
    [] OTHER -> NoSecret

Stored ==
  /\ ActiveSecretStored
  /\ \A p \in Processes : Carrying(p) => process[p].new \in vault
  /\ \A p \in Processes : Doomed(p) # NoSecret =>
       /\ Doomed(p) # account.secret
       /\ \A q \in Processes : Carrying(q) => process[q].new # Doomed(p)

-----------------------------------------------------------------------------
(* Every conjunct is preserved.                                             *)

\* Columns, records of processes and the vault keep their types.
LEMMA TypeStep == RowTypes /\ Bounds /\ [Next]_vars => RowTypes'
<1> SUFFICES ASSUME RowTypes, Bounds, [Next]_vars PROVE RowTypes'
    OBVIOUS
<1> USE ConnectionsAssumption DEF RowTypes, Bounds, Secrets, NoSecret, None, rows, history
<1>1. ASSUME NEW f \in Flows, Begin(f) PROVE RowTypes'
      BY <1>1 DEF Begin, Account
<1>2. ASSUME NEW p \in Processes, NEW f \in Flows, Consume(p, f) PROVE RowTypes'
      BY <1>2 DEF Consume, Start, Consumed
<1>3. ASSUME NEW p \in Processes, Exchange(p) PROVE RowTypes'
      BY <1>3 DEF Exchange, Put, Proceed
<1>4. ASSUME NEW p \in Processes, Connect(p) PROVE RowTypes'
  <2>1. /\ process[p].phase = "consented" /\ account.revision < MaxRevision
        /\ account.revision = flow[process[p].flow].expected
        /\ account' = Account("connected", account.revision + 1, process[p].new)
        /\ UNCHANGED <<flow, vault, made, origin, revoked, token, sent, kept>>
        BY <1>4 DEF Connect, Connected
  <2>2. retired' = [x \in Secrets |-> IF x = account.secret /\ x # NoSecret /\ retired[x] = "none"
                                    THEN "queued" ELSE retired[x]]
        BY <1>4 DEF Connect, Connected, Retire
  <2>3. retired' \in [Secrets -> {"none", "queued", "done"}]
        BY <2>2
  <2>4. CASE process' = Back(p)
        BY <2>1, <2>3, <2>4 DEF Account, Back, Idle
  <2>5. CASE process' = Goto(p, "cleaning")
        BY <2>1, <2>3, <2>5, SMTT(60) DEF Account, Goto, Proceed
  <2>6. CASE process' = Goto(p, "withdrawing")
        BY <2>1, <2>3, <2>6, SMTT(60) DEF Account, Goto, Proceed
  <2> QED BY <1>4, <2>4, <2>5, <2>6 DEF Connect, Connected
<1>5. ASSUME NEW p \in Processes, ConnectFails(p) PROVE RowTypes'
      BY <1>5 DEF ConnectFails, Goto, Proceed
<1>6. ASSUME NEW p \in Processes, Withdraw(p) PROVE RowTypes'
  <2>1. vault' \subseteq 1..made'
        BY <1>6 DEF Withdraw
  <2> QED BY <1>6, <2>1 DEF Withdraw, Back, Idle
<1>7. ASSUME NEW p \in Processes, FenceRefresh(p) PROVE RowTypes'
      BY <1>7 DEF FenceRefresh, Start, Account
<1>8. ASSUME NEW p \in Processes, Refresh(p) PROVE RowTypes'
      BY <1>8 DEF Refresh, Proceed, Account
<1>9. ASSUME NEW p \in Processes, Refreshed(p) PROVE RowTypes'
  <2>1. /\ process[p].phase = "asking" /\ made < MaxSecret /\ made' = made + 1
        /\ vault' = vault \cup {made + 1}
        /\ origin' = [origin EXCEPT ![made + 1] = origin[process[p].secret]]
        /\ process' = Proceed(p, "refreshed", process[p].secret, made + 1, process[p].guarded)
        /\ UNCHANGED <<account, flow, retired, revoked>>
        BY <1>9 DEF Refreshed, Put
  <2>2. vault' \subseteq 1..made'
        BY <2>1
  <2> QED BY <2>1, <2>2 DEF Proceed
<1>10. ASSUME NEW p \in Processes, CommitRefresh(p) PROVE RowTypes'
  <2>1. retired' \in [Secrets -> {"none", "queued", "done"}]
        BY <1>10 DEF CommitRefresh, Retire
  <2> QED BY <1>10, <2>1 DEF CommitRefresh, Proceed, Account
<1>11. ASSUME NEW p \in Processes, LoseSession(p) PROVE RowTypes'
      BY <1>11 DEF LoseSession, Proceed
<1>12. ASSUME NEW p \in Processes, RefreshFails(p) PROVE RowTypes'
      BY <1>12 DEF RefreshFails, Back, Idle
<1>13. ASSUME NEW p \in Processes, NEW x \in Secrets, Select(p, x) PROVE RowTypes'
      BY <1>13 DEF Select, Proceed
<1>14. ASSUME NEW p \in Processes, Erase(p) PROVE RowTypes'
  <2>1. PICK status \in {"done", retired[process[p].secret]} :
          retired' = [retired EXCEPT ![process[p].secret] = status]
        BY <1>14 DEF Erase
  <2>2. status \in {"none", "queued", "done"}
        BY <1>14, <2>1 DEF Erase
  <2>3. retired' \in [Secrets -> {"none", "queued", "done"}]
        BY <2>1, <2>2
  <2>4. vault' \subseteq 1..made'
        BY <1>14 DEF Erase
  <2> QED BY <1>14, <2>3, <2>4 DEF Erase, Goto, Proceed
<1>15. ASSUME NEW p \in Processes, Revoke(p) PROVE RowTypes'
      BY <1>15 DEF Revoke, Start, Account, Consumed
<1>16. ASSUME NEW p \in Processes, Disconnect(p) PROVE RowTypes'
  <2>1. vault' \subseteq 1..made'
        BY <1>16 DEF Disconnect
  <2> QED BY <1>16, <2>1 DEF Disconnect, Back, Idle
<1>17. ASSUME NEW p \in Processes, Leave(p) PROVE RowTypes'
      BY <1>17 DEF Leave, Back, Idle
<1>18. CASE UNCHANGED vars
      BY <1>18 DEF vars
<1> QED BY <1>1, <1>2, <1>3, <1>4, <1>5, <1>6, <1>7, <1>8, <1>9, <1>10, <1>11, <1>12, <1>13, <1>14, <1>15, <1>16, <1>17, <1>18 DEF Next, Callback, Credential, Cleanup

\* Only secrets that were made are named.
LEMMA BoundsStep == RowTypes /\ Bounds /\ Guarded /\ [Next]_vars => Bounds'
<1> SUFFICES ASSUME RowTypes, Bounds, Guarded, [Next]_vars PROVE Bounds'
    OBVIOUS
<1> USE ConnectionsAssumption DEF RowTypes, Secrets, NoSecret, None, Bounds, Guarded, rows, history
<1>1. ASSUME NEW f \in Flows, Begin(f) PROVE Bounds'
      BY <1>1 DEF Begin, Account
<1>2. ASSUME NEW p \in Processes, NEW f \in Flows, Consume(p, f) PROVE Bounds'
      BY <1>2 DEF Consume, Start, Consumed
<1>3. ASSUME NEW p \in Processes, Exchange(p) PROVE Bounds'
      BY <1>3 DEF Exchange, Put, Proceed
<1>4. ASSUME NEW p \in Processes, Connect(p) PROVE Bounds'
  <2>1. /\ process[p].phase = "consented" /\ account.revision < MaxRevision
        /\ account.revision = flow[process[p].flow].expected
        /\ account' = Account("connected", account.revision + 1, process[p].new)
        /\ UNCHANGED <<flow, vault, made, origin, revoked, token, sent, kept>>
        BY <1>4 DEF Connect, Connected
  <2>2. retired' = [x \in Secrets |-> IF x = account.secret /\ x # NoSecret /\ retired[x] = "none"
                                    THEN "queued" ELSE retired[x]]
        BY <1>4 DEF Connect, Connected, Retire
  <2>3. CASE process' = Back(p)
        BY <2>1, <2>2, <2>3 DEF Account, Back, Idle
  <2>4. CASE process' = Goto(p, "cleaning")
        BY <2>1, <2>2, <2>4 DEF Account, Goto, Proceed
  <2>5. CASE process' = Goto(p, "withdrawing")
        BY <2>1, <2>2, <2>5 DEF Account, Goto, Proceed
  <2> QED BY <1>4, <2>3, <2>4, <2>5 DEF Connect, Connected
<1>5. ASSUME NEW p \in Processes, ConnectFails(p) PROVE Bounds'
      BY <1>5 DEF ConnectFails, Goto, Proceed
<1>6. ASSUME NEW p \in Processes, Withdraw(p) PROVE Bounds'
      BY <1>6 DEF Withdraw, Back, Idle
<1>7. ASSUME NEW p \in Processes, FenceRefresh(p) PROVE Bounds'
      BY <1>7 DEF FenceRefresh, Start, Account
<1>8. ASSUME NEW p \in Processes, Refresh(p) PROVE Bounds'
      BY <1>8 DEF Refresh, Proceed, Account
<1>9. ASSUME NEW p \in Processes, Refreshed(p) PROVE Bounds'
  <2>1. /\ process[p].phase = "asking" /\ made < MaxSecret /\ made' = made + 1
        /\ vault' = vault \cup {made + 1}
        /\ origin' = [origin EXCEPT ![made + 1] = origin[process[p].secret]]
        /\ process' = Proceed(p, "refreshed", process[p].secret, made + 1, process[p].guarded)
        /\ UNCHANGED <<account, flow, retired, revoked>>
        BY <1>9 DEF Refreshed, Put
  <2> QED BY <2>1 DEF Proceed
<1>10. ASSUME NEW p \in Processes, CommitRefresh(p) PROVE Bounds'
      BY <1>10 DEF CommitRefresh, Retire, Proceed, Account
<1>11. ASSUME NEW p \in Processes, LoseSession(p) PROVE Bounds'
      BY <1>11 DEF LoseSession, Proceed
<1>12. ASSUME NEW p \in Processes, RefreshFails(p) PROVE Bounds'
      BY <1>12 DEF RefreshFails, Back, Idle
<1>13. ASSUME NEW p \in Processes, NEW x \in Secrets, Select(p, x) PROVE Bounds'
      BY <1>13 DEF Select, Proceed
<1>14. ASSUME NEW p \in Processes, Erase(p) PROVE Bounds'
      BY <1>14 DEF Erase, Goto, Proceed
<1>15. ASSUME NEW p \in Processes, Revoke(p) PROVE Bounds'
      BY <1>15 DEF Revoke, Start, Account, Consumed
<1>16. ASSUME NEW p \in Processes, Disconnect(p) PROVE Bounds'
      BY <1>16 DEF Disconnect, Back, Idle
<1>17. ASSUME NEW p \in Processes, Leave(p) PROVE Bounds'
      BY <1>17 DEF Leave, Back, Idle
<1>18. CASE UNCHANGED vars
      BY <1>18 DEF vars
<1> QED BY <1>1, <1>2, <1>3, <1>4, <1>5, <1>6, <1>7, <1>8, <1>9, <1>10, <1>11, <1>12, <1>13, <1>14, <1>15, <1>16, <1>17, <1>18 DEF Next, Callback, Credential, Cleanup

\* Revisions only grow.
LEMMA BegunStep == RowTypes /\ Bounds /\ Begun /\ Guarded /\ [Next]_vars => Begun'
<1> SUFFICES ASSUME RowTypes, Bounds, Begun, Guarded, [Next]_vars PROVE Begun'
    OBVIOUS
<1> USE ConnectionsAssumption DEF RowTypes, Secrets, NoSecret, None, Bounds, Begun, Guarded, rows, history
<1>1. ASSUME NEW f \in Flows, Begin(f) PROVE Begun'
      BY <1>1 DEF Begin, Account
<1>2. ASSUME NEW p \in Processes, NEW f \in Flows, Consume(p, f) PROVE Begun'
      BY <1>2 DEF Consume, Start, Consumed
<1>3. ASSUME NEW p \in Processes, Exchange(p) PROVE Begun'
      BY <1>3 DEF Exchange, Put, Proceed
<1>4. ASSUME NEW p \in Processes, Connect(p) PROVE Begun'
  <2>1. /\ process[p].phase = "consented" /\ account.revision < MaxRevision
        /\ account' = Account("connected", account.revision + 1, process[p].new)
        /\ UNCHANGED <<flow, revoked>>
        BY <1>4 DEF Connect, Connected
  <2>2. CASE process' = Back(p)
        BY <2>1, <2>2 DEF Account, Back, Idle
  <2>3. CASE process' = Goto(p, "cleaning")
        BY <2>1, <2>3 DEF Account, Goto, Proceed
  <2>4. CASE process' = Goto(p, "withdrawing")
        BY <2>1, <2>4 DEF Account, Goto, Proceed
  <2> QED BY <1>4, <2>2, <2>3, <2>4 DEF Connect, Connected
<1>5. ASSUME NEW p \in Processes, ConnectFails(p) PROVE Begun'
      BY <1>5 DEF ConnectFails, Goto, Proceed
<1>6. ASSUME NEW p \in Processes, Withdraw(p) PROVE Begun'
      BY <1>6 DEF Withdraw, Back, Idle
<1>7. ASSUME NEW p \in Processes, FenceRefresh(p) PROVE Begun'
      BY <1>7 DEF FenceRefresh, Start, Account
<1>8. ASSUME NEW p \in Processes, Refresh(p) PROVE Begun'
      BY <1>8 DEF Refresh, Proceed, Account
<1>9. ASSUME NEW p \in Processes, Refreshed(p) PROVE Begun'
  <2>1. /\ process[p].phase = "asking" /\ made < MaxSecret /\ made' = made + 1
        /\ vault' = vault \cup {made + 1}
        /\ origin' = [origin EXCEPT ![made + 1] = origin[process[p].secret]]
        /\ process' = Proceed(p, "refreshed", process[p].secret, made + 1, process[p].guarded)
        /\ UNCHANGED <<account, flow, retired, revoked>>
        BY <1>9 DEF Refreshed, Put
  <2> QED BY <2>1 DEF Proceed
<1>10. ASSUME NEW p \in Processes, CommitRefresh(p) PROVE Begun'
      BY <1>10 DEF CommitRefresh, Retire, Proceed, Account
<1>11. ASSUME NEW p \in Processes, LoseSession(p) PROVE Begun'
      BY <1>11 DEF LoseSession, Proceed
<1>12. ASSUME NEW p \in Processes, RefreshFails(p) PROVE Begun'
      BY <1>12 DEF RefreshFails, Back, Idle
<1>13. ASSUME NEW p \in Processes, NEW x \in Secrets, Select(p, x) PROVE Begun'
      BY <1>13 DEF Select, Proceed
<1>14. ASSUME NEW p \in Processes, Erase(p) PROVE Begun'
      BY <1>14 DEF Erase, Goto, Proceed
<1>15. ASSUME NEW p \in Processes, Revoke(p) PROVE Begun'
      BY <1>15 DEF Revoke, Start, Account, Consumed
<1>16. ASSUME NEW p \in Processes, Disconnect(p) PROVE Begun'
      BY <1>16 DEF Disconnect, Back, Idle
<1>17. ASSUME NEW p \in Processes, Leave(p) PROVE Begun'
      BY <1>17 DEF Leave, Back, Idle
<1>18. CASE UNCHANGED vars
      BY <1>18 DEF vars
<1> QED BY <1>1, <1>2, <1>3, <1>4, <1>5, <1>6, <1>7, <1>8, <1>9, <1>10, <1>11, <1>12, <1>13, <1>14, <1>15, <1>16, <1>17, <1>18 DEF Next, Callback, Credential, Cleanup

\* The row of a guarded refresh is changed by nobody else.
LEMMA GuardedStep == RowTypes /\ Guarded /\ [Next]_vars => Guarded'
<1> SUFFICES ASSUME RowTypes, Guarded, [Next]_vars PROVE Guarded'
    OBVIOUS
<1> USE ConnectionsAssumption DEF RowTypes, Secrets, NoSecret, None, Guarded, rows, history
<1>1. ASSUME NEW f \in Flows, Begin(f) PROVE Guarded'
      BY <1>1 DEF Begin, Account, RowFree
<1>2. ASSUME NEW p \in Processes, NEW f \in Flows, Consume(p, f) PROVE Guarded'
      BY <1>2 DEF Consume, Start, Consumed
<1>3. ASSUME NEW p \in Processes, Exchange(p) PROVE Guarded'
      BY <1>3 DEF Exchange, Put, Proceed
<1>4. ASSUME NEW p \in Processes, Connect(p) PROVE Guarded'
  <2>1. /\ process[p].phase = "consented" /\ account.revision < MaxRevision
        /\ account.revision = flow[process[p].flow].expected /\ RowFree
        /\ account' = Account("connected", account.revision + 1, process[p].new)
        /\ UNCHANGED <<flow, vault, made, origin, revoked, token, sent, kept>>
        BY <1>4 DEF Connect, Connected
  <2>2. retired' = [x \in Secrets |-> IF x = account.secret /\ x # NoSecret /\ retired[x] = "none"
                                    THEN "queued" ELSE retired[x]]
        BY <1>4 DEF Connect, Connected, Retire
  <2>3. CASE process' = Back(p)
        BY <2>1, <2>2, <2>3 DEF Account, Back, Idle, RowFree
  <2>4. CASE process' = Goto(p, "cleaning")
        BY <2>1, <2>2, <2>4 DEF Account, Goto, Proceed, RowFree
  <2>5. CASE process' = Goto(p, "withdrawing")
        BY <2>1, <2>2, <2>5 DEF Account, Goto, Proceed, RowFree
  <2> QED BY <1>4, <2>3, <2>4, <2>5 DEF Connect, Connected
<1>5. ASSUME NEW p \in Processes, ConnectFails(p) PROVE Guarded'
      BY <1>5 DEF ConnectFails, Goto, Proceed
<1>6. ASSUME NEW p \in Processes, Withdraw(p) PROVE Guarded'
      BY <1>6 DEF Withdraw, Back, Idle
<1>7. ASSUME NEW p \in Processes, FenceRefresh(p) PROVE Guarded'
      BY <1>7 DEF FenceRefresh, Start, Account, RowFree
<1>8. ASSUME NEW p \in Processes, Refresh(p) PROVE Guarded'
      BY <1>8 DEF Refresh, Proceed, Account, RowFree
<1>9. ASSUME NEW p \in Processes, Refreshed(p) PROVE Guarded'
  <2>1. /\ process[p].phase = "asking" /\ made < MaxSecret /\ made' = made + 1
        /\ vault' = vault \cup {made + 1}
        /\ origin' = [origin EXCEPT ![made + 1] = origin[process[p].secret]]
        /\ process' = Proceed(p, "refreshed", process[p].secret, made + 1, process[p].guarded)
        /\ UNCHANGED <<account, flow, retired, revoked>>
        BY <1>9 DEF Refreshed, Put
  <2> QED BY <2>1 DEF Proceed
<1>10. ASSUME NEW p \in Processes, CommitRefresh(p) PROVE Guarded'
      BY <1>10 DEF CommitRefresh, Retire, Proceed, Account
<1>11. ASSUME NEW p \in Processes, LoseSession(p) PROVE Guarded'
      BY <1>11 DEF LoseSession, Proceed
<1>12. ASSUME NEW p \in Processes, RefreshFails(p) PROVE Guarded'
      BY <1>12 DEF RefreshFails, Back, Idle
<1>13. ASSUME NEW p \in Processes, NEW x \in Secrets, Select(p, x) PROVE Guarded'
      BY <1>13 DEF Select, Proceed
<1>14. ASSUME NEW p \in Processes, Erase(p) PROVE Guarded'
      BY <1>14 DEF Erase, Goto, Proceed
<1>15. ASSUME NEW p \in Processes, Revoke(p) PROVE Guarded'
      BY <1>15 DEF Revoke, Start, Account, Consumed, RowFree
<1>16. ASSUME NEW p \in Processes, Disconnect(p) PROVE Guarded'
      BY <1>16 DEF Disconnect, Back, Idle
<1>17. ASSUME NEW p \in Processes, Leave(p) PROVE Guarded'
      BY <1>17 DEF Leave, Back, Idle
<1>18. CASE UNCHANGED vars
      BY <1>18 DEF vars
<1> QED BY <1>1, <1>2, <1>3, <1>4, <1>5, <1>6, <1>7, <1>8, <1>9, <1>10, <1>11, <1>12, <1>13, <1>14, <1>15, <1>16, <1>17, <1>18 DEF Next, Callback, Credential, Cleanup

\* A fence takes a revision nobody has had.
LEMMA FencesStep == RowTypes /\ Begun /\ Guarded /\ Fences /\ [Next]_vars => Fences'
<1> SUFFICES ASSUME RowTypes, Begun, Guarded, Fences, [Next]_vars PROVE Fences'
    OBVIOUS
<1> USE ConnectionsAssumption DEF RowTypes, Secrets, NoSecret, None, Begun, Guarded, Fences, Refreshing, rows, history
<1>1. ASSUME NEW f \in Flows, Begin(f) PROVE Fences'
      BY <1>1 DEF Begin, Account
<1>2. ASSUME NEW p \in Processes, NEW f \in Flows, Consume(p, f) PROVE Fences'
      BY <1>2 DEF Consume, Start, Consumed
<1>3. ASSUME NEW p \in Processes, Exchange(p) PROVE Fences'
      BY <1>3 DEF Exchange, Put, Proceed
<1>4. ASSUME NEW p \in Processes, Connect(p) PROVE Fences'
  <2>1. /\ process[p].phase = "consented" /\ account.revision < MaxRevision
        /\ account.revision = flow[process[p].flow].expected
        /\ account' = Account("connected", account.revision + 1, process[p].new)
        /\ UNCHANGED <<flow, vault, made, origin, revoked, token, sent, kept>>
        BY <1>4 DEF Connect, Connected
  <2>2. retired' = [x \in Secrets |-> IF x = account.secret /\ x # NoSecret /\ retired[x] = "none"
                                    THEN "queued" ELSE retired[x]]
        BY <1>4 DEF Connect, Connected, Retire
  <2>3. CASE process' = Back(p)
        BY <2>1, <2>2, <2>3 DEF Account, Back, Idle
  <2>4. CASE process' = Goto(p, "cleaning")
        BY <2>1, <2>2, <2>4 DEF Account, Goto, Proceed
  <2>5. CASE process' = Goto(p, "withdrawing")
        BY <2>1, <2>2, <2>5 DEF Account, Goto, Proceed
  <2> QED BY <1>4, <2>3, <2>4, <2>5 DEF Connect, Connected
<1>5. ASSUME NEW p \in Processes, ConnectFails(p) PROVE Fences'
      BY <1>5 DEF ConnectFails, Goto, Proceed
<1>6. ASSUME NEW p \in Processes, Withdraw(p) PROVE Fences'
      BY <1>6 DEF Withdraw, Back, Idle
<1>7. ASSUME NEW p \in Processes, FenceRefresh(p) PROVE Fences'
      BY <1>7 DEF FenceRefresh, Start, Account
<1>8. ASSUME NEW p \in Processes, Refresh(p) PROVE Fences'
      BY <1>8 DEF Refresh, Proceed, Account
<1>9. ASSUME NEW p \in Processes, Refreshed(p) PROVE Fences'
  <2>1. /\ process[p].phase = "asking" /\ made < MaxSecret /\ made' = made + 1
        /\ vault' = vault \cup {made + 1}
        /\ origin' = [origin EXCEPT ![made + 1] = origin[process[p].secret]]
        /\ process' = Proceed(p, "refreshed", process[p].secret, made + 1, process[p].guarded)
        /\ UNCHANGED <<account, flow, retired, revoked>>
        BY <1>9 DEF Refreshed, Put
  <2> QED BY <2>1 DEF Proceed
<1>10. ASSUME NEW p \in Processes, CommitRefresh(p) PROVE Fences'
      BY <1>10 DEF CommitRefresh, Retire, Proceed, Account
<1>11. ASSUME NEW p \in Processes, LoseSession(p) PROVE Fences'
      BY <1>11 DEF LoseSession, Proceed
<1>12. ASSUME NEW p \in Processes, RefreshFails(p) PROVE Fences'
      BY <1>12 DEF RefreshFails, Back, Idle
<1>13. ASSUME NEW p \in Processes, NEW x \in Secrets, Select(p, x) PROVE Fences'
      BY <1>13 DEF Select, Proceed
<1>14. ASSUME NEW p \in Processes, Erase(p) PROVE Fences'
      BY <1>14 DEF Erase, Goto, Proceed
<1>15. ASSUME NEW p \in Processes, Revoke(p) PROVE Fences'
      BY <1>15 DEF Revoke, Start, Account, Consumed
<1>16. ASSUME NEW p \in Processes, Disconnect(p) PROVE Fences'
      BY <1>16 DEF Disconnect, Back, Idle
<1>17. ASSUME NEW p \in Processes, Leave(p) PROVE Fences'
      BY <1>17 DEF Leave, Back, Idle
<1>18. CASE UNCHANGED vars
      BY <1>18 DEF vars
<1> QED BY <1>1, <1>2, <1>3, <1>4, <1>5, <1>6, <1>7, <1>8, <1>9, <1>10, <1>11, <1>12, <1>13, <1>14, <1>15, <1>16, <1>17, <1>18 DEF Next, Callback, Credential, Cleanup

\* A secret nobody committed is nobody else's, not retired and not in use.
LEMMA CarriersStep == RowTypes /\ Bounds /\ Guarded /\ Carriers /\ [Next]_vars => Carriers'
<1> SUFFICES ASSUME RowTypes, Bounds, Guarded, Carriers, [Next]_vars PROVE Carriers'
    OBVIOUS
<1> USE ConnectionsAssumption DEF RowTypes, Secrets, NoSecret, None, Bounds, Guarded, Carriers, Carrying, rows, history
<1>1. ASSUME NEW f \in Flows, Begin(f) PROVE Carriers'
      BY <1>1 DEF Begin, Account
<1>2. ASSUME NEW p \in Processes, NEW f \in Flows, Consume(p, f) PROVE Carriers'
      BY <1>2 DEF Consume, Start, Consumed
<1>3. ASSUME NEW p \in Processes, Exchange(p) PROVE Carriers'
      BY <1>3 DEF Exchange, Put, Proceed
<1>4. ASSUME NEW p \in Processes, Connect(p) PROVE Carriers'
  <2>1. /\ process[p].phase = "consented" /\ account.revision < MaxRevision
        /\ account.revision = flow[process[p].flow].expected
        /\ account' = Account("connected", account.revision + 1, process[p].new)
        /\ UNCHANGED <<flow, vault, made, origin, revoked, token, sent, kept>>
        BY <1>4 DEF Connect, Connected
  <2>2. retired' = [x \in Secrets |-> IF x = account.secret /\ x # NoSecret /\ retired[x] = "none"
                                    THEN "queued" ELSE retired[x]]
        BY <1>4 DEF Connect, Connected, Retire
  <2>3. CASE process' = Back(p)
        BY <2>1, <2>2, <2>3 DEF Account, Back, Idle
  <2>4. CASE process' = Goto(p, "cleaning")
        BY <2>1, <2>2, <2>4 DEF Account, Goto, Proceed
  <2>5. CASE process' = Goto(p, "withdrawing")
        BY <2>1, <2>2, <2>5 DEF Account, Goto, Proceed
  <2> QED BY <1>4, <2>3, <2>4, <2>5 DEF Connect, Connected
<1>5. ASSUME NEW p \in Processes, ConnectFails(p) PROVE Carriers'
      BY <1>5 DEF ConnectFails, Goto, Proceed
<1>6. ASSUME NEW p \in Processes, Withdraw(p) PROVE Carriers'
      BY <1>6 DEF Withdraw, Back, Idle
<1>7. ASSUME NEW p \in Processes, FenceRefresh(p) PROVE Carriers'
      BY <1>7 DEF FenceRefresh, Start, Account
<1>8. ASSUME NEW p \in Processes, Refresh(p) PROVE Carriers'
      BY <1>8 DEF Refresh, Proceed, Account
<1>9. ASSUME NEW p \in Processes, Refreshed(p) PROVE Carriers'
  <2>1. /\ process[p].phase = "asking" /\ made < MaxSecret /\ made' = made + 1
        /\ vault' = vault \cup {made + 1}
        /\ origin' = [origin EXCEPT ![made + 1] = origin[process[p].secret]]
        /\ process' = Proceed(p, "refreshed", process[p].secret, made + 1, process[p].guarded)
        /\ UNCHANGED <<account, flow, retired, revoked>>
        BY <1>9 DEF Refreshed, Put
  <2> QED BY <2>1 DEF Proceed
<1>10. ASSUME NEW p \in Processes, CommitRefresh(p) PROVE Carriers'
      BY <1>10 DEF CommitRefresh, Retire, Proceed, Account
<1>11. ASSUME NEW p \in Processes, LoseSession(p) PROVE Carriers'
      BY <1>11 DEF LoseSession, Proceed
<1>12. ASSUME NEW p \in Processes, RefreshFails(p) PROVE Carriers'
      BY <1>12 DEF RefreshFails, Back, Idle
<1>13. ASSUME NEW p \in Processes, NEW x \in Secrets, Select(p, x) PROVE Carriers'
      BY <1>13 DEF Select, Proceed
<1>14. ASSUME NEW p \in Processes, Erase(p) PROVE Carriers'
  <2>1. PICK status \in {"done", retired[process[p].secret]} :
          retired' = [retired EXCEPT ![process[p].secret] = status]
        BY <1>14 DEF Erase
  <2>2. \A x \in Secrets : retired[x] = "none" <=> retired'[x] = "none"
        BY <1>14, <2>1 DEF Erase
  <2> QED BY <1>14, <2>2 DEF Erase, Goto, Proceed
<1>15. ASSUME NEW p \in Processes, Revoke(p) PROVE Carriers'
      BY <1>15 DEF Revoke, Start, Account, Consumed
<1>16. ASSUME NEW p \in Processes, Disconnect(p) PROVE Carriers'
      BY <1>16 DEF Disconnect, Back, Idle
<1>17. ASSUME NEW p \in Processes, Leave(p) PROVE Carriers'
      BY <1>17 DEF Leave, Back, Idle
<1>18. CASE UNCHANGED vars
      BY <1>18 DEF vars
<1> QED BY <1>1, <1>2, <1>3, <1>4, <1>5, <1>6, <1>7, <1>8, <1>9, <1>10, <1>11, <1>12, <1>13, <1>14, <1>15, <1>16, <1>17, <1>18 DEF Next, Callback, Credential, Cleanup

\* Tokens are issued, sent and kept by the exchange of a code and by refreshes only.
LEMMA TokenSteps ==
  [Next]_vars => \/ UNCHANGED <<made, token, sent, kept>>
                 \/ \E p \in Processes : Exchange(p) \/ Refresh(p) \/ Refreshed(p)
<1> SUFFICES ASSUME [Next]_vars, ~UNCHANGED <<made, token, sent, kept>>
             PROVE  \E p \in Processes : Exchange(p) \/ Refresh(p) \/ Refreshed(p)
    OBVIOUS
<1> QED BY DEF Next, Callback, Credential, Cleanup, Begin, Consume, Connect, ConnectFails, Withdraw, FenceRefresh,
          CommitRefresh, LoseSession, RefreshFails, Select, Erase, Revoke, Disconnect, Leave,
          vars, rows, history

\* What goes on in a refresh that is answered: the token that was sent is replaced, or
\* kept on record.
LEMMA RefreshedToken ==
  ASSUME NEW p \in Processes, Refreshed(p)
  PROVE  /\ process[p].phase = "asking" /\ made < MaxSecret /\ made' = made + 1
         /\ process' = Proceed(p, "refreshed", process[p].secret, made + 1, process[p].guarded)
         /\ UNCHANGED <<account, flow, retired, revoked, sent>>
         /\ \/ token' = [token EXCEPT ![made + 1] = made + 1] /\ kept' = kept
            \/ /\ token' = [token EXCEPT ![made + 1] = token[process[p].secret]]
               /\ kept' = [kept EXCEPT ![token[process[p].secret]] = @ + 1]
BY DEF Refreshed, Put, rows

\* Then no other secret has another token, and no token is less in force.
LEMMA RefreshedOthers ==
  ASSUME RowTypes, TokenTypes, Bounds, Issued, NEW p \in Processes, Refreshed(p)
  PROVE  /\ made \in Nat /\ made + 1 \in Secrets /\ process[p].secret \in 1..made
         /\ token[process[p].secret] \in 1..made
         /\ \A x \in 1..made : token'[x] = token[x] /\ token[x] \in 1..made /\ x \in Secrets
         /\ token'[made + 1] \in {made + 1, token[process[p].secret]}
         /\ token' \in [Secrets -> Secrets \cup {NoSecret}] /\ kept' \in [Secrets -> Nat]
         /\ \A t \in Secrets : kept[t] <= kept'[t]
<1> DEFINE old == token[process[p].secret]
<1>1. /\ process[p].phase = "asking" /\ made < MaxSecret
      /\ \/ token' = [token EXCEPT ![made + 1] = made + 1] /\ kept' = kept
         \/ token' = [token EXCEPT ![made + 1] = old] /\ kept' = [kept EXCEPT ![old] = @ + 1]
      BY RefreshedToken
<1>2. made \in Nat /\ made + 1 \in Secrets /\ \A x \in 1..made : x \in Secrets /\ x # made + 1
      BY <1>1, ConnectionsAssumption DEF RowTypes, Secrets
<1>3. process[p].secret \in 1..made
      BY <1>1, <1>2 DEF RowTypes, Bounds, Secrets, NoSecret
<1>4. \A x \in 1..made : token[x] \in 1..made
      BY <1>2 DEF Issued
<1>5. old \in 1..made /\ old \in Secrets
      BY <1>2, <1>3, <1>4
<1> HIDE DEF old
<1>6. PICK n \in {made + 1, old} : token' = [token EXCEPT ![made + 1] = n]
      BY <1>1
<1>7. token' \in [Secrets -> Secrets \cup {NoSecret}] /\ token'[made + 1] = n
      BY <1>2, <1>5, <1>6 DEF TokenTypes
<1>8. \A x \in 1..made : token'[x] = token[x]
      BY <1>2, <1>6 DEF TokenTypes
<1>9. kept' \in [Secrets -> Nat] /\ \A t \in Secrets : kept[t] <= kept'[t]
  <2>1. CASE kept' = kept
        BY <2>1 DEF TokenTypes
  <2>2. CASE kept' = [kept EXCEPT ![old] = @ + 1]
    <3>1. kept[old] \in Nat /\ kept[old] + 1 \in Nat
          BY <1>5 DEF TokenTypes
    <3>2. kept'[old] = kept[old] + 1 /\ \A t \in Secrets : t # old => kept'[t] = kept[t]
          BY <1>5, <2>2 DEF TokenTypes
    <3>3. kept' \in [Secrets -> Nat]
          BY <1>5, <2>2, <3>1, Zenon DEF TokenTypes
    <3> QED BY <3>1, <3>2, <3>3 DEF TokenTypes
  <2> QED BY <1>1, <2>1, <2>2
<1> QED BY <1>2, <1>3, <1>4, <1>5, <1>6, <1>7, <1>8, <1>9 DEF old

\* A new token is named after the secret it came in.
LEMMA IssuedStep == RowTypes /\ TokenTypes /\ Bounds /\ Issued /\ [Next]_vars => (TokenTypes /\ Issued)'
<1> SUFFICES ASSUME RowTypes, TokenTypes, Bounds, Issued, [Next]_vars PROVE (TokenTypes /\ Issued)'
    OBVIOUS
<1>0. /\ made \in 0..MaxSecret /\ MaxSecret \in Nat
      /\ \A p \in Processes : /\ process[p].secret \in 0..made
                               /\ process[p].phase \in {"refreshing", "asking"} => process[p].secret # 0
      BY ConnectionsAssumption DEF RowTypes, Bounds, Secrets, NoSecret
<1> USE DEF TokenTypes, Issued, Secrets, NoSecret
<1>1. ASSUME NEW p \in Processes, Exchange(p) PROVE (TokenTypes /\ Issued)'
  <2>1. /\ made < MaxSecret /\ made' = made + 1 /\ token' = [token EXCEPT ![made + 1] = made + 1]
        /\ UNCHANGED <<sent, kept>>
        BY <1>1 DEF Exchange, Put
  <2> QED BY <1>0, <2>1
<1>2. ASSUME NEW p \in Processes, Refresh(p) PROVE (TokenTypes /\ Issued)'
  <2> DEFINE t == token[process[p].secret]
  <2>1. /\ process[p].phase = "refreshing"
        /\ sent' = [sent EXCEPT ![t] = @ + 1]
        /\ UNCHANGED <<made, token, kept>>
        BY <1>2 DEF Refresh
  <2>2. t \in 1..made
    <3>1. process[p].secret \in Secrets /\ process[p].secret <= made
          BY <2>1, ConnectionsAssumption DEF RowTypes, Bounds
    <3> QED BY <3>1
  <2> HIDE DEF t
  <2>3. t \in Secrets /\ sent[t] \in Nat
        BY <1>0, <2>2
  <2>4. sent' \in [Secrets -> Nat]
        BY <2>1, <2>3
  <2>5. \A x \in Secrets : x > made => sent'[x] = sent[x]
        BY <1>0, <2>1, <2>2
  <2> QED BY <2>1, <2>4, <2>5
<1>3. ASSUME NEW p \in Processes, Refreshed(p) PROVE (TokenTypes /\ Issued)'
  <2> DEFINE t == token[process[p].secret]
  <2>1. /\ made' = made + 1 /\ sent' = sent
        /\ \/ kept' = kept
           \/ kept' = [kept EXCEPT ![t] = @ + 1]
        /\ \E n : token' = [token EXCEPT ![made + 1] = n]
        BY <1>3, RefreshedToken
  <2>2. /\ t \in 1..made /\ token'[made + 1] \in {made + 1, t} /\ made \in Nat
        /\ \A x \in 1..made : token'[x] \in 1..made
        /\ token' \in [Secrets -> Secrets \cup {NoSecret}] /\ kept' \in [Secrets -> Nat]
        BY <1>3, RefreshedOthers
  <2> HIDE DEF t
  <2>3. \A x \in Secrets : x > made + 1 => kept'[x] = kept[x] /\ token'[x] = token[x]
        BY <2>1, <2>2
  <2>4. \A x \in Secrets : x <= made' => x \in 1..made \/ x = made + 1
        BY <2>1, <2>2
  <2>5. ASSUME NEW x \in Secrets, x <= made' PROVE token'[x] \in 1..made'
    <3>1. CASE x \in 1..made
          BY <2>1, <2>2, <3>1
    <3>2. CASE x = made + 1
          BY <2>1, <2>2, <3>2
    <3> QED BY <2>4, <2>5, <3>1, <3>2
  <2>6. \A x \in Secrets : x > made' => token'[x] = NoSecret /\ sent'[x] = 0 /\ kept'[x] = 0
        BY <2>1, <2>2, <2>3
  <2> QED BY <2>1, <2>2, <2>5, <2>6
<1>4. CASE UNCHANGED <<made, token, sent, kept>>
      BY <1>4
<1> QED BY <1>1, <1>2, <1>3, <1>4, TokenSteps

\* Only a token in force is sent, since whoever sends it has the fence.
LEMMA ResentStep ==
  RowTypes /\ TokenTypes /\ Bounds /\ Issued /\ ActiveToken /\ TokenResentOnlyIfKept /\ [Next]_vars
    => TokenResentOnlyIfKept'
<1> SUFFICES ASSUME RowTypes, TokenTypes, Bounds, Issued, ActiveToken, TokenResentOnlyIfKept, [Next]_vars
             PROVE  TokenResentOnlyIfKept'
    OBVIOUS
<1>1. ASSUME NEW p \in Processes, Exchange(p) PROVE TokenResentOnlyIfKept'
      BY <1>1 DEF Exchange, TokenResentOnlyIfKept
<1>2. ASSUME NEW p \in Processes, Refresh(p) PROVE TokenResentOnlyIfKept'
  <2>1. account.secret = process[p].secret /\ account.secret # NoSecret
        BY <1>2 DEF Refresh, Account, Bounds, NoSecret
  <2>2. InForce(token[account.secret])
        BY <1>2, <2>1 DEF Refresh, Account, ActiveToken
  <2>3. sent' = [sent EXCEPT ![token[account.secret]] = @ + 1] /\ kept' = kept
        BY <1>2, <2>1 DEF Refresh
  <2> QED BY <2>2, <2>3 DEF InForce, TokenResentOnlyIfKept, TokenTypes
<1>3. ASSUME NEW p \in Processes, Refreshed(p) PROVE TokenResentOnlyIfKept'
      BY <1>3, RefreshedToken DEF TokenResentOnlyIfKept, TokenTypes
<1>4. CASE UNCHANGED <<made, token, sent, kept>>
      BY <1>4 DEF TokenResentOnlyIfKept
<1> QED BY <1>1, <1>2, <1>3, <1>4, TokenSteps

\* Who asks has the fence, and takes it.
LEMMA ActiveTokenStep == RowTypes /\ TokenTypes /\ Bounds /\ Guarded /\ Fences /\ Issued /\ NewTokens /\ ActiveToken /\ [Next]_vars => ActiveToken'
<1> SUFFICES ASSUME RowTypes, TokenTypes, Bounds, Guarded, Fences, Issued, NewTokens, ActiveToken, [Next]_vars PROVE ActiveToken'
    OBVIOUS
<1> USE ConnectionsAssumption DEF RowTypes, TokenTypes, Secrets, NoSecret, None, Bounds, Guarded, Fences, Refreshing, Issued, NewTokens, ActiveToken, InForce, rows, history
<1>1. ASSUME NEW f \in Flows, Begin(f) PROVE ActiveToken'
      BY <1>1 DEF Begin, Account
<1>2. ASSUME NEW p \in Processes, NEW f \in Flows, Consume(p, f) PROVE ActiveToken'
      BY <1>2 DEF Consume, Start
<1>3. ASSUME NEW p \in Processes, Exchange(p) PROVE ActiveToken'
      BY <1>3 DEF Exchange, Put, Proceed
<1>4. ASSUME NEW p \in Processes, Connect(p) PROVE ActiveToken'
      BY <1>4 DEF Connect, Connected, Account, Goto, Proceed, Back, Idle
<1>5. ASSUME NEW p \in Processes, ConnectFails(p) PROVE ActiveToken'
      BY <1>5 DEF ConnectFails, Goto, Proceed
<1>6. ASSUME NEW p \in Processes, Withdraw(p) PROVE ActiveToken'
      BY <1>6 DEF Withdraw, Back, Idle
<1>7. ASSUME NEW p \in Processes, FenceRefresh(p) PROVE ActiveToken'
      BY <1>7 DEF FenceRefresh, Start, Account
<1>8. ASSUME NEW p \in Processes, Refresh(p) PROVE ActiveToken'
      BY <1>8 DEF Refresh, Proceed, Account
<1>9. ASSUME NEW p \in Processes, Refreshed(p) PROVE ActiveToken'
  <2>1. /\ made' = made + 1 /\ UNCHANGED <<account, sent>>
        /\ process' = Proceed(p, "refreshed", process[p].secret, made + 1, process[p].guarded)
        BY <1>9, RefreshedToken
  <2>2. /\ account.secret # NoSecret => token'[account.secret] = token[account.secret]
                                       /\ token[account.secret] \in Secrets
        /\ \A t \in Secrets : kept[t] <= kept'[t] /\ kept'[t] \in Nat
    <3>1. account.secret # NoSecret => account.secret \in 1..made
          OBVIOUS
    <3> HIDE DEF RowTypes, TokenTypes, Bounds, Issued, Secrets
    <3> QED BY <1>9, <3>1, RefreshedOthers
  <2>3. ASSUME account.secret # NoSecret, InForce(token[account.secret])
        PROVE  sent'[token'[account'.secret]] <= kept'[token'[account'.secret]]
    <3>1. PICK t \in Secrets : t = token[account.secret] /\ token'[account'.secret] = t
          BY <2>1, <2>2, <2>3
    <3>2. sent[t] \in Nat /\ kept[t] \in Nat /\ kept'[t] \in Nat /\ sent[t] <= kept[t] /\ kept[t] <= kept'[t]
          BY <2>2, <2>3, <3>1
    <3>3. sent[t] <= kept'[t]
          BY <3>2
    <3> QED BY <2>1, <3>1, <3>3
  <2>4. \A q \in Processes : process'[q].phase = "refreshing" => process'[q] = process[q]
        BY <2>1 DEF Proceed
  <2>5. \A q \in Processes : process'[q].phase = "refreshing" => process'[q].revision = process[q].revision
                                                            /\ process[q].phase = "refreshing"
        BY <2>4
  <2> HIDE DEF RowTypes, TokenTypes, Bounds, Guarded, Fences, Issued, NewTokens
  <2> QED BY <2>1, <2>3, <2>5
<1>10. ASSUME NEW p \in Processes, CommitRefresh(p) PROVE ActiveToken'
      BY <1>10 DEF CommitRefresh, Proceed, Account
<1>11. ASSUME NEW p \in Processes, LoseSession(p) PROVE ActiveToken'
      BY <1>11 DEF LoseSession, Proceed
<1>12. ASSUME NEW p \in Processes, RefreshFails(p) PROVE ActiveToken'
      BY <1>12 DEF RefreshFails, Back, Idle
<1>13. ASSUME NEW p \in Processes, NEW x \in Secrets, Select(p, x) PROVE ActiveToken'
      BY <1>13 DEF Select, Proceed
<1>14. ASSUME NEW p \in Processes, Erase(p) PROVE ActiveToken'
      BY <1>14 DEF Erase, Goto, Proceed
<1>15. ASSUME NEW p \in Processes, Revoke(p) PROVE ActiveToken'
      BY <1>15 DEF Revoke, Start, Account
<1>16. ASSUME NEW p \in Processes, Disconnect(p) PROVE ActiveToken'
      BY <1>16 DEF Disconnect, Back, Idle
<1>17. ASSUME NEW p \in Processes, Leave(p) PROVE ActiveToken'
      BY <1>17 DEF Leave, Back, Idle
<1>18. CASE UNCHANGED vars
      BY <1>18 DEF vars
<1> QED BY <1>1, <1>2, <1>3, <1>4, <1>5, <1>6, <1>7, <1>8, <1>9, <1>10, <1>11, <1>12, <1>13, <1>14, <1>15, <1>16, <1>17, <1>18 DEF Next, Callback, Credential, Cleanup

\* A consent is made by an exchange only, a refreshed secret by a refresh.
LEMMA CarriersStay ==
  ASSUME RowTypes, Guarded, [Next]_vars, NEW q \in Processes
  PROVE  /\ process'[q].phase = "consented" => process'[q] = process[q] \/ Exchange(q)
         /\ process'[q].phase = "refreshed" /\ process'[q].guarded => process'[q] = process[q] \/ Refreshed(q)
<1> USE DEF RowTypes
<1>1. ASSUME NEW p \in Processes, Connect(p) \/ CommitRefresh(p) \/ LoseSession(p)
      PROVE  p = q => /\ process'[q].phase # "consented"
                      /\ process'[q].phase = "refreshed" => ~process'[q].guarded
  <2>1. CASE Connect(p)
        BY <2>1 DEF Connect, Connected, Goto, Proceed, Back, Idle
  <2>2. CASE CommitRefresh(p)
        BY <2>2 DEF CommitRefresh, Proceed
  <2>3. CASE LoseSession(p)
    <3>1. process[p].phase \in {"asking", "refreshed"}
          BY <2>3 DEF LoseSession, Guarded
    <3> QED BY <2>3, <3>1 DEF LoseSession, Proceed
  <2> QED BY <1>1, <2>1, <2>2, <2>3
<1>2. ASSUME NEW p \in Processes, Connect(p) \/ CommitRefresh(p) \/ LoseSession(p), p # q
      PROVE  process'[q] = process[q]
      BY <1>2 DEF Connect, Connected, CommitRefresh, LoseSession, Goto, Proceed, Back
<1>3. ASSUME NEW p \in Processes, Callback(p), ~Connect(p)
      PROVE  /\ process'[q].phase = "consented" => process'[q] = process[q] \/ Exchange(q)
             /\ process'[q].phase = "refreshed" => process'[q] = process[q]
      BY <1>3 DEF Callback, Consume, Exchange, ConnectFails, Withdraw, Start, Goto, Proceed, Back, Idle
<1>4. ASSUME NEW p \in Processes, Credential(p), ~CommitRefresh(p), ~LoseSession(p)
      PROVE  /\ process'[q].phase = "consented" => process'[q] = process[q]
             /\ process'[q].phase = "refreshed" => process'[q] = process[q] \/ Refreshed(q)
      BY <1>4 DEF Credential, FenceRefresh, Refresh, Refreshed, RefreshFails, Start, Proceed, Back, Idle
<1>5. ASSUME NEW p \in Processes, Cleanup(p) \/ Revoke(p) \/ Disconnect(p) \/ Leave(p)
      PROVE  process'[q].phase \in {"consented", "refreshed"} => process'[q] = process[q]
      BY <1>5 DEF Cleanup, Select, Erase, Revoke, Disconnect, Leave, Start, Goto, Proceed, Back, Idle
<1>6. ASSUME UNCHANGED process PROVE process'[q] = process[q]
      BY <1>6
<1> QED BY <1>1, <1>2, <1>3, <1>4, <1>5, <1>6 DEF Next, Begin, Callback, Credential, vars

\* The secret in use changes by a commit or by a disconnection.
LEMMA ActiveSteps ==
  [Next]_vars => \/ account'.secret \in {account.secret, NoSecret}
                 \/ \E p \in Processes : Connect(p) \/ CommitRefresh(p)
<1>1. ASSUME NEW f \in Flows, Begin(f) PROVE account'.secret \in {account.secret, NoSecret}
      BY <1>1 DEF Begin, Account
<1>2. ASSUME NEW p \in Processes, Callback(p), ~Connect(p) PROVE account' = account
      BY <1>2 DEF Callback, Consume, Exchange, ConnectFails, Withdraw, rows
<1>3. ASSUME NEW p \in Processes, Credential(p), ~CommitRefresh(p) PROVE account'.secret = account.secret
  <2>1. CASE FenceRefresh(p)
        BY <2>1 DEF FenceRefresh, Account
  <2> QED BY <1>3, <2>1 DEF Credential, Refresh, Refreshed, LoseSession, RefreshFails, rows
<1>4. ASSUME NEW p \in Processes, Cleanup(p) \/ Revoke(p) \/ Disconnect(p) \/ Leave(p)
      PROVE  account'.secret \in {account.secret, NoSecret}
  <2>1. CASE Revoke(p)
        BY <2>1 DEF Revoke, Account
  <2> QED BY <1>4, <2>1 DEF Cleanup, Select, Erase, Disconnect, Leave, rows
<1>5. ASSUME UNCHANGED vars PROVE account' = account
      BY <1>5 DEF vars, rows
<1> QED BY <1>1, <1>2, <1>3, <1>4, <1>5 DEF Next

\* What is about to be committed has a token that may be sent.
LEMMA NewTokensStep ==
  RowTypes /\ TokenTypes /\ Bounds /\ Guarded /\ Carriers /\ Issued /\ TokenResentOnlyIfKept /\ NewTokens /\ [Next]_vars
    => NewTokens'
<1> SUFFICES ASSUME RowTypes, TokenTypes, Bounds, Guarded, Carriers, Issued, TokenResentOnlyIfKept, NewTokens, [Next]_vars
             PROVE  NewTokens'
    OBVIOUS
<1>0. /\ made \in 0..MaxSecret /\ MaxSecret \in Nat /\ account.secret \in 0..made
      /\ \A q \in Processes : process[q].secret \in 0..made /\ process[q].new \in 0..made
      /\ \A q \in Processes : process[q].phase \in {"consented", "refreshed"} => process[q].new # 0
      /\ \A q \in Processes : process[q].phase \in {"refreshing", "asking", "refreshed"} => process[q].secret # 0
      BY ConnectionsAssumption DEF RowTypes, Bounds, Secrets, NoSecret
<1>1. CASE UNCHANGED <<made, token, sent, kept>>
  <2>1. ASSUME NEW q \in Processes
        PROVE  ~Exchange(q) /\ ~Refreshed(q)
    <3>1. Exchange(q) \/ Refreshed(q) => made' = made + 1
          BY DEF Exchange, Refreshed, Put
    <3> QED BY <1>0, <1>1, <3>1
  <2>2. ASSUME NEW q \in Processes, process'[q].phase = "consented", account'.secret # NoSecret
        PROVE  token[account'.secret] # process[q].new
    <3>1. process'[q] = process[q]
          BY <2>1, <2>2, CarriersStay
    <3>2. ASSUME NEW p \in Processes, Connect(p) PROVE token[account'.secret] # process[q].new
      <4>1. process[p].phase = "consented" /\ account'.secret = process[p].new /\ p # q
            BY <2>2, <3>2 DEF Connect, Connected, Account, Goto, Proceed, Back, Idle, RowTypes
      <4> QED BY <2>2, <3>1, <4>1 DEF NewTokens, Carriers, Carrying
    <3>3. ASSUME NEW p \in Processes, CommitRefresh(p) PROVE token[account'.secret] # process[q].new
      <4>1. process[p].phase = "refreshed" /\ process[p].guarded /\ account'.secret = process[p].new
            BY <3>3 DEF CommitRefresh, Account
      <4>2. account.secret = process[p].secret /\ account.secret # NoSecret /\ process[p].new # process[q].new
            BY <1>0, <2>2, <3>1, <4>1 DEF Guarded, Carriers, Carrying, NoSecret
      <4> QED BY <2>2, <3>1, <4>1, <4>2 DEF NewTokens
    <3> QED BY <2>2, <3>1, <3>2, <3>3, ActiveSteps DEF NewTokens
  <2> QED BY <1>1, <2>1, <2>2, CarriersStay DEF NewTokens, InForce
<1>2. ASSUME NEW p \in Processes, Exchange(p) PROVE NewTokens'
  <2>1. /\ process[p].phase = "exchanging" /\ made < MaxSecret /\ made' = made + 1
        /\ token' = [token EXCEPT ![made + 1] = made + 1]
        /\ process' = Proceed(p, "consented", NoSecret, made + 1, FALSE)
        /\ UNCHANGED <<account, sent, kept>>
        BY <1>2 DEF Exchange, Put, rows
  <2>2. /\ \A x \in 0..made : x # 0 => token'[x] = token[x] /\ token[x] \in 1..made
        /\ token'[made + 1] = made + 1 /\ sent[made + 1] = 0
        BY <1>0, <2>1 DEF Issued, TokenTypes, Secrets
  <2>3. /\ process'[p].new = made + 1 /\ process'[p].phase = "consented" /\ process'[p].guarded = FALSE
        /\ \A q \in Processes : q # p => process'[q] = process[q]
        BY <2>1 DEF Proceed, RowTypes
  <2>4. ASSUME NEW q \in Processes, process'[q].phase = "consented"
        PROVE  /\ token'[process'[q].new] = process'[q].new /\ sent'[process'[q].new] = 0
               /\ account'.secret # NoSecret => token'[account'.secret] # process'[q].new
    <3>1. CASE q = p
      <4>1. account.secret # NoSecret => token'[account.secret] \in 1..made
            BY <1>0, <2>2 DEF NoSecret
      <4>2. account.secret # NoSecret => token'[account.secret] # made + 1
            BY <1>0, <4>1
      <4> QED BY <2>1, <2>2, <2>3, <3>1, <4>2
    <3>2. CASE q # p
      <4>1. process'[q] = process[q] /\ process[q].new # 0
            BY <1>0, <2>3, <2>4, <3>2
      <4>2. /\ token'[process[q].new] = token[process[q].new]
            /\ account.secret # NoSecret => token'[account.secret] = token[account.secret]
            BY <1>0, <2>2, <4>1 DEF NoSecret
      <4> QED BY <2>1, <2>4, <4>1, <4>2 DEF NewTokens
    <3> QED BY <3>1, <3>2
  <2>5. ASSUME NEW q \in Processes, process'[q].phase = "refreshed", process'[q].guarded
        PROVE  /\ token'[process'[q].new] \in {process'[q].new, token'[process'[q].secret]}
               /\ sent'[token'[process'[q].new]] <= kept'[token'[process'[q].new]]
    <3>1. process'[q] = process[q]
          BY <2>3, <2>5
    <3>2. /\ token'[process[q].new] = token[process[q].new]
          /\ token'[process[q].secret] = token[process[q].secret]
          BY <1>0, <2>2, <2>5, <3>1
    <3> QED BY <2>1, <2>5, <3>1, <3>2 DEF NewTokens, InForce
  <2> QED BY <2>4, <2>5 DEF NewTokens, InForce
<1>3. ASSUME NEW p \in Processes, Refresh(p) PROVE NewTokens'
  <2>1. /\ process[p].phase = "refreshing" /\ process[p].secret = account.secret
        /\ \A q \in Processes : ~process[q].guarded
        /\ sent' = [sent EXCEPT ![token[account.secret]] = @ + 1]
        /\ process' = Proceed(p, "asking", process[p].secret, NoSecret, TRUE)
        /\ UNCHANGED <<account, token, kept>>
        BY <1>3 DEF Refresh, RowFree, Account, rows
  <2>2. /\ process'[p].phase = "asking"
        /\ \A q \in Processes : q # p => process'[q] = process[q]
        BY <2>1 DEF Proceed, RowTypes
  <2>3. \A x \in Secrets : x # token[account.secret] => sent'[x] = sent[x]
        BY <2>1 DEF TokenTypes
  <2>4. \A q \in Processes : ~(process'[q].phase = "refreshed" /\ process'[q].guarded)
        BY <2>1, <2>2
  <2>5. ASSUME NEW q \in Processes, process'[q].phase = "consented"
        PROVE  /\ token'[process'[q].new] = process'[q].new /\ sent'[process'[q].new] = 0
               /\ account'.secret # NoSecret => token'[account'.secret] # process'[q].new
    <3>1. process'[q] = process[q] /\ account.secret # NoSecret /\ process[q].new \in Secrets
      <4>1. q # p /\ process'[q] = process[q]
            BY <2>2, <2>5
      <4>2. process[q].new \in 0..made /\ process[q].new # 0 /\ account.secret # 0
            BY <1>0, <2>1, <2>5, <4>1
      <4> QED BY <1>0, <4>1, <4>2 DEF Secrets, NoSecret
    <3> QED BY <2>1, <2>3, <2>5, <3>1 DEF NewTokens
  <2> QED BY <2>4, <2>5 DEF NewTokens
<1>4. ASSUME NEW p \in Processes, Refreshed(p) PROVE NewTokens'
  <2> DEFINE old == token[process[p].secret]
  <2>1. /\ process[p].phase = "asking" /\ made < MaxSecret /\ made' = made + 1
        /\ process' = Proceed(p, "refreshed", process[p].secret, made + 1, process[p].guarded)
        /\ UNCHANGED <<account, sent>>
        /\ \/ token' = [token EXCEPT ![made + 1] = made + 1] /\ kept' = kept
           \/ token' = [token EXCEPT ![made + 1] = old] /\ kept' = [kept EXCEPT ![old] = @ + 1]
        BY <1>4, RefreshedToken
  <2>2. /\ made + 1 \in Secrets /\ process[p].secret \in 1..made
        /\ old \in 1..made /\ old \in Secrets
        /\ token'[made + 1] \in {made + 1, old}
        /\ \A t \in Secrets : kept[t] <= kept'[t] /\ kept'[t] \in Nat
        BY <1>4, RefreshedOthers
  <2>3. \A x \in 1..made : token'[x] = token[x] /\ token[x] \in 1..made /\ x \in Secrets
        BY <1>4, RefreshedOthers
  <2> HIDE DEF old
  <2>4. /\ process'[p].new = made + 1 /\ process'[p].phase = "refreshed" /\ process'[p].secret = process[p].secret
        /\ process'[p].guarded = process[p].guarded
        /\ \A q \in Processes : q # p => process'[q] = process[q]
        BY <2>1 DEF Proceed, RowTypes
  <2>5. token'[made + 1] \in {made + 1, old} /\ token'[process[p].secret] = old
        BY <2>2, <2>3 DEF old
  <2>6. sent[token'[made + 1]] <= kept'[token'[made + 1]]
    <3>1. CASE token' = [token EXCEPT ![made + 1] = made + 1] /\ kept' = kept
      <4>1. token'[made + 1] = made + 1 /\ sent[made + 1] = 0 /\ kept[made + 1] = 0
            BY <1>0, <2>2, <3>1 DEF TokenTypes, Issued
      <4> QED BY <3>1, <4>1
    <3>2. CASE token' = [token EXCEPT ![made + 1] = old] /\ kept' = [kept EXCEPT ![old] = @ + 1]
      <4>1. token'[made + 1] = old /\ kept'[old] = kept[old] + 1 /\ sent[old] <= kept[old] + 1
            BY <2>2, <3>2 DEF TokenTypes, TokenResentOnlyIfKept
      <4> QED BY <4>1
    <3> QED BY <2>1, <3>1, <3>2
  <2>7. \A q \in Processes : q # p /\ process[p].guarded => ~process[q].guarded
        BY DEF Guarded
  <2>8. \A q \in Processes : q # p /\ process[q].guarded /\ process[q].phase = "refreshed"
          => /\ token'[process[q].new] = token[process[q].new] /\ token'[process[q].secret] = token[process[q].secret]
             /\ token[process[q].new] \in Secrets
             /\ kept[token[process[q].new]] <= kept'[token[process[q].new]]
    <3>1. \A q \in Processes : process[q].phase = "refreshed" => process[q].new \in 1..made /\ process[q].secret \in 1..made
          BY <1>0
    <3> QED BY <2>2, <2>3, <3>1
  <2>9. ASSUME NEW q \in Processes, process'[q].phase = "consented"
        PROVE  /\ token'[process'[q].new] = process'[q].new /\ sent'[process'[q].new] = 0
               /\ account'.secret # NoSecret => token'[account'.secret] # process'[q].new
        BY <1>0, <2>1, <2>3, <2>4, <2>9 DEF NewTokens, NoSecret
  <2>10. ASSUME NEW q \in Processes, process'[q].phase = "refreshed", process'[q].guarded
         PROVE  /\ token'[process'[q].new] \in {process'[q].new, token'[process'[q].secret]}
                /\ sent'[token'[process'[q].new]] <= kept'[token'[process'[q].new]]
    <3>1. CASE q = p
          BY <2>1, <2>4, <2>5, <2>6, <3>1
    <3>2. CASE q # p
          BY <2>1, <2>4, <2>8, <2>10, <3>2 DEF NewTokens, InForce, TokenTypes
    <3> QED BY <3>1, <3>2
  <2> QED BY <2>9, <2>10 DEF NewTokens, InForce
<1> QED BY <1>1, <1>2, <1>3, <1>4, TokenSteps

\* A secret keeps the consent it stems from.
LEMMA OriginsStep == RowTypes /\ Bounds /\ Begun /\ Origins /\ [Next]_vars => Origins'
<1> SUFFICES ASSUME RowTypes, Bounds, Begun, Origins, [Next]_vars PROVE Origins'
    OBVIOUS
<1> USE ConnectionsAssumption DEF RowTypes, Secrets, NoSecret, None, Bounds, Begun, Origins, rows, history
<1>1. ASSUME NEW f \in Flows, Begin(f) PROVE Origins'
      BY <1>1 DEF Begin, Account
<1>2. ASSUME NEW p \in Processes, NEW f \in Flows, Consume(p, f) PROVE Origins'
      BY <1>2 DEF Consume, Start, Consumed
<1>3. ASSUME NEW p \in Processes, Exchange(p) PROVE Origins'
      BY <1>3 DEF Exchange, Put, Proceed
<1>4. ASSUME NEW p \in Processes, Connect(p) PROVE Origins'
  <2>1. /\ process[p].phase = "consented" /\ account.revision < MaxRevision
        /\ account.revision = flow[process[p].flow].expected
        /\ account' = Account("connected", account.revision + 1, process[p].new)
        /\ UNCHANGED <<flow, vault, made, origin, revoked, token, sent, kept>>
        BY <1>4 DEF Connect, Connected
  <2>2. retired' = [x \in Secrets |-> IF x = account.secret /\ x # NoSecret /\ retired[x] = "none"
                                    THEN "queued" ELSE retired[x]]
        BY <1>4 DEF Connect, Connected, Retire
  <2>3. CASE process' = Back(p)
        BY <2>1, <2>2, <2>3 DEF Account, Back, Idle
  <2>4. CASE process' = Goto(p, "cleaning")
        BY <2>1, <2>2, <2>4 DEF Account, Goto, Proceed
  <2>5. CASE process' = Goto(p, "withdrawing")
        BY <2>1, <2>2, <2>5 DEF Account, Goto, Proceed
  <2> QED BY <1>4, <2>3, <2>4, <2>5 DEF Connect, Connected
<1>5. ASSUME NEW p \in Processes, ConnectFails(p) PROVE Origins'
      BY <1>5 DEF ConnectFails, Goto, Proceed
<1>6. ASSUME NEW p \in Processes, Withdraw(p) PROVE Origins'
      BY <1>6 DEF Withdraw, Back, Idle
<1>7. ASSUME NEW p \in Processes, FenceRefresh(p) PROVE Origins'
      BY <1>7 DEF FenceRefresh, Start, Account
<1>8. ASSUME NEW p \in Processes, Refresh(p) PROVE Origins'
      BY <1>8 DEF Refresh, Proceed, Account
<1>9. ASSUME NEW p \in Processes, Refreshed(p) PROVE Origins'
  <2>1. /\ process[p].phase = "asking" /\ made < MaxSecret /\ made' = made + 1
        /\ vault' = vault \cup {made + 1}
        /\ origin' = [origin EXCEPT ![made + 1] = origin[process[p].secret]]
        /\ process' = Proceed(p, "refreshed", process[p].secret, made + 1, process[p].guarded)
        /\ UNCHANGED <<account, flow, retired, revoked>>
        BY <1>9 DEF Refreshed, Put
  <2> QED BY <2>1 DEF Proceed
<1>10. ASSUME NEW p \in Processes, CommitRefresh(p) PROVE Origins'
      BY <1>10 DEF CommitRefresh, Retire, Proceed, Account
<1>11. ASSUME NEW p \in Processes, LoseSession(p) PROVE Origins'
      BY <1>11 DEF LoseSession, Proceed
<1>12. ASSUME NEW p \in Processes, RefreshFails(p) PROVE Origins'
      BY <1>12 DEF RefreshFails, Back, Idle
<1>13. ASSUME NEW p \in Processes, NEW x \in Secrets, Select(p, x) PROVE Origins'
      BY <1>13 DEF Select, Proceed
<1>14. ASSUME NEW p \in Processes, Erase(p) PROVE Origins'
      BY <1>14 DEF Erase, Goto, Proceed
<1>15. ASSUME NEW p \in Processes, Revoke(p) PROVE Origins'
      BY <1>15 DEF Revoke, Start, Account, Consumed
<1>16. ASSUME NEW p \in Processes, Disconnect(p) PROVE Origins'
      BY <1>16 DEF Disconnect, Back, Idle
<1>17. ASSUME NEW p \in Processes, Leave(p) PROVE Origins'
      BY <1>17 DEF Leave, Back, Idle
<1>18. CASE UNCHANGED vars
      BY <1>18 DEF vars
<1> QED BY <1>1, <1>2, <1>3, <1>4, <1>5, <1>6, <1>7, <1>8, <1>9, <1>10, <1>11, <1>12, <1>13, <1>14, <1>15, <1>16, <1>17, <1>18 DEF Next, Callback, Credential, Cleanup

\* What is committed was begun after the last disconnection.
LEMMA RevocationStep == RowTypes /\ Bounds /\ Begun /\ Guarded /\ Origins /\ RevocationWins /\ [Next]_vars => RevocationWins'
<1> SUFFICES ASSUME RowTypes, Bounds, Begun, Guarded, Origins, RevocationWins, [Next]_vars PROVE RevocationWins'
    OBVIOUS
<1> USE ConnectionsAssumption DEF RowTypes, Secrets, NoSecret, None, Bounds, Begun, Guarded, Origins, RevocationWins, rows, history
<1>1. ASSUME NEW f \in Flows, Begin(f) PROVE RevocationWins'
      BY <1>1 DEF Begin, Account
<1>2. ASSUME NEW p \in Processes, NEW f \in Flows, Consume(p, f) PROVE RevocationWins'
      BY <1>2 DEF Consume, Start, Consumed
<1>3. ASSUME NEW p \in Processes, Exchange(p) PROVE RevocationWins'
      BY <1>3 DEF Exchange, Put, Proceed
<1>4. ASSUME NEW p \in Processes, Connect(p) PROVE RevocationWins'
      BY <1>4 DEF Connect, Connected, Account, Goto, Proceed, Back, Idle, Retire
<1>5. ASSUME NEW p \in Processes, ConnectFails(p) PROVE RevocationWins'
      BY <1>5 DEF ConnectFails, Goto, Proceed
<1>6. ASSUME NEW p \in Processes, Withdraw(p) PROVE RevocationWins'
      BY <1>6 DEF Withdraw, Back, Idle
<1>7. ASSUME NEW p \in Processes, FenceRefresh(p) PROVE RevocationWins'
      BY <1>7 DEF FenceRefresh, Start, Account
<1>8. ASSUME NEW p \in Processes, Refresh(p) PROVE RevocationWins'
      BY <1>8 DEF Refresh, Proceed, Account
<1>9. ASSUME NEW p \in Processes, Refreshed(p) PROVE RevocationWins'
  <2>1. /\ process[p].phase = "asking" /\ made < MaxSecret /\ made' = made + 1
        /\ vault' = vault \cup {made + 1}
        /\ origin' = [origin EXCEPT ![made + 1] = origin[process[p].secret]]
        /\ process' = Proceed(p, "refreshed", process[p].secret, made + 1, process[p].guarded)
        /\ UNCHANGED <<account, flow, retired, revoked>>
        BY <1>9 DEF Refreshed, Put
  <2> QED BY <2>1 DEF Proceed
<1>10. ASSUME NEW p \in Processes, CommitRefresh(p) PROVE RevocationWins'
      BY <1>10 DEF CommitRefresh, Retire, Proceed, Account
<1>11. ASSUME NEW p \in Processes, LoseSession(p) PROVE RevocationWins'
      BY <1>11 DEF LoseSession, Proceed
<1>12. ASSUME NEW p \in Processes, RefreshFails(p) PROVE RevocationWins'
      BY <1>12 DEF RefreshFails, Back, Idle
<1>13. ASSUME NEW p \in Processes, NEW x \in Secrets, Select(p, x) PROVE RevocationWins'
      BY <1>13 DEF Select, Proceed
<1>14. ASSUME NEW p \in Processes, Erase(p) PROVE RevocationWins'
      BY <1>14 DEF Erase, Goto, Proceed
<1>15. ASSUME NEW p \in Processes, Revoke(p) PROVE RevocationWins'
      BY <1>15 DEF Revoke, Start, Account, Consumed
<1>16. ASSUME NEW p \in Processes, Disconnect(p) PROVE RevocationWins'
      BY <1>16 DEF Disconnect, Back, Idle
<1>17. ASSUME NEW p \in Processes, Leave(p) PROVE RevocationWins'
      BY <1>17 DEF Leave, Back, Idle
<1>18. CASE UNCHANGED vars
      BY <1>18 DEF vars
<1> QED BY <1>1, <1>2, <1>3, <1>4, <1>5, <1>6, <1>7, <1>8, <1>9, <1>10, <1>11, <1>12, <1>13, <1>14, <1>15, <1>16, <1>17, <1>18 DEF Next, Callback, Credential, Cleanup

\* Unless the answer to a commit is lost, nothing in use is erased.
LEMMA StoredStep == CommitAnswered /\ RowTypes /\ Bounds /\ Guarded /\ Carriers /\ Stored /\ [Next]_vars => Stored'
<1> SUFFICES ASSUME CommitAnswered, RowTypes, Bounds, Guarded, Carriers, Stored, [Next]_vars PROVE Stored'
    OBVIOUS
<1> USE ConnectionsAssumption DEF RowTypes, Secrets, NoSecret, None, Bounds, Guarded, Carriers, Carrying, Stored, ActiveSecretStored, Doomed, rows, history
<1>1. ASSUME NEW f \in Flows, Begin(f) PROVE Stored'
      BY <1>1 DEF Begin, Account
<1>2. ASSUME NEW p \in Processes, NEW f \in Flows, Consume(p, f) PROVE Stored'
      BY <1>2 DEF Consume, Start, Consumed
<1>3. ASSUME NEW p \in Processes, Exchange(p) PROVE Stored'
      BY <1>3 DEF Exchange, Put, Proceed
<1>4. ASSUME NEW p \in Processes, Connect(p) PROVE Stored'
  <2>1. /\ process[p].phase = "consented" /\ account.revision < MaxRevision
        /\ account.revision = flow[process[p].flow].expected
        /\ account' = Account("connected", account.revision + 1, process[p].new)
        /\ UNCHANGED <<flow, vault, made, origin, revoked, token, sent, kept>>
        BY <1>4 DEF Connect, Connected
  <2>2. retired' = [x \in Secrets |-> IF x = account.secret /\ x # NoSecret /\ retired[x] = "none"
                                    THEN "queued" ELSE retired[x]]
        BY <1>4 DEF Connect, Connected, Retire
  <2>3. CASE process' = Back(p)
        BY <2>1, <2>2, <2>3 DEF Account, Back, Idle
  <2>4. CASE process' = Goto(p, "cleaning")
        BY <2>1, <2>2, <2>4 DEF Account, Goto, Proceed
  <2> QED BY <1>4, <2>3, <2>4 DEF Connect, Connected
<1>5. ASSUME NEW p \in Processes, ConnectFails(p) PROVE Stored'
      BY <1>5 DEF ConnectFails, Goto, Proceed
<1>6. ASSUME NEW p \in Processes, Withdraw(p) PROVE Stored'
      BY <1>6 DEF Withdraw, Back, Idle
<1>7. ASSUME NEW p \in Processes, FenceRefresh(p) PROVE Stored'
      BY <1>7 DEF FenceRefresh, Start, Account
<1>8. ASSUME NEW p \in Processes, Refresh(p) PROVE Stored'
      BY <1>8 DEF Refresh, Proceed, Account
<1>9. ASSUME NEW p \in Processes, Refreshed(p) PROVE Stored'
  <2>1. /\ process[p].phase = "asking" /\ made < MaxSecret /\ made' = made + 1
        /\ vault' = vault \cup {made + 1}
        /\ origin' = [origin EXCEPT ![made + 1] = origin[process[p].secret]]
        /\ process' = Proceed(p, "refreshed", process[p].secret, made + 1, process[p].guarded)
        /\ UNCHANGED <<account, flow, retired, revoked>>
        BY <1>9 DEF Refreshed, Put
  <2> QED BY <2>1 DEF Proceed
<1>10. ASSUME NEW p \in Processes, CommitRefresh(p) PROVE Stored'
      BY <1>10 DEF CommitRefresh, Retire, Proceed, Account
<1>11. ASSUME NEW p \in Processes, LoseSession(p) PROVE Stored'
      BY <1>11 DEF LoseSession, Proceed
<1>12. ASSUME NEW p \in Processes, RefreshFails(p) PROVE Stored'
      BY <1>12 DEF RefreshFails, Back, Idle
<1>13. ASSUME NEW p \in Processes, NEW x \in Secrets, Select(p, x) PROVE Stored'
      BY <1>13 DEF Select, Proceed
<1>14. ASSUME NEW p \in Processes, Erase(p) PROVE Stored'
      BY <1>14 DEF Erase, Goto, Proceed
<1>15. ASSUME NEW p \in Processes, Revoke(p) PROVE Stored'
      BY <1>15 DEF Revoke, Start, Account, Consumed
<1>16. ASSUME NEW p \in Processes, Disconnect(p) PROVE Stored'
      BY <1>16 DEF Disconnect, Back, Idle
<1>17. ASSUME NEW p \in Processes, Leave(p) PROVE Stored'
      BY <1>17 DEF Leave, Back, Idle
<1>18. CASE UNCHANGED vars
      BY <1>18 DEF vars
<1> QED BY <1>1, <1>2, <1>3, <1>4, <1>5, <1>6, <1>7, <1>8, <1>9, <1>10, <1>11, <1>12, <1>13, <1>14, <1>15, <1>16, <1>17, <1>18 DEF Next, Callback, Credential, Cleanup


-----------------------------------------------------------------------------
(* The theorems.                                                            *)

\* Initially nothing is connected and nothing is stored.
LEMMA InitIInv == Init => IInv /\ Stored
<1> SUFFICES ASSUME Init PROVE IInv /\ Stored
    OBVIOUS
<1> USE ConnectionsAssumption DEF Init, Account, Idle, Secrets, NoSecret, None
<1>1. TypeOK
      BY DEF TypeOK, RowTypes, TokenTypes
<1>2. Bounds /\ Begun /\ Guarded
      BY DEF Bounds, Begun, Guarded
<1>3. Fences /\ Carriers /\ Issued /\ Tokens /\ Origins /\ RevocationWins
      BY DEF Fences, Refreshing, Carriers, Carrying, Tokens, TokenResentOnlyIfKept, Issued, ActiveToken, NewTokens, InForce,
             Origins, RevocationWins
<1>4. Stored
      BY DEF Stored, ActiveSecretStored, Carrying, Doomed
<1> QED BY <1>1, <1>2, <1>3, <1>4 DEF IInv

LEMMA Step == IInv /\ [Next]_vars => IInv'
BY TypeStep, BoundsStep, BegunStep, GuardedStep, FencesStep, CarriersStep, OriginsStep, RevocationStep,
   IssuedStep, ResentStep, ActiveTokenStep, NewTokensStep DEF IInv, TypeOK, Tokens

LEMMA Invariant == Spec => []IInv
<1>1. Init => IInv
      BY InitIInv
<1> QED BY <1>1, Step, PTL DEF Spec

\* The shape of the account's row, of the vault and of the processes, after any
\* callbacks, refreshes, cleanups and crashes (connections.py:22-27).
THEOREM TypeCorrect == Spec => []TypeOK
<1>1. IInv => TypeOK
      BY DEF IInv
<1> QED BY <1>1, Invariant, PTL

\* However many processes refresh, fail and restart, and whichever tokens the endpoint
\* leaves in force: a refresh token is sent again only after every request with it was
\* answered and let it stand (connections.py:202-214).
THEOREM TokensResentOnlyIfKept == Spec => []TokenResentOnlyIfKept
<1>1. IInv => TokenResentOnlyIfKept
      BY DEF IInv, Tokens
<1> QED BY <1>1, Invariant, PTL

\* What is in use never stems from a consent begun before the last disconnection
\* (connections.py:177, 209-211, 254-256).
THEOREM DisconnectionWins == Spec => []RevocationWins
<1>1. IInv => RevocationWins
      BY DEF IInv
<1> QED BY <1>1, Invariant, PTL

\* As long as no answer to a callback's commit is lost, the secret in use is in the
\* vault (connections.py:184, 217-218, 243).
THEOREM ActiveSecretKept == ASSUME CommitAnswered PROVE Spec => []ActiveSecretStored
<1>1. Init => IInv /\ Stored
      BY InitIInv
<1>2. IInv /\ Stored /\ [Next]_vars => (IInv /\ Stored)'
      BY CommitAnswered, Step, StoredStep DEF IInv, TypeOK
<1>3. IInv /\ Stored => ActiveSecretStored
      BY DEF Stored
<1> QED BY <1>1, <1>2, <1>3, PTL DEF Spec

=============================================================================
