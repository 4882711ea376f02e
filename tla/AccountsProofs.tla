--------------------------- MODULE AccountsProofs ---------------------------
(***************************************************************************)
(* Theorems of ClaudeTokens, CodexHome and Pauses, for every number of     *)
(* jobs, processes, tokens, logins and users, and any choice of windows.   *)
(***************************************************************************)
EXTENDS ClaudeTokens, CodexHome, Pauses, TLAPS

(***************************************************************************)
(* Shapes and ranges.  TokensTypeOK gives the ranges its properties read;  *)
(* inductively the copies and the locked login are in range as well.       *)
(***************************************************************************)
IsAccount(r) == /\ DOMAIN r = {"row", "login", "pair"}
                /\ r.row \in 0..form.login /\ r.login \in 0..form.login /\ r.pair \in 0..issued
IsRun(r) == /\ DOMAIN r = {"at", "worker", "leader", "copy", "login", "pair", "end"}
            /\ IsAccount(r.copy)
            /\ r.login \in 0..form.login /\ r.pair \in 0..issued

Shape ==
  /\ issued \in 0..MaxPairs
  /\ live \subseteq 1..issued /\ stale \subseteq 1..issued
  /\ DOMAIN form = {"at", "row", "login", "pair"}
  /\ form.row \in 0..form.login /\ form.login \in 0..MaxLogins /\ form.pair \in 0..issued
  /\ IsAccount(account)
  /\ rowLock \in Jobs \cup {Nobody} /\ refreshing \subseteq Jobs
  /\ run = [j \in Jobs |-> run[j]]
  /\ \A j \in Jobs : IsRun(run[j])

LEMMA ShapeInit == TokensInit => Shape
BY TokensAssumption DEF TokensInit, Shape, IsAccount, IsRun, Unconnected, NewRun

\* Most steps only move one job on, and touch neither form nor issuer.
LEMMA ShapeGo ==
  ASSUME Shape, NEW j \in Jobs, NEW r, IsRun(r), GoTo(j, r), IsAccount(account'),
         rowLock' \in Jobs \cup {Nobody}, refreshing' \subseteq Jobs,
         live' \subseteq live, UNCHANGED <<form, issued, stale>>
  PROVE  Shape'
BY DEF Shape, GoTo, IsRun, IsAccount

LEMMA ShapeStep == Shape /\ [TokensNext]_tokensVars => Shape'
<1> SUFFICES ASSUME Shape, [TokensNext]_tokensVars PROVE Shape'
  OBVIOUS
<1> USE TokensAssumption
<1>0. /\ \A j \in Jobs : IsRun(run[j])
      /\ IsAccount(account) /\ IsAccount(Unconnected)
      /\ rowLock \in Jobs \cup {Nobody} /\ refreshing \subseteq Jobs
  BY DEF Shape, IsAccount, Unconnected
<1>1. CASE UNCHANGED tokensVars
  BY <1>1 DEF tokensVars, Shape, IsRun, IsAccount
<1>2. ASSUME NEW j \in Jobs, NEW w \in Workers, ReadAccount(j, w)
      PROVE  Shape'
  <2> DEFINE r == [NewRun EXCEPT !.at = "read", !.worker = w, !.copy = account]
  <2>1. IsRun(r)
    BY <1>0 DEF IsRun, NewRun, Shape
  <2> QED BY <1>0, <1>2, <2>1, ShapeGo DEF ReadAccount
<1>3. ASSUME NEW j \in Jobs, FreshToken(j)
      PROVE  Shape'
  <2>1. IsRun([NewRun EXCEPT !.at = "running", !.pair = run[j].copy.pair])
    BY <1>0 DEF IsRun, NewRun, IsAccount, Unconnected, Shape
  <2>2. \A k : IsRun([run[j] EXCEPT !.at = "joined", !.leader = k])
    BY <1>0 DEF IsRun
  <2>3. IsRun([run[j] EXCEPT !.at = "lock"])
    BY <1>0 DEF IsRun
  <2> QED BY <1>0, <1>3, <2>1, <2>2, <2>3, ShapeGo DEF FreshToken
<1>4. ASSUME NEW j \in Jobs, LockRow(j)
      PROVE  Shape'
  <2>1. ASSUME NEW now, IsAccount(now)
        PROVE  /\ IsRun([run[j] EXCEPT !.at = "exchange", !.login = now.login, !.pair = now.pair])
               /\ IsRun([run[j] EXCEPT !.at = "settle", !.pair = now.pair, !.end = "running"])
    BY <1>0, <2>1 DEF IsRun, IsAccount
  <2>2. IsAccount(run[j].copy)
    BY <1>0 DEF IsRun
  <2> QED BY <1>0, <1>4, <2>1, <2>2, ShapeGo DEF LockRow
<1>5. ASSUME NEW j \in Jobs, Exchange(j)
      PROVE  Shape'
  BY <1>5 DEF Exchange, GoTo, Shape, IsRun, IsAccount
<1>6. ASSUME NEW j \in Jobs, Refused(j) \/ ExchangeFails(j) \/ UpdateFails(j)
      PROVE  Shape'
  <2>1. \A e : IsRun([run[j] EXCEPT !.at = "settle", !.end = e])
    BY <1>0 DEF IsRun
  <2>2. live' \subseteq live
    BY <1>6 DEF Refused, ExchangeFails, UpdateFails
  <2> QED BY <1>0, <1>6, <2>1, <2>2, ShapeGo DEF Refused, ExchangeFails, UpdateFails, Unlock
<1>7. ASSUME NEW j \in Jobs, UpdateRow(j)
      PROVE  Shape'
  <2>1. IsRun([run[j] EXCEPT !.at = "settle", !.end = "running"])
    BY <1>0 DEF IsRun
  <2>2. IsAccount([account EXCEPT !.login = run[j].login, !.pair = run[j].pair])
    BY <1>0 DEF IsRun, IsAccount
  <2> QED BY <1>0, <1>7, <2>1, <2>2, ShapeGo DEF UpdateRow, Unlock, IsAccount
<1>8. ASSUME NEW j \in Jobs, RefreshSettles(j)
      PROVE  Shape'
  <2>1. IsRun(Answer(run[j].end, run[j].pair))
    BY <1>0 DEF IsRun, Answer, NewRun, IsAccount, Unconnected, Shape
  <2> QED BY <1>0, <1>8, <2>1 DEF RefreshSettles, Shape, IsRun, IsAccount
<1>9. ASSUME NEW j \in Jobs, AttemptEnds(j)
      PROVE  Shape'
  <2>1. IsRun(NewRun)
    BY <1>0 DEF IsRun, NewRun, Shape
  <2> QED BY <1>0, <1>9, <2>1, ShapeGo DEF AttemptEnds
<1>10. ASSUME NEW key \in BOOLEAN, Authorize(key)
       PROVE  Shape'
  BY <1>10 DEF Authorize, Shape, IsRun, IsAccount
<1>11. CASE LookForRow
  BY <1>11 DEF LookForRow, Shape, IsRun, IsAccount
<1>12. CASE SaveRow
  BY <1>12 DEF SaveRow, Shape, IsRun, IsAccount
<1>13. CASE Disconnect
  BY <1>0, <1>13 DEF Disconnect, Shape, IsRun, IsAccount
<1>14. ASSUME NEW p \in 1..issued, GoesStale(p)
       PROVE  Shape'
  BY <1>14 DEF GoesStale, Shape, IsRun, IsAccount
<1>15. ASSUME NEW w \in Workers, WorkerDies(w)
       PROVE  Shape'
  <2>1. IsRun(NewRun)
    BY <1>0 DEF IsRun, NewRun, Shape
  <2> QED BY <1>0, <1>15, <2>1 DEF WorkerDies, Shape, IsRun, IsAccount
<1>16. CASE TokensNext
  BY <1>2, <1>3, <1>4, <1>5, <1>6, <1>7, <1>8, <1>9, <1>10, <1>11, <1>12, <1>13, <1>14, <1>15,
     <1>16 DEF TokensNext, Refresh
<1> QED BY <1>1, <1>16

(* The ranges of the row, the form, the issuer and the jobs' copies hold in    *)
(* every state (llmAccounts.js).                                               *)
THEOREM TokensTypes == TokensSpec => []TokensTypeOK
<1>1. Shape => TokensTypeOK
  BY DEF Shape, TokensTypeOK, IsAccount, IsRun
<1> QED BY <1>1, ShapeInit, ShapeStep, PTL DEF TokensSpec

(***************************************************************************)
(* Waiting.  NobodyWaitsInVain is inductive once a refresh that settles    *)
(* has an end to give to those who share it.                               *)
(***************************************************************************)
Ends == {"running", "failed", "refused"}
Refreshes == {"lock", "exchange", "update", "settle"}

WaitInv == /\ Shape
           /\ NobodyWaitsInVain
           /\ \A j \in Jobs : run[j].at = "settle" => run[j].end \in Ends

LEMMA WaitInit == TokensInit => WaitInv
BY ShapeInit DEF TokensInit, WaitInv, NobodyWaitsInVain, NewRun

\* Only the shape of run matters here.
LEMMA RunShape ==
  ASSUME Shape
  PROVE  /\ run = [j \in Jobs |-> run[j]]
         /\ \A j \in Jobs :
              DOMAIN run[j] = {"at", "worker", "leader", "copy", "login", "pair", "end"}
         /\ rowLock \in Jobs \cup {Nobody} /\ refreshing \subseteq Jobs /\ Nobody \notin Jobs
BY TokensAssumption DEF Shape, IsRun

\* A refresh goes on refreshing, and those who share it go on sharing it.
LEMMA WaitGo ==
  ASSUME WaitInv, Shape', NEW j \in Jobs, NEW r, GoTo(j, r),
         run[j].at \in Refreshes, r.at \in Refreshes, r.worker = run[j].worker,
         r.at = "settle" => r.end \in Ends,
         \/ UNCHANGED rowLock /\ (rowLock = j => r.at \in {"exchange", "update"})
         \/ rowLock' = j /\ r.at \in {"exchange", "update"}
         \/ Unlock(j),
         UNCHANGED refreshing
  PROVE  WaitInv'
BY RunShape DEF WaitInv, NobodyWaitsInVain, GoTo, Unlock, Refreshes

LEMMA WaitStep == WaitInv /\ [TokensNext]_tokensVars => WaitInv'
<1> SUFFICES ASSUME WaitInv, [TokensNext]_tokensVars PROVE WaitInv'
  OBVIOUS
<1>0. /\ Shape /\ Shape'
      /\ run = [j \in Jobs |-> run[j]]
      /\ \A j \in Jobs :
           DOMAIN run[j] = {"at", "worker", "leader", "copy", "login", "pair", "end"}
      /\ rowLock \in Jobs \cup {Nobody} /\ refreshing \subseteq Jobs /\ Nobody \notin Jobs
  BY ShapeStep, RunShape DEF WaitInv
<1>1. CASE UNCHANGED <<rowLock, refreshing, run>>
  BY <1>0, <1>1 DEF WaitInv, NobodyWaitsInVain
<1>2. ASSUME NEW j \in Jobs, NEW w \in Workers, ReadAccount(j, w)
      PROVE  WaitInv'
  BY <1>0, <1>2 DEF ReadAccount, GoTo, NewRun, WaitInv, NobodyWaitsInVain
<1>3. ASSUME NEW j \in Jobs, FreshToken(j)
      PROVE  WaitInv'
  <2>0. run[j].at = "read" /\ UNCHANGED rowLock
    BY <1>3 DEF FreshToken
  <2>1. CASE GoTo(j, [NewRun EXCEPT !.at = "running", !.pair = run[j].copy.pair])
             /\ UNCHANGED refreshing
    BY <1>0, <2>0, <2>1 DEF GoTo, NewRun, WaitInv, NobodyWaitsInVain
  <2>2. ASSUME NEW k \in refreshing, run[k].worker = run[j].worker, UNCHANGED refreshing,
               GoTo(j, [run[j] EXCEPT !.at = "joined", !.leader = k])
        PROVE  WaitInv'
    BY <1>0, <2>0, <2>2 DEF GoTo, WaitInv, NobodyWaitsInVain
  <2>3. CASE GoTo(j, [run[j] EXCEPT !.at = "lock"]) /\ refreshing' = refreshing \cup {j}
    BY <1>0, <2>0, <2>3 DEF GoTo, WaitInv, NobodyWaitsInVain
  <2> QED BY <1>3, <2>1, <2>2, <2>3 DEF FreshToken
<1>4. ASSUME NEW j \in Jobs, LockRow(j)
      PROVE  WaitInv'
  <2>1. PICK now : \/ /\ GoTo(j, [run[j] EXCEPT !.at = "exchange", !.login = now.login, !.pair = now.pair])
                      /\ rowLock' \in {rowLock, j}
                   \/ /\ GoTo(j, [run[j] EXCEPT !.at = "settle", !.pair = now.pair, !.end = "running"])
                      /\ UNCHANGED rowLock
    BY <1>4 DEF LockRow
  <2>2. run[j].at = "lock" /\ UNCHANGED refreshing /\ rowLock # j
    BY <1>0, <1>4 DEF LockRow, WaitInv, NobodyWaitsInVain
  <2> QED BY <1>0, <2>1, <2>2, WaitGo DEF Refreshes, Ends
<1>5. ASSUME NEW j \in Jobs, Exchange(j)
      PROVE  WaitInv'
  <2>1. GoTo(j, [run[j] EXCEPT !.at = "update", !.pair = issued + 1])
    BY <1>5 DEF Exchange
  <2> QED BY <1>0, <1>5, <2>1, WaitGo DEF Exchange, Refreshes
<1>6. ASSUME NEW j \in Jobs, Refused(j) \/ ExchangeFails(j) \/ UpdateFails(j) \/ UpdateRow(j)
      PROVE  WaitInv'
  <2>1. PICK e \in Ends : GoTo(j, [run[j] EXCEPT !.at = "settle", !.end = e])
    BY <1>6 DEF Refused, ExchangeFails, UpdateFails, UpdateRow, Ends
  <2>2. run[j].at \in {"exchange", "update"} /\ Unlock(j) /\ UNCHANGED refreshing
    BY <1>6 DEF Refused, ExchangeFails, UpdateFails, UpdateRow
  <2> QED BY <1>0, <2>1, <2>2, WaitGo DEF Refreshes
<1>7. ASSUME NEW j \in Jobs, RefreshSettles(j)
      PROVE  WaitInv'
  <2> DEFINE ended == Answer(run[j].end, run[j].pair)
  <2>1. ended.at \in Ends
    BY <1>7 DEF RefreshSettles, WaitInv, Answer, NewRun
  <2>2. /\ run' = [k \in Jobs |-> IF k = j \/ (run[k].at = "joined" /\ run[k].leader = j)
                                  THEN ended ELSE run[k]]
        /\ refreshing' = refreshing \ {j} /\ UNCHANGED rowLock /\ run[j].at = "settle"
    BY <1>7 DEF RefreshSettles
  <2> HIDE DEF ended
  <2> QED BY <1>0, <2>1, <2>2 DEF WaitInv, NobodyWaitsInVain, Ends
<1>8. ASSUME NEW j \in Jobs, AttemptEnds(j)
      PROVE  WaitInv'
  BY <1>0, <1>8 DEF AttemptEnds, GoTo, NewRun, WaitInv, NobodyWaitsInVain
<1>9. ASSUME NEW w \in Workers, WorkerDies(w)
      PROVE  WaitInv'
  BY <1>0, <1>9 DEF WorkerDies, NewRun, WaitInv, NobodyWaitsInVain
<1>10. CASE TokensNext
  BY <1>1, <1>2, <1>3, <1>4, <1>5, <1>6, <1>7, <1>8, <1>9, <1>10
     DEF TokensNext, Refresh, Authorize, LookForRow, SaveRow, Disconnect, GoesStale
<1> QED BY <1>1, <1>10 DEF tokensVars

(* Whoever shares a refresh shares one under way in its own process, and the   *)
(* row is held by nobody but a refresh under way: no refusal, error, refresh   *)
(* by somebody else or death of a process leaves a job waiting                 *)
(* (llmAccounts.js, freshClaudeAccessToken and its map).                       *)
THEOREM NobodyIsLeftWaiting == TokensSpec => []NobodyWaitsInVain
<1>1. WaitInv => NobodyWaitsInVain
  BY DEF WaitInv
<1> QED BY <1>1, WaitInit, WaitStep, PTL DEF TokensSpec

(***************************************************************************)
(* Logins.  Whoever holds the row writes the login it has locked.          *)
(***************************************************************************)
LoginInv == /\ WaitInv
            /\ rowLock # Nobody => run[rowLock].login = account.login

LEMMA LoginInit == TokensInit => LoginInv
BY WaitInit DEF TokensInit, LoginInv

LEMMA LoginStep ==
  LoginInv /\ [TokensNext]_tokensVars =>
    /\ LoginInv'
    /\ account # Unconnected /\ account' # Unconnected => account.login <= account'.login
<1> SUFFICES ASSUME LoginInv, [TokensNext]_tokensVars
             PROVE  /\ rowLock' # Nobody => run'[rowLock'].login = account'.login
                    /\ account # Unconnected /\ account' # Unconnected =>
                         account.login <= account'.login
  BY WaitStep DEF LoginInv
<1>0. /\ Shape
      /\ run = [j \in Jobs |-> run[j]]
      /\ \A j \in Jobs :
           DOMAIN run[j] = {"at", "worker", "leader", "copy", "login", "pair", "end"}
      /\ rowLock \in Jobs \cup {Nobody} /\ refreshing \subseteq Jobs /\ Nobody \notin Jobs
      /\ rowLock # Nobody => /\ run[rowLock].login = account.login
                             /\ run[rowLock].at \in {"exchange", "update"}
  BY RunShape DEF LoginInv, WaitInv, NobodyWaitsInVain
<1>00. account.login \in Nat /\ account.login <= form.login
  BY <1>0 DEF Shape, IsAccount
<1> USE <1>0, <1>00 DEF LoginInv
<1>1. CASE UNCHANGED <<account, rowLock, run>>
  BY <1>1
<1>2. ASSUME NEW j \in Jobs, FreshToken(j) \/ RefreshSettles(j) \/ AttemptEnds(j)
                             \/ \E w \in Workers : ReadAccount(j, w)
      PROVE  rowLock # j /\ UNCHANGED <<account, rowLock>>
  BY <1>2 DEF FreshToken, RefreshSettles, AttemptEnds, ReadAccount
<1>3. ASSUME NEW j \in Jobs, FreshToken(j) \/ AttemptEnds(j)
                             \/ \E w \in Workers : ReadAccount(j, w)
      PROVE  rowLock # Nobody => run'[rowLock] = run[rowLock]
  BY <1>2, <1>3 DEF FreshToken, AttemptEnds, ReadAccount, GoTo
<1>4. ASSUME NEW j \in Jobs, RefreshSettles(j)
      PROVE  rowLock # Nobody => run'[rowLock] = run[rowLock]
  BY <1>2, <1>4 DEF RefreshSettles
<1>5. ASSUME NEW j \in Jobs, LockRow(j)
      PROVE  /\ UNCHANGED account
             /\ rowLock' # Nobody => run'[rowLock'].login = account.login
  <2>1. CASE rowLock' = rowLock
    BY <1>5, <2>1 DEF LockRow, GoTo
  <2>2. CASE rowLock' # rowLock
    <3>1. /\ account.row = run[j].copy.row /\ rowLock' = j
          /\ GoTo(j, [run[j] EXCEPT !.at = "exchange", !.login = account.login,
                                    !.pair = account.pair])
      BY <1>5, <2>2 DEF LockRow
    <3> QED BY <1>5, <3>1 DEF LockRow, GoTo
  <2> QED BY <2>1, <2>2
<1>6. ASSUME NEW j \in Jobs, Exchange(j)
      PROVE  /\ UNCHANGED <<account, rowLock>>
             /\ rowLock # Nobody => run'[rowLock].login = run[rowLock].login
  BY <1>6 DEF Exchange, GoTo
<1>7. ASSUME NEW j \in Jobs, Refused(j) \/ ExchangeFails(j) \/ UpdateFails(j)
      PROVE  /\ UNCHANGED account
             /\ rowLock' # Nobody => rowLock' = rowLock /\ run'[rowLock] = run[rowLock]
  BY <1>7 DEF Refused, ExchangeFails, UpdateFails, GoTo, Unlock
<1>8. ASSUME NEW j \in Jobs, UpdateRow(j)
      PROVE  /\ account'.login = account.login
             /\ rowLock' # Nobody => rowLock' = rowLock /\ run'[rowLock] = run[rowLock]
  BY <1>8 DEF UpdateRow, GoTo, Unlock, Shape, IsAccount
<1>9. CASE SaveRow
  BY <1>9 DEF SaveRow, Shape, IsAccount
<1>10. CASE Disconnect
  BY <1>10 DEF Disconnect
<1>11. ASSUME NEW w \in Workers, WorkerDies(w)
      PROVE  /\ UNCHANGED account
             /\ rowLock' # Nobody => rowLock' = rowLock /\ run'[rowLock] = run[rowLock]
  BY <1>11 DEF WorkerDies
<1>12. CASE TokensNext
  BY <1>1, <1>2, <1>3, <1>4, <1>5, <1>6, <1>7, <1>8, <1>9, <1>10, <1>11, <1>12
     DEF TokensNext, Refresh, Authorize, LookForRow, GoesStale
<1> QED BY <1>1, <1>12 DEF tokensVars

(* New credentials stand: while there is an account its login is never         *)
(* replaced by an older one, whatever refreshes were under way when the user   *)
(* logged in anew (llmAccounts.js, saveAccount and refreshClaudeAccount).      *)
THEOREM LoginsStand == TokensSpec => LoginStands
<1>1. LoginInv /\ [TokensNext]_tokensVars =>
        [account # Unconnected /\ account' # Unconnected => account.login <= account'.login]_tokensVars
  BY LoginStep
<1> QED BY <1>1, LoginInit, LoginStep, PTL DEF TokensSpec, LoginStands

(***************************************************************************)
(* Refusals.  Unless an answer is lost on its way into the row, the pair   *)
(* in a row nobody has locked is good; who exchanges one has the row       *)
(* locked, and read the pair under that lock; and the pair of a login      *)
(* being saved is nobody else's.                                           *)
(***************************************************************************)
LostAnswer == {"lost", "died", "unlocked"}

PairsGood ==
  /\ \A j \in Jobs : run[j].at \in {"exchange", "update"} => rowLock = j /\ run[j].pair \in live
  /\ \A j \in Jobs : run[j].at = "exchange" => run[j].pair = account.pair
  /\ rowLock = Nobody => account.pair \in live \cup {0}
  /\ form.pair \in live \cup {0}
  /\ form.pair # 0 => /\ form.pair # account.pair
                      /\ \A j \in Jobs : run[j].at \in {"exchange", "update"} =>
                           run[j].pair # form.pair
  /\ \A j \in Jobs : run[j].end # "refused"

PairInv == WaitInv /\ (Spared(LostAnswer) => PairsGood)

LEMMA PairInit == TokensInit => PairInv
BY WaitInit DEF TokensInit, PairInv, PairsGood, NewRun, Unconnected

LEMMA StruckGrows ==
  /\ \A ws : Strike(ws) => struck \subseteq struck' /\ ws \subseteq struck'
  /\ \A c, w : StrikeIf(c, w) => struck \subseteq struck' /\ (c => w \in struck')
BY DEF Strike, StrikeIf

LEMMA PairStep == PairInv /\ [TokensNext]_tokensVars => PairInv'
<1> SUFFICES ASSUME PairInv, [TokensNext]_tokensVars, Spared(LostAnswer)'
             PROVE  PairsGood'
  BY WaitStep DEF PairInv
<1>0. /\ Shape
      /\ run = [j \in Jobs |-> run[j]]
      /\ \A j \in Jobs :
           DOMAIN run[j] = {"at", "worker", "leader", "copy", "login", "pair", "end"}
      /\ rowLock \in Jobs \cup {Nobody} /\ refreshing \subseteq Jobs /\ Nobody \notin Jobs
      /\ rowLock # Nobody => run[rowLock].at \in {"exchange", "update"}
  BY RunShape DEF PairInv, WaitInv, NobodyWaitsInVain
<1>00. /\ account.pair \in 0..issued /\ form.pair \in 0..issued /\ issued \in Nat
       /\ live \subseteq 1..issued /\ stale \subseteq 1..issued
       /\ \A j \in Jobs : run[j].pair \in 0..issued
       /\ DOMAIN form = {"at", "row", "login", "pair"}
       /\ DOMAIN account = {"row", "login", "pair"}
  BY <1>0, TokensAssumption DEF Shape, IsAccount, IsRun
<1>000. struck \subseteq struck' => PairsGood
  BY DEF PairInv, Spared
<1>1. CASE UNCHANGED tokensVars
  BY <1>1, <1>000 DEF tokensVars, PairsGood
<1>2. ASSUME NEW j \in Jobs, NEW w \in Workers, ReadAccount(j, w)
      PROVE  PairsGood'
  BY <1>0, <1>000, <1>2 DEF ReadAccount, GoTo, NewRun, PairsGood
<1>3. ASSUME NEW j \in Jobs, FreshToken(j)
      PROVE  PairsGood'
  <2>1. /\ PairsGood /\ run[j].at = "read" /\ UNCHANGED <<account, live, rowLock, form>>
    BY <1>000, <1>3 DEF FreshToken
  <2>2. ASSUME NEW r, GoTo(j, r), r.at \in {"running", "joined", "lock"}, r.end # "refused"
        PROVE  PairsGood'
    BY <1>0, <2>1, <2>2 DEF GoTo, PairsGood
  <2>3. run[j].end # "refused"
    BY <2>1 DEF PairsGood
  <2>4. CASE GoTo(j, [NewRun EXCEPT !.at = "running", !.pair = run[j].copy.pair])
    BY <2>2, <2>4 DEF NewRun
  <2>5. ASSUME NEW k, GoTo(j, [run[j] EXCEPT !.at = "joined", !.leader = k])
        PROVE  PairsGood'
    BY <1>0, <2>2, <2>3, <2>5
  <2>6. CASE GoTo(j, [run[j] EXCEPT !.at = "lock"])
    BY <1>0, <2>2, <2>3, <2>6
  <2> QED BY <1>3, <2>4, <2>5, <2>6 DEF FreshToken
<1>4. ASSUME NEW j \in Jobs, LockRow(j)
      PROVE  PairsGood'
  <2>1. /\ struck \subseteq struck' /\ UNCHANGED <<account, live, form>>
        /\ account.row = run[j].copy.row /\ rowLock = Nobody /\ run[j].at = "lock"
    BY <1>4, StruckGrows DEF LockRow, Spared, LostAnswer
  <2>2. CASE account.pair \in stale
    <3>1. /\ GoTo(j, [run[j] EXCEPT !.at = "exchange", !.login = account.login,
                                    !.pair = account.pair])
          /\ rowLock' = j
      BY <1>4, <2>1, <2>2 DEF LockRow, Expired
    <3>2. account.pair \in live
      BY <1>00, <1>000, <2>1, <2>2 DEF PairsGood
    <3>3. \A k \in Jobs : run[k].at \notin {"exchange", "update"}
      BY <1>0, <1>000, <2>1 DEF PairsGood
    <3> QED BY <1>0, <1>00, <1>000, <2>1, <3>1, <3>2, <3>3 DEF GoTo, PairsGood
  <2>3. CASE account.pair \notin stale
    <3>1. /\ GoTo(j, [run[j] EXCEPT !.at = "settle", !.pair = account.pair, !.end = "running"])
          /\ UNCHANGED rowLock
      BY <1>4, <2>1, <2>3 DEF LockRow, Expired
    <3> QED BY <1>0, <1>000, <2>1, <3>1 DEF GoTo, PairsGood
  <2> QED BY <2>2, <2>3
<1>5. ASSUME NEW j \in Jobs, Exchange(j)
      PROVE  PairsGood'
  <2>1. /\ PairsGood /\ run[j].at = "exchange"
        /\ live' = (live \ {run[j].pair}) \cup {issued + 1}
        /\ run' = [run EXCEPT ![j] = [run[j] EXCEPT !.at = "update", !.pair = issued + 1]]
        /\ UNCHANGED <<account, form, rowLock>>
    BY <1>000, <1>5 DEF Exchange, GoTo
  <2>2. rowLock = j /\ run[j].pair = account.pair
    BY <2>1 DEF PairsGood
  <2>3. \A k \in Jobs : k # j => run[k].at \notin {"exchange", "update"}
    BY <2>1, <2>2 DEF PairsGood
  <2>4. form.pair # issued + 1 /\ account.pair # issued + 1
    BY <1>00
  <2>5. form.pair # 0 => form.pair # run[j].pair
    BY <2>1 DEF PairsGood
  <2> QED BY <1>0, <2>1, <2>2, <2>3, <2>4, <2>5 DEF PairsGood
<1>6. ASSUME NEW j \in Jobs, Refused(j)
      PROVE  FALSE
  BY <1>000, <1>6 DEF Refused, PairsGood
<1>7. ASSUME NEW j \in Jobs, ExchangeFails(j)
      PROVE  PairsGood'
  <2>1. /\ run[j].at = "exchange" /\ struck \subseteq struck'
        /\ live' = live /\ UNCHANGED <<account, form>> /\ Unlock(j)
        /\ run' = [run EXCEPT ![j] = [run[j] EXCEPT !.at = "settle", !.end = "failed"]]
    BY <1>7, StruckGrows DEF ExchangeFails, GoTo, Spared, LostAnswer
  <2> QED BY <1>0, <1>000, <2>1 DEF PairsGood, Unlock
<1>8. ASSUME NEW j \in Jobs, UpdateRow(j)
      PROVE  PairsGood'
  <2>1. /\ PairsGood /\ run[j].at = "update" /\ Unlock(j) /\ UNCHANGED <<live, form>>
        /\ run' = [run EXCEPT ![j] = [run[j] EXCEPT !.at = "settle", !.end = "running"]]
        /\ account' = IF rowLock = j THEN [account EXCEPT !.login = run[j].login, !.pair = run[j].pair]
                      ELSE account
    BY <1>000, <1>8 DEF UpdateRow, GoTo
  <2>2. rowLock = j /\ run[j].pair \in live /\ (form.pair # 0 => run[j].pair # form.pair)
    BY <2>1 DEF PairsGood
  <2>3. account'.pair = run[j].pair
    BY <1>00, <2>1, <2>2
  <2> QED BY <1>0, <2>1, <2>2, <2>3 DEF PairsGood, Unlock
<1>9. ASSUME NEW j \in Jobs, UpdateFails(j)
      PROVE  FALSE
  BY <1>9, StruckGrows DEF UpdateFails, Spared, LostAnswer
<1>10. ASSUME NEW j \in Jobs, RefreshSettles(j)
       PROVE  PairsGood'
  <2> DEFINE ended == Answer(run[j].end, run[j].pair)
  <2>1. ended.end = "none" /\ ended.at = run[j].end /\ run[j].end \in {"running", "failed", "refused"}
    BY <1>10 DEF RefreshSettles, Answer, NewRun, PairInv, WaitInv, Ends
  <2>2. /\ run' = [k \in Jobs |-> IF k = j \/ (run[k].at = "joined" /\ run[k].leader = j)
                                  THEN ended ELSE run[k]]
        /\ PairsGood /\ UNCHANGED <<account, live, form, rowLock>>
    BY <1>000, <1>10 DEF RefreshSettles
  <2> HIDE DEF ended
  <2> QED BY <1>0, <2>1, <2>2 DEF PairsGood
<1>11. ASSUME NEW j \in Jobs, AttemptEnds(j)
       PROVE  PairsGood'
  BY <1>0, <1>000, <1>11 DEF AttemptEnds, GoTo, NewRun, PairsGood
<1>12. ASSUME NEW key \in BOOLEAN, Authorize(key)
       PROVE  PairsGood'
  BY <1>0, <1>00, <1>000, <1>12 DEF Authorize, PairsGood
<1>13. CASE LookForRow
  BY <1>0, <1>00, <1>000, <1>13 DEF LookForRow, PairsGood
<1>14. CASE SaveRow
  <2>1. /\ PairsGood /\ rowLock = Nobody /\ UNCHANGED <<live, rowLock, run>>
        /\ account'.pair \in {form.pair, account.pair} /\ form'.pair = 0
    BY <1>00, <1>000, <1>14 DEF SaveRow
  <2> QED BY <1>0, <2>1 DEF PairsGood
<1>15. CASE Disconnect
  BY <1>0, <1>000, <1>15 DEF Disconnect, Unconnected, PairsGood
<1>16. ASSUME NEW p \in 1..issued, GoesStale(p)
       PROVE  PairsGood'
  BY <1>000, <1>16 DEF GoesStale, PairsGood
<1>17. ASSUME NEW w \in Workers, WorkerDies(w)
       PROVE  PairsGood'
  <2> DEFINE lost == {j \in Jobs : run[j].worker = w}
  <2>1. /\ PairsGood /\ UNCHANGED <<account, live, form>>
        /\ \A j \in lost : run[j].at # "update"
        /\ run' = [j \in Jobs |-> IF j \in lost THEN NewRun ELSE run[j]]
        /\ rowLock' = IF rowLock \in lost THEN Nobody ELSE rowLock
    BY <1>000, <1>17, StruckGrows DEF WorkerDies, Spared, LostAnswer
  <2>2. NewRun.at = "new" /\ NewRun.end = "none"
    BY DEF NewRun
  <2> QED BY <1>0, <2>1, <2>2 DEF PairsGood
<1>18. CASE TokensNext
  BY <1>2, <1>3, <1>4, <1>5, <1>6, <1>7, <1>8, <1>9, <1>10, <1>11, <1>12, <1>13, <1>14, <1>15,
     <1>16, <1>17, <1>18 DEF TokensNext, Refresh
<1> QED BY <1>1, <1>18

(* A refresh token is good for one exchange, and whatever jobs, processes,     *)
(* reconnections and expiries do, nobody spends a dead one, unless an answer   *)
(* was lost on its way into the row (llmAccounts.js, refreshClaudeAccount).    *)
THEOREM NobodyIsRefused == TokensSpec => []NeverRefused
<1>1. PairInv => NeverRefused
  BY DEF PairInv, PairsGood, NeverRefused, LostAnswer
<1> QED BY <1>1, PairInit, PairStep, PTL DEF TokensSpec

-----------------------------------------------------------------------------
(***************************************************************************)
(* CodexHome: types.                                                       *)
(***************************************************************************)
RowRec == [row : Nat, login : Nat, tokens : Nat]
FileRec == [login : Nat, tokens : Nat]
Stages == {"new", "read", "running", "given up", "sync"}
RunRec == [at : Stages, copy : RowRec, login : Nat, saw : FileRec]
PasteRec == [at : {"idle", "save"}, row : Nat, login : Nat, key : BOOLEAN]

HomeShape ==
  /\ codexRow \in RowRec /\ authFile \in FileRec /\ given \in Nat
  /\ codexRun \in [CodexJobs -> RunRec]
  /\ pasted \in PasteRec /\ leaving \in BOOLEAN

\* No token that was not given out, no login that was not made.
Given(holder) == holder.tokens <= given /\ holder.login <= pasted.login

HomeBounds ==
  /\ given <= MaxTokens /\ pasted.login <= MaxPastes
  /\ Given(codexRow) /\ Given(authFile) /\ codexRow.row <= pasted.login /\ pasted.row <= pasted.login
  /\ \A j \in CodexJobs : /\ Given(codexRun[j].copy) /\ Given(codexRun[j].saw)
                          /\ codexRun[j].login <= pasted.login

HomeTyped == HomeShape /\ HomeBounds

\* Records as the actions make them.
LEMMA Blank ==
  /\ NoRowHere \in RowRec /\ NoRowHere.row = 0 /\ NoRowHere.login = 0 /\ NoRowHere.tokens = 0
  /\ NoFile \in FileRec /\ NoFile.login = 0 /\ NoFile.tokens = 0
  /\ NewCodexRun \in RunRec /\ NewCodexRun.at = "new" /\ NewCodexRun.copy = NoRowHere
  /\ NewCodexRun.login = 0 /\ NewCodexRun.saw = NoFile
<1>1. NoRowHere \in RowRec /\ NoRowHere.row = 0 /\ NoRowHere.login = 0 /\ NoRowHere.tokens = 0
  BY DEF NoRowHere, RowRec
<1>2. NoFile \in FileRec /\ NoFile.login = 0 /\ NoFile.tokens = 0
  BY DEF NoFile, FileRec
<1>3. /\ NewCodexRun \in RunRec /\ NewCodexRun.at = "new" /\ NewCodexRun.copy = NoRowHere
      /\ NewCodexRun.login = 0 /\ NewCodexRun.saw = NoFile
  BY <1>1, <1>2 DEF NewCodexRun, RunRec, Stages
<1> QED BY <1>1, <1>2, <1>3

LEMMA AuthIs ==
  ASSUME NEW row \in RowRec
  PROVE  Auth(row) \in FileRec /\ Auth(row).login = row.login /\ Auth(row).tokens = row.tokens
BY DEF Auth, RowRec, FileRec

LEMMA SameFile ==
  ASSUME NEW f \in FileRec, NEW g \in FileRec, f.login = g.login, f.tokens = g.tokens
  PROVE  f = g
BY DEF FileRec

LEMMA RowSynced ==
  ASSUME NEW row \in RowRec, NEW f \in FileRec
  PROVE  LET synced == [row EXCEPT !.login = f.login, !.tokens = f.tokens] IN
         /\ synced \in RowRec /\ synced.row = row.row
         /\ synced.login = f.login /\ synced.tokens = f.tokens
<1>0. f.login \in Nat /\ f.tokens \in Nat
  BY DEF FileRec
<1> DEFINE r1 == [row EXCEPT !.login = f.login]
<1>1. r1 \in RowRec /\ r1.row = row.row /\ r1.login = f.login
  BY <1>0 DEF RowRec
<1> HIDE DEF r1
<1> DEFINE r2 == [r1 EXCEPT !.tokens = f.tokens]
<1>2. r2 \in RowRec /\ r2.row = row.row /\ r2.login = f.login /\ r2.tokens = f.tokens
  BY <1>0, <1>1 DEF RowRec
<1> HIDE DEF r2
<1>3. [row EXCEPT !.login = f.login, !.tokens = f.tokens] = r2
  BY DEF r1, r2
<1> QED BY <1>2, <1>3

LEMMA RunIsRead ==
  ASSUME NEW row \in RowRec
  PROVE  LET new == [NewCodexRun EXCEPT !.at = "read", !.copy = row] IN
         new \in RunRec /\ new.at = "read" /\ new.copy = row /\ new.login = 0 /\ new.saw = NoFile
<1> DEFINE r1 == [NewCodexRun EXCEPT !.at = "read"]
<1>1. r1 \in RunRec /\ r1.at = "read" /\ r1.login = 0 /\ r1.saw = NoFile
  BY Blank DEF RunRec, Stages
<1> HIDE DEF r1
<1> DEFINE r2 == [r1 EXCEPT !.copy = row]
<1>2. r2 \in RunRec /\ r2.at = "read" /\ r2.copy = row /\ r2.login = 0 /\ r2.saw = NoFile
  BY <1>1 DEF RunRec
<1> HIDE DEF r2
<1>3. [NewCodexRun EXCEPT !.at = "read", !.copy = row] = r2
  BY DEF r1, r2
<1> QED BY <1>2, <1>3

LEMMA RunStarts ==
  ASSUME NEW r \in RunRec, NEW l \in Nat
  PROVE  LET new == [r EXCEPT !.at = "running", !.login = l] IN
         new \in RunRec /\ new.at = "running" /\ new.copy = r.copy /\ new.login = l /\ new.saw = r.saw
<1> DEFINE r1 == [r EXCEPT !.at = "running"]
<1>1. r1 \in RunRec /\ r1.at = "running" /\ r1.copy = r.copy /\ r1.saw = r.saw
  BY DEF RunRec, Stages
<1> HIDE DEF r1
<1> DEFINE r2 == [r1 EXCEPT !.login = l]
<1>2. r2 \in RunRec /\ r2.at = "running" /\ r2.copy = r.copy /\ r2.login = l /\ r2.saw = r.saw
  BY <1>1 DEF RunRec
<1> HIDE DEF r2
<1>3. [r EXCEPT !.at = "running", !.login = l] = r2
  BY DEF r1, r2
<1> QED BY <1>2, <1>3

LEMMA RunSyncs ==
  ASSUME NEW r \in RunRec, NEW f \in FileRec
  PROVE  LET new == [r EXCEPT !.at = "sync", !.saw = f] IN
         new \in RunRec /\ new.at = "sync" /\ new.copy = r.copy /\ new.login = r.login /\ new.saw = f
<1> DEFINE r1 == [r EXCEPT !.at = "sync"]
<1>1. r1 \in RunRec /\ r1.at = "sync" /\ r1.copy = r.copy /\ r1.login = r.login
  BY DEF RunRec, Stages
<1> HIDE DEF r1
<1> DEFINE r2 == [r1 EXCEPT !.saw = f]
<1>2. r2 \in RunRec /\ r2.at = "sync" /\ r2.copy = r.copy /\ r2.login = r.login /\ r2.saw = f
  BY <1>1 DEF RunRec
<1> HIDE DEF r2
<1>3. [r EXCEPT !.at = "sync", !.saw = f] = r2
  BY DEF r1, r2
<1> QED BY <1>2, <1>3

LEMMA RunGivenUp ==
  ASSUME NEW r \in RunRec
  PROVE  LET new == [r EXCEPT !.at = "given up"] IN
         new \in RunRec /\ new.at = "given up" /\ new.copy = r.copy /\ new.login = r.login /\ new.saw = r.saw
BY DEF RunRec, Stages

\* A login is on its way into the row, or none is.
LEMMA PasteIs ==
  ASSUME NEW r \in Nat, NEW l \in Nat, NEW k \in BOOLEAN, NEW at \in {"idle", "save"}
  PROVE  \A new : new = [at |-> at, row |-> r, login |-> l, key |-> k] =>
                    new \in PasteRec /\ new.at = at /\ new.row = r /\ new.login = l
BY DEF PasteRec

LEMMA PasteOver ==
  ASSUME NEW p \in PasteRec
  PROVE  LET new == [p EXCEPT !.at = "idle", !.row = 0, !.key = FALSE] IN
         new \in PasteRec /\ new.at = "idle" /\ new.row = 0 /\ new.login = p.login
<1> DEFINE p1 == [p EXCEPT !.at = "idle"]
<1>1. p1 \in PasteRec /\ p1.at = "idle" /\ p1.login = p.login
  BY DEF PasteRec
<1> HIDE DEF p1
<1> DEFINE p2 == [p1 EXCEPT !.row = 0]
<1>2. p2 \in PasteRec /\ p2.at = "idle" /\ p2.row = 0 /\ p2.login = p.login
  BY <1>1 DEF PasteRec
<1> HIDE DEF p2
<1> DEFINE p3 == [p2 EXCEPT !.key = FALSE]
<1>3. p3 \in PasteRec /\ p3.at = "idle" /\ p3.row = 0 /\ p3.login = p.login
  BY <1>2 DEF PasteRec
<1> HIDE DEF p3
<1>4. [p EXCEPT !.at = "idle", !.row = 0, !.key = FALSE] = p3
  BY DEF p1, p2, p3
<1> QED BY <1>3, <1>4

LEMMA HomeTypedInit == CodexInit => HomeTyped
<1> SUFFICES ASSUME CodexInit PROVE HomeTyped
  OBVIOUS
<1>1. pasted \in PasteRec /\ pasted.login = 0 /\ pasted.row = 0
  <2>1. pasted = [at |-> "idle", row |-> 0, login |-> 0, key |-> FALSE]
    BY DEF CodexInit
  <2> QED BY <2>1 DEF PasteRec
<1>2. HomeShape
  BY <1>1, Blank DEF CodexInit, HomeShape
<1>3. HomeBounds
  BY <1>1, Blank, CodexAssumption DEF CodexInit, HomeBounds, Given
<1> QED BY <1>2, <1>3 DEF HomeTyped

\* One job's step: its own state changes, within the types.
LEMMA JobStepTyped ==
  ASSUME HomeTyped, NEW j \in CodexJobs, NEW r \in RunRec, Proceed(j, r),
         given' \in Nat, given <= given', UNCHANGED <<pasted, leaving>>,
         r.copy.tokens <= given', r.saw.tokens <= given', r.copy.login <= pasted.login,
         r.saw.login <= pasted.login, r.login <= pasted.login
  PROVE  /\ codexRun' \in [CodexJobs -> RunRec]
         /\ \A k \in CodexJobs : /\ Given(codexRun[k].copy)' /\ Given(codexRun[k].saw)'
                                 /\ codexRun'[k].login <= pasted'.login
         /\ codexRun'[j] = r /\ \A k \in CodexJobs \ {j} : codexRun'[k] = codexRun[k]
<1>1. codexRun \in [CodexJobs -> RunRec] /\ given \in Nat /\ pasted \in PasteRec
  BY DEF HomeTyped, HomeShape
<1>2. codexRun' \in [CodexJobs -> RunRec] /\ codexRun'[j] = r
      /\ \A k \in CodexJobs \ {j} : codexRun'[k] = codexRun[k]
  BY <1>1 DEF Proceed
<1>3. ASSUME NEW k \in CodexJobs
      PROVE  Given(codexRun[k].copy)' /\ Given(codexRun[k].saw)' /\ codexRun'[k].login <= pasted'.login
  <2>1. CASE k = j
    BY <1>2, <2>1 DEF Given
  <2>2. CASE k # j
    <3>1. codexRun[k] \in RunRec /\ codexRun'[k] = codexRun[k]
      BY <1>1, <1>2, <2>2
    <3>2. Given(codexRun[k].copy) /\ Given(codexRun[k].saw) /\ codexRun[k].login <= pasted.login
      BY DEF HomeTyped, HomeBounds
    <3> QED BY <1>1, <3>1, <3>2 DEF Given, RunRec, RowRec, FileRec
  <2> QED BY <2>1, <2>2
<1> QED BY <1>2, <1>3

-----------------------------------------------------------------------------
(***************************************************************************)
(* A home and its row.  While a job has read the row nobody logs in or     *)
(* out, so there is one login about; and the tokens given out last are in  *)
(* the row, or in the file with a job that is to put them in the row.      *)
(***************************************************************************)
RunGood(j) ==
  LET r == codexRun[j] IN
  r.at # "new" => /\ pasted.at = "idle" /\ ~leaving
                  /\ r.copy.row = codexRow.row /\ r.copy.login = codexRow.login
                  /\ r.copy.tokens = 0 <=> codexRow.tokens = 0
                  /\ r.at \in {"running", "given up"} => r.login = r.copy.login
                  /\ r.at = "sync" => r.saw.login = r.copy.login /\ r.saw.tokens # 0 /\ r.copy.tokens # 0

OneLogin ==
  /\ leaving => authFile = NoFile
  /\ authFile # NoFile => /\ authFile.login = codexRow.login
                          /\ authFile.tokens # 0 /\ codexRow.tokens # 0
  /\ \A j \in CodexJobs : RunGood(j)

\* A job that is to put the last tokens into the row.
Brings(j) == \/ codexRun[j].at = "running" /\ codexRun[j].copy.tokens # 0
             \/ codexRun[j].at = "sync" /\ codexRun[j].saw.tokens = given

RunInTime(j) ==
  LET r == codexRun[j] IN
  r.at # "new" => /\ r.at # "given up"
                  /\ r.copy.tokens <= codexRow.tokens
                  /\ r.at \in {"running", "sync"} /\ r.copy.tokens # 0 => authFile # NoFile
                  /\ authFile = NoFile => r.copy.tokens = codexRow.tokens

LastTokens ==
  /\ codexRow.tokens \notin {0, given} => authFile # NoFile /\ \E j \in CodexJobs : Brings(j)
  /\ authFile # NoFile => authFile.tokens = given
  /\ \A j \in CodexJobs : RunInTime(j)

Undisturbed == Spared({"over", "athome"})
InTime == Spared({"over", "athome", "timeout", "died", "order"})

HomeInv == HomeTyped /\ (Undisturbed => OneLogin) /\ (InTime => LastTokens)

LEMMA HomeInvInit == CodexInit => HomeInv
<1> SUFFICES ASSUME CodexInit PROVE HomeInv
  OBVIOUS
<1>1. codexRow = NoRowHere /\ authFile = NoFile /\ given = 0 /\ ~leaving
      /\ \A j \in CodexJobs : codexRun[j] = NewCodexRun
  BY DEF CodexInit
<1>2. OneLogin /\ LastTokens
  BY <1>1, Blank DEF OneLogin, RunGood, LastTokens, RunInTime
<1> QED BY <1>2, HomeTypedInit DEF HomeInv

LEMMA Calmer ==
  ASSUME NEW windows, Strike(windows)
  PROVE  /\ InTime' => InTime /\ Undisturbed' /\ windows \cap {"over", "athome", "timeout", "died", "order"} = {}
         /\ Undisturbed' => Undisturbed /\ windows \cap {"over", "athome"} = {}
BY DEF Strike, InTime, Undisturbed, Spared

LEMMA AsCalm ==
  ASSUME UNCHANGED struck
  PROVE  /\ InTime' => InTime /\ Undisturbed'
         /\ Undisturbed' => Undisturbed
BY DEF InTime, Undisturbed, Spared

LEMMA InTimeIsUndisturbed == InTime => Undisturbed
BY DEF InTime, Undisturbed, Spared

\* A job that took no part finds its row as it was, whatever its tokens are now.
LEMMA RunGoodApart ==
  ASSUME NEW k \in CodexJobs, RunGood(k), codexRun'[k] = codexRun[k], UNCHANGED <<pasted, leaving>>,
         codexRow'.row = codexRow.row, codexRow'.login = codexRow.login,
         codexRow'.tokens = 0 <=> codexRow.tokens = 0
  PROVE  RunGood(k)'
<1>1. CASE codexRun[k].at = "new"
  BY <1>1 DEF RunGood
<1>2. CASE codexRun[k].at # "new"
  BY <1>2 DEF RunGood
<1> QED BY <1>1, <1>2

LEMMA ReadCodexRowKeeps ==
  ASSUME HomeInv, NEW j \in CodexJobs, ReadCodexRow(j)
  PROVE  HomeInv'
<1> DEFINE r == [NewCodexRun EXCEPT !.at = "read", !.copy = codexRow]
<1>0. HomeTyped /\ HomeShape /\ HomeBounds
  BY DEF HomeInv, HomeTyped
<1>1. r \in RunRec /\ r.at = "read" /\ r.copy = codexRow /\ r.login = 0 /\ r.saw = NoFile
  BY <1>0, RunIsRead DEF HomeShape
<1>2. Proceed(j, r) /\ UNCHANGED <<codexRow, authFile, given, pasted, leaving>>
  BY DEF ReadCodexRow
<1> HIDE DEF r
<1>3. /\ codexRun' \in [CodexJobs -> RunRec]
      /\ \A k \in CodexJobs : /\ Given(codexRun[k].copy)' /\ Given(codexRun[k].saw)'
                              /\ codexRun'[k].login <= pasted'.login
      /\ codexRun'[j] = r /\ \A k \in CodexJobs \ {j} : codexRun'[k] = codexRun[k]
  <2>1. /\ r.copy.tokens <= given' /\ r.saw.tokens <= given' /\ r.copy.login <= pasted.login
        /\ r.saw.login <= pasted.login /\ r.login <= pasted.login /\ given' \in Nat /\ given <= given'
    BY <1>0, <1>1, <1>2, Blank DEF HomeShape, HomeBounds, Given, PasteRec, RowRec
  <2> QED BY <1>0, <1>1, <1>2, <2>1, JobStepTyped
<1>4. HomeTyped'
  BY <1>0, <1>2, <1>3 DEF HomeTyped, HomeShape, HomeBounds, Given
<1>5. Undisturbed' => Undisturbed /\ pasted.at # "save" /\ ~leaving
  BY Calmer DEF ReadCodexRow
<1>6. Undisturbed' => OneLogin'
  <2> SUFFICES ASSUME Undisturbed' PROVE OneLogin'
    OBVIOUS
  <2>1. pasted.at = "idle" /\ ~leaving /\ OneLogin
    BY <1>0, <1>5 DEF HomeShape, PasteRec, HomeInv
  <2>2. RunGood(j)'
    BY <1>1, <1>2, <1>3, <2>1 DEF RunGood
  <2>3. \A k \in CodexJobs \ {j} : RunGood(k)'
    BY <1>2, <1>3, <2>1, RunGoodApart DEF OneLogin
  <2> QED BY <1>2, <2>1, <2>2, <2>3 DEF OneLogin
<1>7. InTime' => InTime
  BY Calmer DEF ReadCodexRow
<1>8. InTime' => LastTokens'
  <2>1. codexRun[j].at = "new"
    BY DEF ReadCodexRow
  <2>2. \A k \in CodexJobs : Brings(k) => Brings(k)'
    BY <1>2, <1>3, <2>1 DEF Brings
  <2>3. codexRow.tokens \in Nat
    BY <1>0 DEF HomeShape, RowRec
  <2> SUFFICES ASSUME InTime' PROVE LastTokens'
    OBVIOUS
  <2>4. LastTokens
    BY <1>7 DEF HomeInv
  <2>5. ASSUME NEW k \in CodexJobs PROVE RunInTime(k)'
    <3>1. CASE k = j
      <4>1. codexRun'[j].at = "read" /\ codexRun'[j].copy = codexRow' /\ codexRow'.tokens \in Nat
        BY <1>1, <1>2, <1>3, <2>3
      <4> QED BY <3>1, <4>1 DEF RunInTime
    <3>2. CASE k # j
      BY <1>2, <1>3, <2>4, <3>2 DEF LastTokens, RunInTime
    <3> QED BY <3>1, <3>2
  <2> QED BY <1>2, <2>2, <2>4, <2>5 DEF LastTokens
<1> QED BY <1>4, <1>6, <1>8 DEF HomeInv

LEMMA EnterHomeKeeps ==
  ASSUME HomeInv, NEW j \in CodexJobs, EnterHome(j)
  PROVE  HomeInv'
<1> DEFINE copy == codexRun[j].copy
           l == IF copy.tokens = 0 THEN copy.login ELSE authFile'.login
           r == [codexRun[j] EXCEPT !.at = "running", !.login = l]
<1>0. HomeTyped /\ HomeShape /\ HomeBounds /\ codexRun[j] \in RunRec /\ copy \in RowRec
      /\ codexRow \in RowRec
  BY DEF HomeInv, HomeTyped, HomeShape, RunRec
<1>a. /\ codexRun[j].at = "read"
      /\ authFile' = IF copy.tokens = 0 \/ authFile # NoFile THEN authFile ELSE Auth(copy)
      /\ Proceed(j, r) /\ UNCHANGED <<codexRow, given, pasted, leaving, struck>>
  BY DEF EnterHome
<1>b. Auth(copy) \in FileRec /\ Auth(copy).login = copy.login /\ Auth(copy).tokens = copy.tokens
  BY <1>0, AuthIs
<1>c. Given(copy) /\ Given(codexRun[j].saw) /\ Given(authFile)
  BY <1>0 DEF HomeBounds
<1>d. authFile' \in FileRec /\ Given(authFile)'
  BY <1>0, <1>a, <1>b, <1>c DEF HomeShape, Given
<1>e. l \in Nat /\ l <= pasted.login
  BY <1>0, <1>a, <1>c, <1>d DEF Given, RowRec, FileRec
<1>1. r \in RunRec /\ r.at = "running" /\ r.copy = copy /\ r.login = l /\ r.saw = codexRun[j].saw
  BY <1>0, <1>e, RunStarts
<1> HIDE DEF r
<1>3. /\ codexRun' \in [CodexJobs -> RunRec]
      /\ \A k \in CodexJobs : /\ Given(codexRun[k].copy)' /\ Given(codexRun[k].saw)'
                              /\ codexRun'[k].login <= pasted'.login
      /\ codexRun'[j] = r /\ \A k \in CodexJobs \ {j} : codexRun'[k] = codexRun[k]
  <2>1. /\ r.copy.tokens <= given' /\ r.saw.tokens <= given' /\ r.copy.login <= pasted.login
        /\ r.saw.login <= pasted.login /\ r.login <= pasted.login /\ given' \in Nat /\ given <= given'
    BY <1>0, <1>a, <1>1, <1>c, <1>e DEF HomeShape, Given
  <2> QED BY <1>0, <1>1, <1>a, <2>1, JobStepTyped
<1>4. HomeTyped'
  BY <1>0, <1>a, <1>3, <1>d DEF HomeTyped, HomeShape, HomeBounds, Given
<1>5. Undisturbed' => OneLogin'
  <2> SUFFICES ASSUME Undisturbed' PROVE OneLogin'
    OBVIOUS
  <2>1. OneLogin /\ RunGood(j)
    BY <1>a, AsCalm DEF HomeInv, OneLogin
  <2>2. /\ pasted.at = "idle" /\ ~leaving /\ copy.row = codexRow.row /\ copy.login = codexRow.login
        /\ copy.tokens = 0 <=> codexRow.tokens = 0
    BY <1>a, <2>1 DEF RunGood
  <2>3. authFile' # NoFile => /\ authFile'.login = codexRow'.login
                              /\ authFile'.tokens # 0 /\ codexRow'.tokens # 0
    BY <1>a, <1>b, <2>1, <2>2 DEF OneLogin
  <2>4. l = copy.login
    <3>1. CASE copy.tokens = 0
      BY <3>1
    <3>2. CASE copy.tokens # 0
      <4>1. authFile' # NoFile
        BY <1>a, <1>b, <3>2, Blank
      <4> QED BY <1>a, <2>2, <2>3, <3>2, <4>1
    <3> QED BY <3>1, <3>2
  <2>5. ASSUME NEW k \in CodexJobs PROVE RunGood(k)'
    <3>1. CASE k = j
      BY <1>1, <1>3, <1>a, <2>2, <2>4, <3>1 DEF RunGood
    <3>2. CASE k # j
      BY <1>3, <1>a, <2>1, <3>2 DEF OneLogin, RunGood
    <3> QED BY <3>1, <3>2
  <2> QED BY <1>a, <2>2, <2>3, <2>5 DEF OneLogin
<1>6. InTime' => LastTokens'
  <2> SUFFICES ASSUME InTime' PROVE LastTokens'
    OBVIOUS
  <2>1. LastTokens /\ RunInTime(j) /\ codexRow.tokens \in Nat /\ copy.tokens \in Nat
    BY <1>0, <1>a, AsCalm DEF HomeInv, LastTokens, RowRec
  <2>2. authFile = NoFile => copy.tokens = codexRow.tokens /\ codexRow.tokens \in {0, given}
    BY <1>a, <2>1 DEF RunInTime, LastTokens
  <2>3. authFile' # NoFile => authFile'.tokens = given'
    BY <1>a, <1>b, <2>1, <2>2 DEF LastTokens
  <2>4. authFile # NoFile => authFile' # NoFile
    BY <1>a
  <2>5. copy.tokens # 0 => authFile' # NoFile
    BY <1>a, <1>b, Blank
  <2>6. ASSUME NEW k \in CodexJobs PROVE RunInTime(k)'
    <3>1. CASE k = j
      BY <1>1, <1>3, <1>a, <2>1, <2>2, <2>4, <2>5, <3>1 DEF RunInTime
    <3>2. CASE k # j
      BY <1>3, <1>a, <2>1, <2>4, <3>2 DEF LastTokens, RunInTime
    <3> QED BY <3>1, <3>2
  <2>7. \A k \in CodexJobs : Brings(k) => Brings(k)'
    BY <1>3, <1>a DEF Brings
  <2>8. codexRow'.tokens \notin {0, given'} => authFile' # NoFile /\ \E k \in CodexJobs : Brings(k)'
    BY <1>a, <2>1, <2>4, <2>7 DEF LastTokens
  <2> QED BY <2>3, <2>6, <2>8 DEF LastTokens
<1> QED BY <1>4, <1>5, <1>6 DEF HomeInv

LEMMA RotateTokensKeeps ==
  ASSUME HomeInv, NEW j \in CodexJobs, RotateTokens(j)
  PROVE  HomeInv'
<1>0. HomeTyped /\ HomeShape /\ HomeBounds /\ codexRun[j] \in RunRec /\ codexRun[j].copy \in RowRec
      /\ codexRow \in RowRec
  BY DEF HomeInv, HomeTyped, HomeShape, RunRec
<1>1. /\ codexRun[j].at \in {"running", "given up"} /\ codexRun[j].copy.tokens # 0
      /\ given < MaxTokens /\ given' = given + 1
      /\ UNCHANGED <<codexRow, codexRun, pasted, leaving, struck>>
  BY DEF RotateTokens
<1>2. /\ given' \in Nat /\ given < given' /\ given' <= MaxTokens
      /\ authFile' \in FileRec /\ authFile'.login = codexRun[j].login /\ authFile'.tokens = given'
      /\ authFile'.tokens # 0
  <2>0. given' = given + 1 /\ given < MaxTokens
    BY <1>1
  <2>a. given \in Nat /\ codexRun[j].login \in Nat
    BY <1>0 DEF HomeShape, RunRec
  <2>1. given' \in Nat
    BY <2>0, <2>a
  <2>2. given < given' /\ given' <= MaxTokens /\ given' # 0
    BY <2>0, <2>a, CodexAssumption
  <2>3. authFile' = [login |-> codexRun[j].login, tokens |-> given']
    BY DEF RotateTokens
  <2> QED BY <2>a, <2>1, <2>2, <2>3 DEF FileRec
<1>3. \A k \in CodexJobs : codexRun[k] \in RunRec /\ codexRun[k].copy \in RowRec /\ codexRun[k].saw \in FileRec
  BY <1>0 DEF HomeShape, RunRec
<1>4. HomeTyped'
  <2>1. \A t \in Nat : t <= given => t <= given'
    BY <1>0, <1>2 DEF HomeShape
  <2>2. HomeShape'
    BY <1>0, <1>1, <1>2 DEF HomeShape
  <2>3. \A k \in CodexJobs : /\ Given(codexRun[k].copy)' /\ Given(codexRun[k].saw)'
                             /\ codexRun'[k].login <= pasted'.login
    BY <1>0, <1>1, <1>3, <2>1 DEF HomeBounds, Given, RowRec, FileRec
  <2>4. Given(codexRow)' /\ Given(authFile)'
    <3>1. codexRow.tokens <= given /\ codexRow.login <= pasted.login /\ codexRow.tokens \in Nat
          /\ codexRun[j].login <= pasted.login
      BY <1>0 DEF HomeBounds, Given, RowRec
    <3>2. given' \in Nat /\ codexRow' = codexRow /\ pasted' = pasted
      BY <1>1, <1>2
    <3> QED BY <1>2, <2>1, <3>1, <3>2 DEF Given
  <2> QED BY <1>0, <1>1, <1>2, <2>2, <2>3, <2>4 DEF HomeTyped, HomeBounds
<1>5. Undisturbed' => OneLogin'
  <2> SUFFICES ASSUME Undisturbed' PROVE OneLogin'
    OBVIOUS
  <2>1. OneLogin /\ RunGood(j)
    BY <1>1, AsCalm DEF HomeInv, OneLogin
  <2>2. codexRun[j].login = codexRow.login /\ codexRow.tokens # 0 /\ ~leaving
    BY <1>1, <2>1 DEF RunGood
  <2>3. \A k \in CodexJobs : RunGood(k)'
    BY <1>1, <2>1 DEF OneLogin, RunGood
  <2> QED BY <1>1, <1>2, <2>2, <2>3 DEF OneLogin
<1>6. InTime' => LastTokens'
  <2> SUFFICES ASSUME InTime' PROVE LastTokens'
    OBVIOUS
  <2>1. LastTokens /\ RunInTime(j)
    BY <1>1, AsCalm DEF HomeInv, LastTokens
  <2>2. Brings(j)'
    BY <1>1, <2>1 DEF RunInTime, Brings
  <2>3. authFile' # NoFile
    BY <1>2, Blank
  <2>4. \A k \in CodexJobs : RunInTime(k)'
    BY <1>1, <2>1, <2>3 DEF LastTokens, RunInTime
  <2> QED BY <1>2, <2>2, <2>3, <2>4 DEF LastTokens
<1> QED BY <1>4, <1>5, <1>6 DEF HomeInv

\* A job's state becomes r; the row, the file and what was given out stay.
LEMMA RunOnlyTyped ==
  ASSUME HomeInv, NEW j \in CodexJobs, NEW r \in RunRec, Proceed(j, r),
         UNCHANGED <<codexRow, authFile, given, pasted, leaving>>,
         Given(r.copy), Given(r.saw), r.login <= pasted.login
  PROVE  /\ HomeTyped'
         /\ codexRun'[j] = r /\ \A k \in CodexJobs \ {j} : codexRun'[k] = codexRun[k]
<1>0. HomeTyped /\ HomeShape /\ HomeBounds
  BY DEF HomeInv, HomeTyped
<1>1. /\ r.copy.tokens <= given' /\ r.saw.tokens <= given' /\ r.copy.login <= pasted.login
      /\ r.saw.login <= pasted.login /\ given' \in Nat /\ given <= given'
  BY <1>0 DEF HomeShape, Given
<1>2. /\ codexRun' \in [CodexJobs -> RunRec]
      /\ \A k \in CodexJobs : /\ Given(codexRun[k].copy)' /\ Given(codexRun[k].saw)'
                              /\ codexRun'[k].login <= pasted'.login
      /\ codexRun'[j] = r /\ \A k \in CodexJobs \ {j} : codexRun'[k] = codexRun[k]
  BY <1>0, <1>1, JobStepTyped
<1> QED BY <1>0, <1>2 DEF HomeTyped, HomeShape, HomeBounds, Given

\* A job that has read everything it needs is as new.
LEMMA AsNew ==
  ASSUME HomeInv
  PROVE  NewCodexRun \in RunRec /\ Given(NewCodexRun.copy) /\ Given(NewCodexRun.saw)
         /\ NewCodexRun.login <= pasted.login
<1>1. given \in Nat /\ pasted.login \in Nat
  BY DEF HomeInv, HomeTyped, HomeShape, PasteRec
<1> QED BY <1>1, Blank DEF Given

LEMMA JobOverKeeps ==
  ASSUME HomeInv, NEW j \in CodexJobs, JobOver(j)
  PROVE  HomeInv'
<1> DEFINE copy == codexRun[j].copy
           s == [codexRun[j] EXCEPT !.at = "sync", !.saw = authFile]
           done == copy.tokens = 0 \/ authFile \in {NoFile, Auth(copy)}
           r == IF done THEN NewCodexRun ELSE s
<1>0. /\ codexRun[j] \in RunRec /\ copy \in RowRec /\ codexRow \in RowRec /\ authFile \in FileRec
      /\ HomeBounds
  BY DEF HomeInv, HomeTyped, HomeShape, RunRec
<1>1. codexRun[j].at = "running" /\ Proceed(j, r)
      /\ UNCHANGED <<codexRow, authFile, given, pasted, leaving, struck>>
  BY DEF JobOver, SyncReads
<1>2. s \in RunRec /\ s.at = "sync" /\ s.copy = copy /\ s.login = codexRun[j].login /\ s.saw = authFile
  BY <1>0, RunSyncs
<1> HIDE DEF s
<1>3. r \in RunRec /\ Given(r.copy) /\ Given(r.saw) /\ r.login <= pasted.login
  BY <1>0, <1>2, AsNew DEF HomeBounds
<1>4. /\ HomeTyped'
      /\ codexRun'[j] = r /\ \A k \in CodexJobs \ {j} : codexRun'[k] = codexRun[k]
  BY <1>1, <1>3, RunOnlyTyped
<1>5. Undisturbed' => OneLogin'
  <2> SUFFICES ASSUME Undisturbed' PROVE OneLogin'
    OBVIOUS
  <2>1. OneLogin /\ RunGood(j)
    BY <1>1, AsCalm DEF HomeInv, OneLogin
  <2>2. ASSUME NEW k \in CodexJobs PROVE RunGood(k)'
    <3>1. CASE k = j /\ done
      BY <1>4, <3>1, Blank DEF RunGood
    <3>2. CASE k = j /\ ~done
      <4>1. codexRun'[k] = s /\ authFile # NoFile /\ copy.tokens # 0
        BY <1>4, <3>2
      <4>2. /\ pasted.at = "idle" /\ ~leaving
            /\ copy.row = codexRow.row /\ copy.login = codexRow.login
            /\ authFile.login = codexRow.login /\ authFile.tokens # 0 /\ codexRow.tokens # 0
        BY <1>1, <2>1, <4>1 DEF OneLogin, RunGood
      <4> QED BY <1>1, <1>2, <4>1, <4>2 DEF RunGood
    <3>3. CASE k # j
      BY <1>1, <1>4, <2>1, <3>3, RunGoodApart DEF OneLogin
    <3> QED BY <3>1, <3>2, <3>3
  <2> QED BY <1>1, <2>1, <2>2 DEF OneLogin
<1>6. InTime' => LastTokens'
  <2> SUFFICES ASSUME InTime' PROVE LastTokens'
    OBVIOUS
  <2>1. LastTokens /\ RunInTime(j)
    BY <1>1, AsCalm DEF HomeInv, LastTokens
  <2>2. ASSUME NEW k \in CodexJobs PROVE RunInTime(k)'
    <3>1. CASE k = j /\ done
      BY <1>4, <3>1, Blank DEF RunInTime
    <3>2. CASE k = j /\ ~done
      BY <1>1, <1>2, <1>4, <2>1, <3>2 DEF RunInTime
    <3>3. CASE k # j
      BY <1>1, <1>4, <2>1, <3>3 DEF LastTokens, RunInTime
    <3> QED BY <3>1, <3>2, <3>3
  <2>3. codexRow.tokens \notin {0, given} => \E k \in CodexJobs : Brings(k)'
    <3> SUFFICES ASSUME codexRow.tokens \notin {0, given} PROVE \E k \in CodexJobs : Brings(k)'
      OBVIOUS
    <3>1. authFile # NoFile /\ authFile.tokens = given
      BY <2>1 DEF LastTokens
    <3>2. PICK k \in CodexJobs : Brings(k)
      BY <2>1 DEF LastTokens
    <3>3. CASE k # j
      BY <1>1, <1>4, <3>2, <3>3 DEF Brings
    <3>4. CASE k = j
      <4>1. copy.tokens # 0 /\ copy.tokens <= codexRow.tokens
        BY <1>1, <2>1, <3>2, <3>4 DEF Brings, RunInTime
      <4>2. codexRow.tokens <= given /\ codexRow.tokens \in Nat /\ given \in Nat /\ copy.tokens \in Nat
        BY <1>0 DEF HomeBounds, Given, RowRec, HomeInv, HomeTyped, HomeShape
      <4>3. authFile # Auth(copy)
        BY <1>0, <3>1, <4>1, <4>2, AuthIs
      <4>4. ~done
        BY <3>1, <4>1, <4>3
      <4> QED BY <1>1, <1>2, <1>4, <3>1, <4>4 DEF Brings
    <3> QED BY <3>3, <3>4
  <2> QED BY <1>1, <2>1, <2>2, <2>3 DEF LastTokens
<1> QED BY <1>4, <1>5, <1>6 DEF HomeInv

LEMMA LeftOverKeeps ==
  ASSUME HomeInv, NEW j \in CodexJobs, LeftOver(j)
  PROVE  HomeInv'
<1>1. codexRun[j].at = "given up" /\ Proceed(j, NewCodexRun)
      /\ UNCHANGED <<codexRow, authFile, given, pasted, leaving, struck>>
  BY DEF LeftOver
<1>2. /\ HomeTyped'
      /\ codexRun'[j] = NewCodexRun /\ \A k \in CodexJobs \ {j} : codexRun'[k] = codexRun[k]
  BY <1>1, AsNew, RunOnlyTyped
<1>3. Undisturbed' => OneLogin'
  <2> SUFFICES ASSUME Undisturbed' PROVE OneLogin'
    OBVIOUS
  <2>1. OneLogin
    BY <1>1, AsCalm DEF HomeInv
  <2>2. ASSUME NEW k \in CodexJobs PROVE RunGood(k)'
    <3>1. CASE k = j
      BY <1>2, <3>1, Blank DEF RunGood
    <3>2. CASE k # j
      BY <1>1, <1>2, <2>1, <3>2, RunGoodApart DEF OneLogin
    <3> QED BY <3>1, <3>2
  <2> QED BY <1>1, <2>1, <2>2 DEF OneLogin
<1>4. ~InTime'
  BY <1>1, AsCalm DEF HomeInv, LastTokens, RunInTime
<1> QED BY <1>2, <1>3, <1>4 DEF HomeInv

\* The row takes a login and tokens that somebody has; one job moves on.
LEMMA RowWriteTyped ==
  ASSUME HomeInv, NEW j \in CodexJobs, NEW r \in RunRec, Proceed(j, r),
         UNCHANGED <<authFile, given, pasted, leaving>>,
         codexRow' \in RowRec, codexRow'.row = codexRow.row, Given(codexRow'),
         Given(r.copy), Given(r.saw), r.login <= pasted.login
  PROVE  /\ HomeTyped'
         /\ codexRun'[j] = r /\ \A k \in CodexJobs \ {j} : codexRun'[k] = codexRun[k]
<1>0. HomeTyped /\ HomeShape /\ HomeBounds
  BY DEF HomeInv, HomeTyped
<1>1. /\ r.copy.tokens <= given' /\ r.saw.tokens <= given' /\ r.copy.login <= pasted.login
      /\ r.saw.login <= pasted.login /\ given' \in Nat /\ given <= given'
  BY <1>0 DEF HomeShape, Given
<1>2. /\ codexRun' \in [CodexJobs -> RunRec]
      /\ \A k \in CodexJobs : /\ Given(codexRun[k].copy)' /\ Given(codexRun[k].saw)'
                              /\ codexRun'[k].login <= pasted'.login
      /\ codexRun'[j] = r /\ \A k \in CodexJobs \ {j} : codexRun'[k] = codexRun[k]
  BY <1>0, <1>1, JobStepTyped
<1>3. Given(codexRow)'
  BY DEF Given
<1> QED BY <1>0, <1>2, <1>3 DEF HomeTyped, HomeShape, HomeBounds, Given

LEMMA GiveUpOnKeeps ==
  ASSUME HomeInv, NEW j \in CodexJobs, GiveUpOn(j)
  PROVE  HomeInv'
<1> DEFINE r == [codexRun[j] EXCEPT !.at = "given up"]
           synced == [codexRow EXCEPT !.login = authFile.login, !.tokens = authFile.tokens]
           there == codexRow.row = codexRun[j].copy.row /\ codexRun[j].copy.tokens # 0 /\ authFile # NoFile
<1>0. /\ codexRun[j] \in RunRec /\ codexRow \in RowRec /\ authFile \in FileRec
      /\ authFile.login \in Nat /\ authFile.tokens \in Nat /\ HomeBounds
  BY DEF HomeInv, HomeTyped, HomeShape, FileRec
<1>1. /\ codexRun[j].at = "running" /\ Proceed(j, r)
      /\ codexRow' = IF there THEN synced ELSE codexRow
      /\ UNCHANGED <<authFile, given, pasted, leaving>> /\ Strike({"timeout"})
  BY DEF GiveUpOn
<1>2. /\ r \in RunRec /\ r.at = "given up" /\ r.copy = codexRun[j].copy
      /\ r.login = codexRun[j].login /\ r.saw = codexRun[j].saw
  BY <1>0, RunGivenUp
<1>3. /\ synced \in RowRec /\ synced.row = codexRow.row /\ synced.login = authFile.login
      /\ synced.tokens = authFile.tokens
  BY <1>0, RowSynced
<1> HIDE DEF r, synced
<1>4. codexRow' \in RowRec /\ codexRow'.row = codexRow.row /\ Given(codexRow')
  BY <1>0, <1>1, <1>3 DEF HomeBounds, Given
<1>5. Given(r.copy) /\ Given(r.saw) /\ r.login <= pasted.login
  BY <1>0, <1>2 DEF HomeBounds
<1>6. /\ HomeTyped'
      /\ codexRun'[j] = r /\ \A k \in CodexJobs \ {j} : codexRun'[k] = codexRun[k]
  BY <1>1, <1>2, <1>4, <1>5, RowWriteTyped
<1>7. Undisturbed' => OneLogin'
  <2> SUFFICES ASSUME Undisturbed' PROVE OneLogin'
    OBVIOUS
  <2>1. OneLogin /\ RunGood(j)
    BY <1>1, Calmer DEF HomeInv, OneLogin
  <2>2. codexRow'.login = codexRow.login /\ (codexRow'.tokens = 0 <=> codexRow.tokens = 0)
    BY <1>1, <1>3, <2>1 DEF OneLogin
  <2>3. ASSUME NEW k \in CodexJobs PROVE RunGood(k)'
    <3>1. CASE k = j
      BY <1>1, <1>2, <1>4, <1>6, <2>1, <2>2, <3>1 DEF RunGood
    <3>2. CASE k # j
      BY <1>1, <1>4, <1>6, <2>1, <2>2, <3>2, RunGoodApart DEF OneLogin
    <3> QED BY <3>1, <3>2
  <2> QED BY <1>1, <2>1, <2>2, <2>3 DEF OneLogin
<1>8. ~InTime'
  BY <1>1, Calmer
<1> QED BY <1>6, <1>7, <1>8 DEF HomeInv

LEMMA SyncWritesKeeps ==
  ASSUME HomeInv, NEW j \in CodexJobs, SyncWrites(j)
  PROVE  HomeInv'
<1> DEFINE r == codexRun[j]
           synced == [codexRow EXCEPT !.login = r.saw.login, !.tokens = r.saw.tokens]
           there == codexRow.row = r.copy.row
<1>0. /\ r \in RunRec /\ codexRow \in RowRec /\ r.copy \in RowRec /\ r.saw \in FileRec
      /\ r.saw.login \in Nat /\ r.saw.tokens \in Nat /\ HomeBounds
  BY DEF HomeInv, HomeTyped, HomeShape, FileRec, RunRec
<1>1. /\ r.at = "sync" /\ Proceed(j, NewCodexRun)
      /\ codexRow' = IF there THEN synced ELSE codexRow
      /\ UNCHANGED <<authFile, given, pasted, leaving>>
      /\ StrikeIf(there /\ r.saw.tokens < codexRow.tokens, "order")
  BY DEF SyncWrites
<1>2. /\ synced \in RowRec /\ synced.row = codexRow.row /\ synced.login = r.saw.login
      /\ synced.tokens = r.saw.tokens
  BY <1>0, RowSynced
<1> HIDE DEF synced
<1>3. codexRow' \in RowRec /\ codexRow'.row = codexRow.row /\ Given(codexRow')
  BY <1>0, <1>1, <1>2 DEF HomeBounds, Given
<1>4. /\ HomeTyped'
      /\ codexRun'[j] = NewCodexRun /\ \A k \in CodexJobs \ {j} : codexRun'[k] = codexRun[k]
  BY <1>1, <1>3, AsNew, RowWriteTyped
<1>5. /\ InTime' => InTime /\ Undisturbed' /\ ~(there /\ r.saw.tokens < codexRow.tokens)
      /\ Undisturbed' => Undisturbed
  BY <1>1, Calmer DEF StrikeIf
<1>6. Undisturbed' => /\ OneLogin /\ there /\ codexRow' = synced
                      /\ codexRow'.login = codexRow.login
                      /\ codexRow'.tokens # 0 /\ codexRow.tokens # 0
  BY <1>1, <1>2, <1>5 DEF HomeInv, OneLogin, RunGood
<1>7. Undisturbed' => OneLogin'
  <2> SUFFICES ASSUME Undisturbed' PROVE OneLogin'
    OBVIOUS
  <2>1. ASSUME NEW k \in CodexJobs PROVE RunGood(k)'
    <3>1. CASE k = j
      BY <1>4, <3>1, Blank DEF RunGood
    <3>2. CASE k # j
      BY <1>1, <1>3, <1>4, <1>6, <3>2, RunGoodApart DEF OneLogin
    <3> QED BY <3>1, <3>2
  <2> QED BY <1>1, <1>6, <2>1 DEF OneLogin
<1>8. InTime' => LastTokens'
  <2> SUFFICES ASSUME InTime' PROVE LastTokens'
    OBVIOUS
  <2>1. LastTokens /\ RunInTime(j)
    BY <1>5 DEF HomeInv, LastTokens
  <2>2. /\ codexRow'.tokens = r.saw.tokens /\ codexRow.tokens <= r.saw.tokens
        /\ codexRow.tokens \in Nat /\ r.saw.tokens \in Nat /\ given \in Nat
        /\ r.saw.tokens <= given
    BY <1>0, <1>2, <1>5, <1>6 DEF RowRec, HomeInv, HomeTyped, HomeShape, HomeBounds, Given
  <2>3. authFile # NoFile
    BY <1>1, <1>5, <2>1 DEF HomeInv, OneLogin, RunGood, RunInTime
  <2>4. ASSUME NEW k \in CodexJobs PROVE RunInTime(k)'
    <3>1. CASE k = j
      BY <1>4, <3>1, Blank DEF RunInTime
    <3>2. CASE k # j
      <4>1. codexRun[k].copy.tokens \in Nat
        BY DEF HomeInv, HomeTyped, HomeShape, RunRec, RowRec
      <4>2. RunInTime(k)
        BY <2>1 DEF LastTokens
      <4>3. codexRun[k].copy.tokens <= codexRow.tokens => codexRun[k].copy.tokens <= codexRow'.tokens
        BY <2>2, <4>1
      <4>4. codexRun'[k] = codexRun[k] /\ authFile' = authFile
        BY <1>1, <1>4, <3>2
      <4> QED BY <2>3, <4>2, <4>3, <4>4 DEF RunInTime
    <3> QED BY <3>1, <3>2
  <2>5. codexRow'.tokens \notin {0, given} => \E k \in CodexJobs : Brings(k)'
    <3> SUFFICES ASSUME codexRow'.tokens \notin {0, given} PROVE \E k \in CodexJobs : Brings(k)'
      OBVIOUS
    <3>1. codexRow.tokens \notin {0, given} /\ r.saw.tokens # given
      BY <1>5, <1>6, <2>2
    <3>2. PICK k \in CodexJobs : Brings(k)
      BY <2>1, <3>1 DEF LastTokens
    <3>3. k # j
      BY <1>1, <3>1, <3>2 DEF Brings
    <3> QED BY <1>1, <1>4, <3>2, <3>3 DEF Brings
  <2> QED BY <1>1, <2>1, <2>3, <2>4, <2>5 DEF LastTokens
<1> QED BY <1>4, <1>7, <1>8 DEF HomeInv

-----------------------------------------------------------------------------
(* The user, the process and the volume. *)

\* Nobody is at work in the home when its user logs in or out, or "athome" is struck.
LEMMA NobodyHome ==
  ASSUME NEW windows, Strike(AtHome \cup windows), Undisturbed'
  PROVE  \A j \in CodexJobs : codexRun[j].at = "new"
BY DEF Strike, AtHome, Somebody, Undisturbed, Spared

LEMMA NobodyHere ==
  ASSUME Strike(AtHome), Undisturbed'
  PROVE  \A j \in CodexJobs : codexRun[j].at = "new"
BY DEF Strike, AtHome, Somebody, Undisturbed, Spared

\* Where everybody is new there is nothing to say of a job.
LEMMA AllNew ==
  ASSUME \A j \in CodexJobs : codexRun'[j].at = "new"
  PROVE  \A j \in CodexJobs : RunGood(j)' /\ RunInTime(j)'
BY DEF RunGood, RunInTime

LEMMA AllNewBringsNothing ==
  ASSUME \A j \in CodexJobs : codexRun[j].at = "new"
  PROVE  ~\E j \in CodexJobs : Brings(j)
BY DEF Brings

LEMMA PasteKeeps ==
  ASSUME HomeInv, NEW key \in BOOLEAN, Paste(key)
  PROVE  HomeInv'
<1>0. HomeTyped /\ HomeShape /\ HomeBounds
  BY DEF HomeInv, HomeTyped
<1>1. /\ pasted.login < MaxPastes /\ Strike(AtHome)
      /\ pasted' = [at |-> "save", row |-> codexRow.row, login |-> pasted.login + 1, key |-> key]
      /\ UNCHANGED <<codexRow, authFile, given, codexRun, leaving>>
  BY DEF Paste
<1>2. pasted.login \in Nat /\ pasted.login + 1 \in Nat /\ codexRow.row \in Nat
  BY <1>0 DEF HomeShape, PasteRec, RowRec
<1>3. pasted' \in PasteRec /\ pasted'.login = pasted.login + 1 /\ pasted'.row = codexRow.row
  <2>1. "save" \in {"idle", "save"}
    OBVIOUS
  <2> QED BY <1>1, <1>2, <2>1, PasteIs
<1>4. HomeTyped'
  <2>1. \A n \in Nat : n <= pasted.login => n <= pasted'.login
    BY <1>2, <1>3
  <2>2. /\ codexRow.login \in Nat /\ authFile.login \in Nat
        /\ \A k \in CodexJobs : /\ codexRun[k].copy.login \in Nat /\ codexRun[k].saw.login \in Nat
                                /\ codexRun[k].login \in Nat
    BY <1>0 DEF HomeShape, RunRec, RowRec, FileRec
  <2>3. pasted'.login <= MaxPastes
    BY <1>1, <1>2, <1>3, CodexAssumption
  <2>4. Given(codexRow)' /\ Given(authFile)' /\ codexRow'.row <= pasted'.login /\ pasted'.row <= pasted'.login
    BY <1>0, <1>1, <1>2, <1>3, <2>1, <2>2 DEF HomeBounds, Given
  <2>5. \A k \in CodexJobs : /\ Given(codexRun[k].copy)' /\ Given(codexRun[k].saw)'
                             /\ codexRun'[k].login <= pasted'.login
    BY <1>0, <1>1, <2>1, <2>2 DEF HomeBounds, Given
  <2>6. HomeShape'
    BY <1>0, <1>1, <1>3 DEF HomeShape
  <2> QED BY <1>0, <1>1, <2>3, <2>4, <2>5, <2>6 DEF HomeTyped, HomeBounds
<1>5. Undisturbed' => OneLogin'
  <2> SUFFICES ASSUME Undisturbed' PROVE OneLogin'
    OBVIOUS
  <2>1. OneLogin /\ \A j \in CodexJobs : codexRun[j].at = "new"
    BY <1>1, Calmer, NobodyHere DEF HomeInv
  <2>2. \A j \in CodexJobs : RunGood(j)'
    BY <1>1, <2>1, AllNew
  <2> QED BY <1>1, <2>1, <2>2 DEF OneLogin
<1>6. InTime' => LastTokens'
  <2>1. InTime' => InTime
    BY <1>1, Calmer
  <2> QED BY <1>1, <2>1 DEF HomeInv, LastTokens, RunInTime, Brings
<1> QED BY <1>4, <1>5, <1>6 DEF HomeInv

LEMMA SavePastedKeeps ==
  ASSUME HomeInv, SavePasted
  PROVE  HomeInv'
<1> DEFINE here == pasted.row \in {0, codexRow.row}
           number == IF pasted.row = 0 THEN pasted.login ELSE codexRow.row
           tokens == IF pasted.key THEN 0 ELSE given'
           saved == [row |-> number, login |-> pasted.login, tokens |-> tokens]
           over == IF codexRow # NoRowHere THEN {"over"} ELSE {}
<1>0. HomeTyped /\ HomeShape /\ HomeBounds /\ codexRow \in RowRec
      /\ given \in Nat /\ pasted.login \in Nat /\ codexRow.row \in Nat /\ pasted.login \in Nat
      /\ codexRow.row <= pasted.login /\ Given(codexRow)
  BY DEF HomeInv, HomeTyped, HomeShape, HomeBounds, PasteRec, RowRec
<1>1. /\ pasted.key \/ given < MaxTokens
      /\ given' = IF here /\ ~pasted.key THEN given + 1 ELSE given
      /\ codexRow' = IF ~here THEN codexRow ELSE saved
      /\ Strike(AtHome \cup over)
      /\ pasted' = [pasted EXCEPT !.at = "idle", !.row = 0, !.key = FALSE]
      /\ UNCHANGED <<authFile, codexRun, leaving>>
  BY DEF SavePasted
<1>2. given' \in Nat /\ given <= given' /\ given' <= MaxTokens
  <2>1. given <= MaxTokens /\ MaxTokens \in Nat
    BY <1>0, CodexAssumption DEF HomeBounds
  <2>2. CASE here /\ ~pasted.key
    <3>1. given' = given + 1 /\ given < MaxTokens
      BY <1>1, <2>2
    <3> QED BY <1>0, <2>1, <3>1
  <2>3. CASE ~(here /\ ~pasted.key)
    <3>1. given' = given
      BY <1>1, <2>3
    <3> QED BY <1>0, <2>1, <3>1
  <2> QED BY <2>2, <2>3
<1>3. /\ pasted' \in PasteRec /\ pasted'.at = "idle" /\ pasted'.row = 0
      /\ pasted'.login = pasted.login
  BY <1>0, <1>1, PasteOver DEF HomeShape
<1>4. tokens \in Nat /\ tokens <= given'
  <2>1. tokens = 0 \/ tokens = given'
    OBVIOUS
  <2> HIDE DEF tokens
  <2> QED BY <1>2, <2>1
<1>5. number \in Nat /\ number <= pasted.login
  BY <1>0
<1> HIDE DEF tokens, number
<1>6. saved \in RowRec /\ saved.row = number /\ saved.login = pasted.login /\ saved.tokens = tokens
  BY <1>0, <1>4, <1>5 DEF RowRec
<1> HIDE DEF saved
<1>7. codexRow' \in RowRec /\ Given(codexRow)' /\ codexRow'.row <= pasted'.login
  <2>1. CASE here
    <3>1. codexRow' = saved
      BY <1>1, <2>1
    <3> QED BY <1>0, <1>3, <1>4, <1>5, <1>6, <3>1 DEF Given
  <2>2. CASE ~here
    <3>1. codexRow' = codexRow /\ codexRow.tokens \in Nat
      BY <1>0, <1>1, <2>2 DEF RowRec
    <3>2. codexRow.tokens <= given'
      BY <1>0, <1>2, <3>1 DEF Given
    <3> QED BY <1>0, <1>3, <3>1, <3>2 DEF Given
  <2> QED BY <2>1, <2>2
<1>8. HomeTyped'
  <2>1. \A n \in Nat : n <= given => n <= given'
    BY <1>0, <1>2
  <2>2. /\ authFile.tokens \in Nat
        /\ \A k \in CodexJobs : codexRun[k].copy.tokens \in Nat /\ codexRun[k].saw.tokens \in Nat
    BY <1>0 DEF HomeShape, RunRec, RowRec, FileRec
  <2>3. Given(authFile)' /\ pasted'.row <= pasted'.login /\ pasted'.login <= MaxPastes
    BY <1>0, <1>1, <1>3, <2>1, <2>2 DEF HomeBounds, Given
  <2>4. \A k \in CodexJobs : /\ Given(codexRun[k].copy)' /\ Given(codexRun[k].saw)'
                             /\ codexRun'[k].login <= pasted'.login
    BY <1>0, <1>1, <1>3, <2>1, <2>2 DEF HomeBounds, Given
  <2>5. HomeShape'
    BY <1>0, <1>1, <1>2, <1>3, <1>7 DEF HomeShape
  <2> QED BY <1>2, <1>7, <2>3, <2>4, <2>5 DEF HomeTyped, HomeBounds
<1>9. Undisturbed' => /\ Undisturbed /\ OneLogin /\ codexRow = NoRowHere /\ authFile = NoFile
                      /\ \A j \in CodexJobs : codexRun[j].at = "new"
  <2> SUFFICES ASSUME Undisturbed' PROVE /\ Undisturbed /\ OneLogin /\ codexRow = NoRowHere
                                         /\ authFile = NoFile
                                         /\ \A j \in CodexJobs : codexRun[j].at = "new"
    OBVIOUS
  <2>1. Undisturbed /\ OneLogin /\ codexRow = NoRowHere
    BY <1>1, Calmer DEF HomeInv
  <2>2. authFile = NoFile
    BY <2>1, Blank DEF OneLogin
  <2> QED BY <1>1, <2>1, <2>2, NobodyHome
<1>10. Undisturbed' => OneLogin'
  <2>1. Undisturbed' => \A j \in CodexJobs : RunGood(j)'
    BY <1>1, <1>9, AllNew
  <2> QED BY <1>1, <1>9, <2>1 DEF OneLogin
<1>11. InTime' => LastTokens'
  <2> SUFFICES ASSUME InTime' PROVE LastTokens'
    OBVIOUS
  <2>1. /\ codexRow = NoRowHere /\ authFile = NoFile /\ InTime
        /\ \A j \in CodexJobs : RunInTime(j)'
    BY <1>1, <1>9, Calmer, AllNew
  <2>2. codexRow'.tokens \in {0, given'}
    BY <1>1, <1>6, <2>1, Blank DEF tokens
  <2> QED BY <1>1, <2>1, <2>2 DEF LastTokens
<1> QED BY <1>8, <1>10, <1>11 DEF HomeInv

LEMMA LeaveHomeKeeps ==
  ASSUME HomeInv, LeaveHome
  PROVE  HomeInv'
<1>0. HomeTyped /\ HomeShape /\ HomeBounds /\ given \in Nat /\ pasted.login \in Nat
  BY DEF HomeInv, HomeTyped, HomeShape, PasteRec
<1>1. /\ leaving' = TRUE /\ authFile' = NoFile /\ Strike(AtHome)
      /\ UNCHANGED <<codexRow, given, codexRun, pasted>>
  BY DEF LeaveHome
<1>2. HomeTyped'
  BY <1>0, <1>1, Blank DEF HomeTyped, HomeShape, HomeBounds, Given
<1>3. Undisturbed' => /\ Undisturbed /\ \A j \in CodexJobs : codexRun[j].at = "new"
  BY <1>1, Calmer, NobodyHere
<1>4. Undisturbed' => \A j \in CodexJobs : RunGood(j)' /\ RunInTime(j)'
  BY <1>1, <1>3, AllNew
<1>5. Undisturbed' => OneLogin'
  BY <1>1, <1>4 DEF OneLogin
<1>6. InTime' => LastTokens'
  <2>1. InTime' => InTime /\ Undisturbed'
    BY <1>1, Calmer
  <2>2. InTime' => codexRow.tokens \in {0, given}
    BY <1>3, <2>1, AllNewBringsNothing DEF HomeInv, LastTokens
  <2> QED BY <1>1, <1>4, <2>1, <2>2 DEF LastTokens
<1> QED BY <1>2, <1>5, <1>6 DEF HomeInv

LEMMA DeleteCodexRowKeeps ==
  ASSUME HomeInv, DeleteCodexRow
  PROVE  HomeInv'
<1>0. HomeTyped /\ HomeShape /\ HomeBounds /\ given \in Nat /\ pasted.login \in Nat
  BY DEF HomeInv, HomeTyped, HomeShape, PasteRec
<1>1. /\ leaving /\ leaving' = FALSE /\ codexRow' = NoRowHere /\ Strike(AtHome)
      /\ UNCHANGED <<authFile, given, codexRun, pasted>>
  BY DEF DeleteCodexRow
<1>2. HomeTyped'
  <2>1. HomeShape'
    BY <1>0, <1>1, Blank DEF HomeShape
  <2>2. Given(codexRow)' /\ codexRow'.row <= pasted'.login
    BY <1>0, <1>1, Blank DEF Given
  <2> QED BY <1>0, <1>1, <2>1, <2>2 DEF HomeTyped, HomeBounds, Given
<1>3. Undisturbed' => /\ Undisturbed /\ OneLogin /\ \A j \in CodexJobs : codexRun[j].at = "new"
  BY <1>1, Calmer, NobodyHere DEF HomeInv
<1>4. Undisturbed' => \A j \in CodexJobs : RunGood(j)' /\ RunInTime(j)'
  BY <1>1, <1>3, AllNew
<1>5. Undisturbed' => OneLogin' /\ authFile' = NoFile
  BY <1>1, <1>3, <1>4 DEF OneLogin
<1>6. InTime' => LastTokens'
  <2>1. InTime' => Undisturbed'
    BY <1>1, Calmer
  <2> QED BY <1>1, <1>4, <1>5, <2>1, Blank DEF LastTokens
<1> QED BY <1>2, <1>5, <1>6 DEF HomeInv

LEMMA ServerDiesKeeps ==
  ASSUME HomeInv, NEW volume \in BOOLEAN, ServerDies(volume)
  PROVE  HomeInv'
<1> DEFINE died == IF \E j \in CodexJobs : codexRun[j].copy.tokens # 0 THEN {"died"} ELSE {}
<1>0. HomeTyped /\ HomeShape /\ HomeBounds /\ given \in Nat /\ pasted.login \in Nat
  BY DEF HomeInv, HomeTyped, HomeShape, PasteRec
<1>1. /\ authFile' = IF volume THEN authFile ELSE NoFile
      /\ codexRun' = [j \in CodexJobs |-> NewCodexRun]
      /\ pasted' = [pasted EXCEPT !.at = "idle", !.row = 0, !.key = FALSE]
      /\ leaving' = FALSE
      /\ UNCHANGED <<codexRow, given>>
      /\ Strike(died)
  BY DEF ServerDies
<1>2. /\ pasted' \in PasteRec /\ pasted'.at = "idle" /\ pasted'.row = 0
      /\ pasted'.login = pasted.login
  BY <1>0, <1>1, PasteOver DEF HomeShape
<1>3. authFile' = authFile \/ authFile' = NoFile
  BY <1>1
<1>4. \A j \in CodexJobs : codexRun'[j] = NewCodexRun /\ codexRun'[j].at = "new"
  BY <1>1, Blank
<1>5. HomeTyped'
  <2>1. HomeShape'
    BY <1>0, <1>1, <1>2, <1>3, Blank DEF HomeShape
  <2>2. Given(authFile)' /\ Given(codexRow)' /\ codexRow'.row <= pasted'.login
    BY <1>0, <1>1, <1>2, <1>3, Blank DEF HomeBounds, Given
  <2>3. \A k \in CodexJobs : /\ Given(codexRun[k].copy)' /\ Given(codexRun[k].saw)'
                             /\ codexRun'[k].login <= pasted'.login
    BY <1>0, <1>1, <1>2, <1>4, Blank DEF Given
  <2> QED BY <1>0, <1>1, <1>2, <2>1, <2>2, <2>3 DEF HomeTyped, HomeBounds
<1>6. \A j \in CodexJobs : RunGood(j)' /\ RunInTime(j)'
  BY <1>4, AllNew
<1>7. Undisturbed' => OneLogin'
  <2>1. Undisturbed' => OneLogin
    BY <1>1, Calmer DEF HomeInv
  <2> QED BY <1>1, <1>3, <1>6, <2>1 DEF OneLogin
<1>8. InTime' => LastTokens'
  <2> SUFFICES ASSUME InTime' PROVE LastTokens'
    OBVIOUS
  <2>1. LastTokens /\ OneLogin /\ \A j \in CodexJobs : codexRun[j].copy.tokens = 0
    BY <1>1, Calmer, InTimeIsUndisturbed DEF HomeInv
  <2>2. ~\E j \in CodexJobs : Brings(j)
    BY <2>1 DEF Brings, OneLogin, RunGood
  <2>3. codexRow.tokens \in {0, given}
    BY <2>1, <2>2 DEF LastTokens
  <2> QED BY <1>1, <1>3, <1>6, <2>1, <2>3 DEF LastTokens
<1> QED BY <1>5, <1>7, <1>8 DEF HomeInv

-----------------------------------------------------------------------------
LEMMA HomeInvStep == HomeInv /\ [CodexNext]_codexVars => HomeInv'
<1> SUFFICES ASSUME HomeInv, [CodexNext]_codexVars PROVE HomeInv'
  OBVIOUS
<1>1. CASE UNCHANGED codexVars
  BY <1>1 DEF codexVars, HomeInv, HomeTyped, HomeShape, HomeBounds, Given, Undisturbed, InTime, Spared,
     OneLogin, RunGood, LastTokens, RunInTime, Brings
<1>2. CASE CodexNext
  BY <1>2, ReadCodexRowKeeps, EnterHomeKeeps, RotateTokensKeeps, JobOverKeeps, GiveUpOnKeeps,
     LeftOverKeeps, SyncWritesKeeps, PasteKeeps, SavePastedKeeps, LeaveHomeKeeps, DeleteCodexRowKeeps,
     ServerDiesKeeps DEF CodexNext
<1> QED BY <1>1, <1>2

\* Types: no token in the row, the file or a job that was not given out, and no
\* login that was not made.
THEOREM HomeTypes == CodexSpec => []CodexTypeOK
<1>1. HomeInv => CodexTypeOK
  BY DEF HomeInv, HomeTyped, HomeShape, HomeBounds, Given, CodexTypeOK, RunRec, Stages
<1> QED BY <1>1, HomeInvInit, HomeInvStep, PTL DEF CodexSpec

\* A job runs on the login of the row it has read, and once all have ended the row
\* has the last tokens and the file is the row's, for any number of jobs that
\* rotate, sync, overtake one another and restart, but for the windows
\* (accountRuntime and its sync, deleteAccount).
THEOREM HomeFollows == CodexSpec => []HomeFollowsRow
<1>1. HomeInv => HomeFollowsRow
  <2> SUFFICES ASSUME HomeInv PROVE HomeFollowsRow
    OBVIOUS
  <2>1. RunsOnItsLoginBarring
    BY DEF HomeInv, Undisturbed, OneLogin, RunGood, RunsOnItsLoginBarring, RunsOnItsLogin
  <2>2. ASSUME InTime, ~Somebody
        PROVE  codexRow.tokens \in {0, given} /\ (authFile # NoFile => authFile = Auth(codexRow))
    <3>1. OneLogin /\ LastTokens
      BY <2>2, InTimeIsUndisturbed DEF HomeInv
    <3>2. codexRow.tokens \in {0, given}
      BY <2>2, <3>1, AllNewBringsNothing DEF LastTokens, Somebody
    <3>3. ASSUME authFile # NoFile PROVE authFile = Auth(codexRow)
      <4>1. authFile \in FileRec /\ codexRow \in RowRec
        BY DEF HomeInv, HomeTyped, HomeShape
      <4>2. authFile.login = codexRow.login /\ authFile.tokens = codexRow.tokens
        BY <3>1, <3>2, <3>3 DEF OneLogin, LastTokens
      <4> QED BY <4>1, <4>2, AuthIs, SameFile
    <3> QED BY <3>2, <3>3
  <2> QED BY <2>1, <2>2 DEF HomeFollowsRow, RowKeepsUp, InTime
<1> QED BY <1>1, HomeInvInit, HomeInvStep, PTL DEF CodexSpec

-----------------------------------------------------------------------------
(***************************************************************************)
(* Pauses, for any users and any number of runners, and for every choice   *)
(* of windows and bounds.                                                  *)
(***************************************************************************)

(***************************************************************************)
(* Shapes, and what a runner has in hand: a job's own wall is its user's,  *)
(* or that of a login he has replaced since.                               *)
(***************************************************************************)
PauseEnds == {"never", "later", "passed"}
AcctRec == [ends : PauseEnds, about : Walls]
HandRec == [at : {"idle", "sweeping", "claiming", "working", "pausing", "telling"},
            user : Owners \cup {NoOne}, hit : Walls, left : BOOLEAN,
            sees : SUBSET Owners, shares : BOOLEAN, read : {<<>>} \cup [Owners -> PauseEnds]]

Fine(r) ==
  /\ r.at \in {"working", "pausing", "telling"} => r.user \in Owners
  /\ r.at = "pausing" => r.hit # NoOne
  /\ r.at = "sweeping" => r.read \in [Owners -> PauseEnds]
  /\ r.at = "working" => ~r.left
  /\ r.at \in {"working", "pausing"} /\ ~r.left => r.hit \in {NoOne, Past, r.user}

Rows == /\ acct \in [Owners -> AcctRec]
        /\ \A u \in Owners : acct[u].about = NoOne <=> acct[u].ends = "never"

PauseShape ==
  /\ walled \subseteq Owners /\ noted \in Walls
  /\ heldSet \in [ids : SUBSET Owners, recent : BOOLEAN]
  /\ Rows
  /\ hand \in [Hands -> HandRec] /\ \A h \in Hands : Fine(hand[h])

(***************************************************************************)
(* While no window has been gone through, a pause in the row is known to   *)
(* every claim that could go by it: the recent set has its user, and so    *)
(* has every set a claim shares with it, unless somebody who has written   *)
(* the row is about to tell them.                                          *)
(***************************************************************************)
Told ==
  \A u \in Owners : Paused(u) /\ ~UntoldOf(u) =>
    /\ heldSet.recent => u \in heldSet.ids
    /\ \A h \in Hands : hand[h].at = "claiming" /\ hand[h].shares => u \in hand[h].sees

PauseInv == /\ PauseShape
            /\ struck = {} => Told
            /\ PausedForItsOwnBarring

\* A step that gives no runner a user, and one that clears no running pause.
KeepsUsers == \A h \in Hands : hand'[h].user \in {NoOne, hand[h].user}
KeepsPauses == \A u \in Owners : Paused(u) => acct'[u] # NoPause

HoldsStep ==
  \A u \in Owners :
    Paused(u) /\ Spared({"between", "crossed", "unread", "sibling"})' =>
      /\ \A h \in Hands : hand'[h].user = u => hand[h].user = u
      /\ acct'[u] = NoPause /\ Spared({"swept"})' => ResumeByHand(u) \/ LoginAnew(u)

LEMMA QuietHolds == KeepsUsers /\ KeepsPauses => HoldsStep
BY PausesAssumption DEF KeepsUsers, KeepsPauses, HoldsStep

-----------------------------------------------------------------------------
LEMMA Before ==
  PauseInv /\ struck = {} => PauseShape /\ Told /\ PausedForItsOwn
BY DEF PauseInv, PausedForItsOwnBarring, Spared

LEMMA PausesInvInit == PausesInit => PauseInv
<1> SUFFICES ASSUME PausesInit PROVE PauseInv
  OBVIOUS
<1>1. NoPause \in AcctRec /\ NoPause.about = NoOne /\ NoPause.ends = "never"
  BY DEF NoPause, AcctRec, PauseEnds, Walls
<1>2. Resting \in HandRec /\ Fine(Resting)
  BY DEF Resting, HandRec, Fine, Walls
<1>3. acct \in [Owners -> AcctRec] /\ \A u \in Owners : acct[u] = NoPause
  BY <1>1 DEF PausesInit
<1>4. hand \in [Hands -> HandRec] /\ \A h \in Hands : hand[h] = Resting
  BY <1>2 DEF PausesInit
<1>5. PauseShape
  BY <1>1, <1>2, <1>3, <1>4 DEF PausesInit, PauseShape, Rows, Walls
<1>6. Told
  BY <1>1, <1>3 DEF Told, Paused
<1>7. PausedForItsOwn
  BY <1>1, <1>3 DEF PausedForItsOwn
<1> QED BY <1>5, <1>6, <1>7 DEF PauseInv, PausedForItsOwnBarring

\* One runner goes on, the others stay.
LEMMA GoesOne ==
  ASSUME PauseShape, NEW h \in Hands, NEW r \in HandRec, Fine(r), Goes(h, r)
  PROVE  /\ hand' \in [Hands -> HandRec] /\ \A k \in Hands : Fine(hand'[k])
         /\ hand'[h] = r /\ \A k \in Hands \ {h} : hand'[k] = hand[k]
<1>1. hand' = [hand EXCEPT ![h] = r] /\ hand \in [Hands -> HandRec]
  BY DEF Goes, PauseShape
<1>2. hand' \in [Hands -> HandRec] /\ hand'[h] = r /\ \A k \in Hands \ {h} : hand'[k] = hand[k]
  BY <1>1
<1>3. \A k \in Hands : Fine(hand'[k])
  BY <1>2 DEF PauseShape
<1> QED BY <1>2, <1>3

LEMMA PauseShapeAgain ==
  ASSUME walled' \subseteq Owners, noted' \in Walls,
         heldSet' \in [ids : SUBSET Owners, recent : BOOLEAN], Rows',
         hand' \in [Hands -> HandRec], \A k \in Hands : Fine(hand'[k])
  PROVE  PauseShape'
<1>1. \A k \in Hands : Fine(hand[k])'
  BY DEF Fine
<1> QED BY <1>1 DEF PauseShape

\* What was told stays told, when no pause is new.
LEMMA ToldAgain ==
  ASSUME Told, \A u \in Owners : Paused(u)' => Paused(u),
         \A u \in Owners : UntoldOf(u) => UntoldOf(u)',
         heldSet' = heldSet \/ ~heldSet'.recent,
         \A k \in Hands : hand'[k].at = "claiming" /\ hand'[k].shares =>
           /\ hand[k].at = "claiming" /\ hand[k].shares /\ hand[k].sees \subseteq hand'[k].sees
  PROVE  Told'
<1> SUFFICES ASSUME NEW u \in Owners, Paused(u)', ~UntoldOf(u)'
             PROVE  /\ heldSet'.recent => u \in heldSet'.ids
                    /\ \A h \in Hands : hand'[h].at = "claiming" /\ hand'[h].shares =>
                                          u \in hand'[h].sees
  BY DEF Told
<1>1. Paused(u) /\ ~UntoldOf(u)
  OBVIOUS
<1> QED BY <1>1 DEF Told

\* A runner that pauses nobody and tells nobody.
LEMMA OneRunner ==
  ASSUME PauseInv, struck = {}, NEW h \in Hands, NEW r \in HandRec, Fine(r), Goes(h, r),
         hand[h].at # "telling",
         r.at = "claiming" /\ r.shares => heldSet.recent /\ r.sees = heldSet.ids,
         UNCHANGED <<walled, acct, heldSet>>, noted' \in Walls
  PROVE  PauseInv' /\ KeepsPauses
<1>1. PauseShape /\ Told /\ PausedForItsOwn
  BY Before
<1>2. /\ hand' \in [Hands -> HandRec] /\ \A k \in Hands : Fine(hand'[k])
      /\ hand'[h] = r /\ \A k \in Hands \ {h} : hand'[k] = hand[k]
  BY <1>1, GoesOne
<1>3. PauseShape'
  <2>1. Rows'
    BY <1>1 DEF PauseShape, Rows
  <2> QED BY <1>1, <1>2, <2>1, PauseShapeAgain DEF PauseShape
<1>4. Told'
  <2> SUFFICES ASSUME NEW u \in Owners, Paused(u)', ~UntoldOf(u)'
               PROVE  /\ heldSet'.recent => u \in heldSet'.ids
                      /\ \A k \in Hands : hand'[k].at = "claiming" /\ hand'[k].shares =>
                                            u \in hand'[k].sees
    BY DEF Told
  <2>1. Paused(u)
    BY DEF Paused
  <2>2. ~UntoldOf(u)
    BY <1>2 DEF UntoldOf
  <2> QED BY <1>1, <1>2, <2>1, <2>2 DEF Told
<1>5. PausedForItsOwn'
  BY <1>1 DEF PausedForItsOwn
<1>6. KeepsPauses
  BY DEF KeepsPauses, Paused, NoPause
<1> QED BY <1>3, <1>4, <1>5, <1>6 DEF PauseInv, PausedForItsOwnBarring

-----------------------------------------------------------------------------
(* The steps of a claim. *)

LEMMA UseHeldSetKeeps ==
  ASSUME PauseInv, struck = {}, NEW h \in Hands, UseHeldSet(h)
  PROVE  PauseInv' /\ HoldsStep
<1> DEFINE r == [Resting EXCEPT !.at = "claiming", !.sees = heldSet.ids, !.shares = TRUE]
<1>1. PauseShape /\ heldSet.ids \in SUBSET Owners
  BY Before DEF PauseShape
<1>2. /\ r \in HandRec /\ r.at = "claiming" /\ r.user = NoOne /\ r.hit = NoOne
         /\ ~r.left /\ r.sees = heldSet.ids /\ r.shares /\ r.read = <<>>
  <2> DEFINE r1 == [Resting EXCEPT !.at = "claiming"]
  <2>1. /\ r1 \in HandRec /\ r1.at = "claiming" /\ r1.user = NoOne /\ r1.hit = NoOne
         /\ ~r1.left /\ r1.sees = {} /\ ~r1.shares /\ r1.read = <<>>
    BY <1>1 DEF HandRec, Walls, Resting
  <2> HIDE DEF r1
  <2> DEFINE r2 == [r1 EXCEPT !.sees = heldSet.ids]
  <2>2. /\ r2 \in HandRec /\ r2.at = "claiming" /\ r2.user = NoOne /\ r2.hit = NoOne
         /\ ~r2.left /\ r2.sees = heldSet.ids /\ ~r2.shares /\ r2.read = <<>>
    BY <2>1, <1>1 DEF HandRec, Walls
  <2> HIDE DEF r2
  <2> DEFINE r3 == [r2 EXCEPT !.shares = TRUE]
  <2>3. /\ r3 \in HandRec /\ r3.at = "claiming" /\ r3.user = NoOne /\ r3.hit = NoOne
         /\ ~r3.left /\ r3.sees = heldSet.ids /\ r3.shares /\ r3.read = <<>>
    BY <2>2, <1>1 DEF HandRec, Walls
  <2>4. r = r3
    BY DEF r1, r2, r3
  <2> QED BY <2>3, <2>4
<1>3. r \in HandRec /\ Fine(r) /\ r.user = NoOne /\ r.sees = heldSet.ids
  BY <1>1, <1>2 DEF Fine
<1>4. /\ Goes(h, r) /\ hand[h].at # "telling" /\ heldSet.recent /\ noted' = noted
      /\ UNCHANGED <<walled, acct, heldSet>>
  BY DEF UseHeldSet
<1> HIDE DEF r
<1>5. PauseInv' /\ KeepsPauses
  BY <1>1, <1>3, <1>4, OneRunner DEF PauseShape
<1>6. KeepsUsers
  BY <1>1, <1>3, <1>4, GoesOne DEF KeepsUsers
<1> QED BY <1>5, <1>6, QuietHolds

LEMMA SweepReadsKeeps ==
  ASSUME PauseInv, struck = {}, NEW h \in Hands, SweepReads(h)
  PROVE  PauseInv' /\ HoldsStep
<1> DEFINE ends == [u \in Owners |-> acct[u].ends]
<1> DEFINE r == [Resting EXCEPT !.at = "sweeping", !.read = ends]
<1>1. PauseShape
  BY Before
<1>2. ends \in [Owners -> PauseEnds]
  BY <1>1 DEF PauseShape, Rows, AcctRec
<1> HIDE DEF ends
<1>3. /\ r \in HandRec /\ r.at = "sweeping" /\ r.user = NoOne /\ r.hit = NoOne
         /\ ~r.left /\ r.sees = {} /\ ~r.shares /\ r.read = ends
  <2> DEFINE r1 == [Resting EXCEPT !.at = "sweeping"]
  <2>1. /\ r1 \in HandRec /\ r1.at = "sweeping" /\ r1.user = NoOne /\ r1.hit = NoOne
         /\ ~r1.left /\ r1.sees = {} /\ ~r1.shares /\ r1.read = <<>>
    BY <1>2 DEF HandRec, Walls, Resting
  <2> HIDE DEF r1
  <2> DEFINE r2 == [r1 EXCEPT !.read = ends]
  <2>2. /\ r2 \in HandRec /\ r2.at = "sweeping" /\ r2.user = NoOne /\ r2.hit = NoOne
         /\ ~r2.left /\ r2.sees = {} /\ ~r2.shares /\ r2.read = ends
    BY <2>1, <1>2 DEF HandRec, Walls
  <2>3. r = r2
    BY DEF r1, r2
  <2> QED BY <2>2, <2>3
<1>4. r \in HandRec /\ Fine(r) /\ r.user = NoOne /\ r.at # "claiming"
  BY <1>2, <1>3 DEF Fine
<1>5. /\ Goes(h, r) /\ hand[h].at # "telling" /\ noted' = noted
      /\ UNCHANGED <<walled, acct, heldSet>>
  BY DEF SweepReads, ends
<1> HIDE DEF r
<1>6. PauseInv' /\ KeepsPauses
  BY <1>1, <1>4, <1>5, OneRunner DEF PauseShape
<1>7. KeepsUsers
  BY <1>1, <1>4, <1>5, GoesOne DEF KeepsUsers
<1> QED BY <1>6, <1>7, QuietHolds

LEMMA SweepFailsKeeps ==
  ASSUME PauseInv, struck = {}, NEW h \in Hands, SweepFails(h)
  PROVE  PauseInv' /\ HoldsStep
<1> DEFINE r == [Resting EXCEPT !.at = "claiming"]
<1>1. PauseShape
  BY Before
<1>2. r \in HandRec /\ Fine(r) /\ r.user = NoOne /\ ~r.shares
  BY DEF Resting, HandRec, Fine, Walls
<1>3. /\ Goes(h, r) /\ hand[h].at # "telling" /\ noted' = noted
      /\ UNCHANGED <<walled, acct, heldSet>>
  BY DEF SweepFails
<1> HIDE DEF r
<1>4. PauseInv' /\ KeepsPauses
  BY <1>1, <1>2, <1>3, OneRunner DEF PauseShape
<1>5. KeepsUsers
  BY <1>1, <1>2, <1>3, GoesOne DEF KeepsUsers
<1> QED BY <1>4, <1>5, QuietHolds

LEMMA NothingToClaimKeeps ==
  ASSUME PauseInv, struck = {}, NEW h \in Hands, NothingToClaim(h)
  PROVE  PauseInv' /\ HoldsStep
<1>1. PauseShape
  BY Before
<1>2. Resting \in HandRec /\ Fine(Resting) /\ Resting.user = NoOne /\ ~Resting.shares
  BY DEF Resting, HandRec, Fine, Walls
<1>3. /\ Goes(h, Resting) /\ hand[h].at # "telling" /\ noted' = noted
      /\ UNCHANGED <<walled, acct, heldSet>>
  BY DEF NothingToClaim
<1>4. PauseInv' /\ KeepsPauses
  BY <1>1, <1>2, <1>3, OneRunner DEF PauseShape
<1>5. KeepsUsers
  BY <1>1, <1>2, <1>3, GoesOne DEF KeepsUsers
<1> QED BY <1>4, <1>5, QuietHolds

\* A claim of a paused user's job: by a set that has not been told, or that is
\* not the one that is told, which is the window.
LEMMA ClaimForKeeps ==
  ASSUME PauseInv, struck = {}, NEW h \in Hands, NEW u \in Owners, ClaimFor(h, u)
  PROVE  PauseInv' /\ HoldsStep
<1> DEFINE r == [Resting EXCEPT !.at = "working", !.user = u]
<1>1. PauseShape /\ Told
  BY Before
<1>2. /\ r \in HandRec /\ r.at = "working" /\ r.user = u /\ r.hit = NoOne
         /\ ~r.left /\ r.sees = {} /\ ~r.shares /\ r.read = <<>>
  <2> DEFINE r1 == [Resting EXCEPT !.at = "working"]
  <2>1. /\ r1 \in HandRec /\ r1.at = "working" /\ r1.user = NoOne /\ r1.hit = NoOne
         /\ ~r1.left /\ r1.sees = {} /\ ~r1.shares /\ r1.read = <<>>
    BY DEF HandRec, Walls, Resting
  <2> HIDE DEF r1
  <2> DEFINE r2 == [r1 EXCEPT !.user = u]
  <2>2. /\ r2 \in HandRec /\ r2.at = "working" /\ r2.user = u /\ r2.hit = NoOne
         /\ ~r2.left /\ r2.sees = {} /\ ~r2.shares /\ r2.read = <<>>
    BY <2>1 DEF HandRec, Walls
  <2>3. r = r2
    BY DEF r1, r2
  <2> QED BY <2>2, <2>3
<1>3. r \in HandRec /\ Fine(r) /\ r.user = u /\ r.at = "working"
  BY <1>2 DEF Fine
<1>4. /\ Goes(h, r) /\ hand[h].at = "claiming" /\ u \notin hand[h].sees /\ noted' = noted
      /\ UNCHANGED <<walled, acct, heldSet>>
      /\ struck' = IF Paused(u) /\ (UntoldOf(u) \/ ~hand[h].shares) THEN {"between"} ELSE {}
  BY DEF ClaimFor, StrikeIf, Strike
<1> HIDE DEF r
<1>5. PauseInv' /\ KeepsPauses
  BY <1>1, <1>3, <1>4, OneRunner DEF PauseShape
<1>6. Paused(u) => "between" \in struck'
  BY <1>1, <1>4 DEF Told
<1>7. /\ \A k \in Hands \ {h} : hand'[k] = hand[k]
      /\ hand'[h].user = u
  BY <1>1, <1>3, <1>4, GoesOne
<1> QED BY <1>5, <1>6, <1>7 DEF HoldsStep, KeepsPauses, Spared

\* A step by which no pause is new, nobody is told less and no set is in use that
\* was not: what is left to see is whose walls the rows are about.
LEMMA RowsOnly ==
  ASSUME PauseInv, struck = {}, Rows', walled' \subseteq Owners, noted' \in Walls,
         hand' \in [Hands -> HandRec], \A k \in Hands : Fine(hand'[k]),
         heldSet' \in [ids : SUBSET Owners, recent : BOOLEAN],
         heldSet' = heldSet \/ ~heldSet'.recent,
         \A u \in Owners : Paused(u)' => Paused(u),
         \A u \in Owners : acct'[u].about \in {NoOne, acct[u].about},
         \A k \in Hands : /\ hand'[k].at = hand[k].at /\ hand'[k].user = hand[k].user
                          /\ hand'[k].sees = hand[k].sees
                          /\ hand'[k].shares => hand[k].shares
  PROVE  PauseInv' /\ KeepsUsers
<1>1. PauseShape /\ Told /\ PausedForItsOwn
  BY Before
<1>2. PauseShape'
  BY PauseShapeAgain
<1>3. \A u \in Owners : UntoldOf(u) => UntoldOf(u)'
  BY DEF UntoldOf
<1>4. Told'
  BY <1>1, <1>3, ToldAgain
<1>5. PausedForItsOwn'
  BY <1>1 DEF PausedForItsOwn
<1>6. KeepsUsers
  BY DEF KeepsUsers
<1> QED BY <1>2, <1>4, <1>5, <1>6 DEF PauseInv, PausedForItsOwnBarring

LEMMA SweepClearsKeeps ==
  ASSUME PauseInv, struck = {}, NEW h \in Hands, NEW u \in Owners, SweepClears(h, u)
  PROVE  PauseInv' /\ HoldsStep
<1> DEFINE r == [hand[h] EXCEPT !.read[u] = "never"]
<1>1. PauseShape
  BY Before
<1>2. hand[h] \in HandRec /\ Fine(hand[h]) /\ hand[h].read \in [Owners -> PauseEnds]
  BY <1>1 DEF PauseShape, Fine, SweepClears
<1>3. /\ r \in HandRec /\ Fine(r) /\ r.at = hand[h].at /\ r.user = hand[h].user
      /\ r.sees = hand[h].sees /\ (r.shares <=> hand[h].shares)
  <2> DEFINE b == hand[h]
  <2> DEFINE read == [b.read EXCEPT ![u] = "never"]
  <2> DEFINE c == [b EXCEPT !.read = read]
  <2>1. read \in [Owners -> PauseEnds]
    BY <1>2 DEF PauseEnds
  <2>2. b \in HandRec /\ Fine(b) /\ b.at = "sweeping"
    BY <1>2 DEF SweepClears
  <2> HIDE DEF read, b
  <2>3. /\ c \in HandRec /\ c.at = b.at /\ c.user = b.user /\ c.hit = b.hit
        /\ (c.left <=> b.left) /\ c.sees = b.sees /\ (c.shares <=> b.shares) /\ c.read = read
    BY <2>1, <2>2 DEF HandRec
  <2> HIDE DEF c
  <2>4. Fine(c)
    BY <2>1, <2>2, <2>3 DEF Fine
  <2>5. r = c
    BY DEF c, b, read
  <2> QED BY <2>3, <2>4, <2>5 DEF b
<1>4. /\ Goes(h, r) /\ acct' = [acct EXCEPT ![u] = NoPause]
      /\ struck' = IF Paused(u) THEN {"swept"} ELSE {}
      /\ UNCHANGED <<walled, noted, heldSet>>
  BY DEF SweepClears, StrikeIf, Strike
<1> HIDE DEF r
<1>5. /\ hand' \in [Hands -> HandRec] /\ \A k \in Hands : Fine(hand'[k])
      /\ hand'[h] = r /\ \A k \in Hands \ {h} : hand'[k] = hand[k]
  BY <1>1, <1>3, <1>4, GoesOne
<1>6. /\ Rows' /\ \A w \in Owners : acct'[w] = IF w = u THEN NoPause ELSE acct[w]
      /\ \A w \in Owners : Paused(w)' => Paused(w)
      /\ \A w \in Owners : acct'[w].about \in {NoOne, acct[w].about}
  BY <1>1, <1>4 DEF PauseShape, Rows, AcctRec, NoPause, PauseEnds, Walls, Paused
<1>7. PauseInv' /\ KeepsUsers
  BY <1>1, <1>3, <1>4, <1>5, <1>6, RowsOnly DEF PauseShape
<1>8. ASSUME NEW w \in Owners, Paused(w), Spared({"swept"})' PROVE acct'[w] # NoPause
  <2>1. w # u
    BY <1>4, <1>8 DEF Spared
  <2> QED BY <1>6, <1>8, <2>1 DEF Paused, NoPause
<1>9. \A w \in Owners : w # NoOne
  BY PausesAssumption
<1> QED BY <1>7, <1>8, <1>9 DEF HoldsStep, KeepsUsers

\* The set that replaces has all who are paused, or a sweep has crossed a pause;
\* whoever shared the old one shares no more.
LEMMA SweepSettlesKeeps ==
  ASSUME PauseInv, struck = {}, NEW h \in Hands, SweepSettles(h)
  PROVE  PauseInv' /\ HoldsStep
<1> DEFINE held == {u \in Owners : hand[h].read[u] = "later"}
<1> DEFINE r == [Resting EXCEPT !.at = "claiming", !.sees = held, !.shares = TRUE]
<1>1. PauseShape /\ PausedForItsOwn /\ held \in SUBSET Owners
  BY Before
<1>2. /\ hand[h].at = "sweeping" /\ heldSet' = [ids |-> held, recent |-> TRUE]
      /\ hand' = [k \in Hands |-> IF k = h THEN r ELSE [hand[k] EXCEPT !.shares = FALSE]]
      /\ struck' = IF \E u \in Owners \ held : Paused(u) THEN {"crossed"} ELSE {}
      /\ UNCHANGED <<walled, acct, noted>>
  BY DEF SweepSettles, StrikeIf, Strike
<1> HIDE DEF held
<1>3. /\ r \in HandRec /\ r.at = "claiming" /\ r.user = NoOne /\ r.hit = NoOne
         /\ ~r.left /\ r.sees = held /\ r.shares /\ r.read = <<>>
  <2> DEFINE r1 == [Resting EXCEPT !.at = "claiming"]
  <2>1. /\ r1 \in HandRec /\ r1.at = "claiming" /\ r1.user = NoOne /\ r1.hit = NoOne
         /\ ~r1.left /\ r1.sees = {} /\ ~r1.shares /\ r1.read = <<>>
    BY <1>1 DEF HandRec, Walls, Resting
  <2> HIDE DEF r1
  <2> DEFINE r2 == [r1 EXCEPT !.sees = held]
  <2>2. /\ r2 \in HandRec /\ r2.at = "claiming" /\ r2.user = NoOne /\ r2.hit = NoOne
         /\ ~r2.left /\ r2.sees = held /\ ~r2.shares /\ r2.read = <<>>
    BY <2>1, <1>1 DEF HandRec, Walls
  <2> HIDE DEF r2
  <2> DEFINE r3 == [r2 EXCEPT !.shares = TRUE]
  <2>3. /\ r3 \in HandRec /\ r3.at = "claiming" /\ r3.user = NoOne /\ r3.hit = NoOne
         /\ ~r3.left /\ r3.sees = held /\ r3.shares /\ r3.read = <<>>
    BY <2>2, <1>1 DEF HandRec, Walls
  <2>4. r = r3
    BY DEF r1, r2, r3
  <2> QED BY <2>3, <2>4
<1>4. Fine(r)
  BY <1>3 DEF Fine
<1> HIDE DEF r
<1>5. ASSUME NEW k \in Hands \ {h}
      PROVE  /\ hand'[k] \in HandRec /\ Fine(hand'[k])
             /\ hand'[k].at = hand[k].at /\ hand'[k].user = hand[k].user /\ ~hand'[k].shares
  <2> DEFINE b == hand[k]
  <2> DEFINE c == [b EXCEPT !.shares = FALSE]
  <2>1. b \in HandRec /\ Fine(b)
    BY <1>1 DEF PauseShape
  <2>2. hand'[k] = c
    BY <1>2
  <2> HIDE DEF b
  <2>3. /\ c \in HandRec /\ c.at = b.at /\ c.user = b.user /\ c.hit = b.hit
        /\ (c.left <=> b.left) /\ ~c.shares /\ c.read = b.read
    BY <2>1 DEF HandRec
  <2> HIDE DEF c
  <2> QED BY <2>1, <2>2, <2>3 DEF Fine, b
<1>6. hand'[h] = r /\ hand' = [k \in Hands |-> hand'[k]]
  BY <1>2
<1>7. PauseShape'
  <2>1. hand' \in [Hands -> HandRec] /\ \A k \in Hands : Fine(hand'[k])
    BY <1>3, <1>4, <1>5, <1>6
  <2>2. Rows'
    BY <1>1, <1>2 DEF PauseShape, Rows
  <2> QED BY <1>1, <1>2, <2>1, <2>2, PauseShapeAgain DEF PauseShape
<1>8. ASSUME struck' = {} PROVE Told'
  <2>1. \A u \in Owners : Paused(u)' => u \in held
    BY <1>2, <1>8 DEF Paused
  <2> QED BY <1>2, <1>3, <1>5, <1>6, <2>1 DEF Told
<1>9. PausedForItsOwn'
  BY <1>1, <1>2 DEF PausedForItsOwn
<1>10. KeepsUsers
  BY <1>3, <1>5, <1>6 DEF KeepsUsers
<1>11. KeepsPauses
  BY <1>2 DEF KeepsPauses, Paused, NoPause
<1> QED BY <1>7, <1>8, <1>9, <1>10, <1>11, QuietHolds DEF PauseInv, PausedForItsOwnBarring

LEMMA HeldSetAgesKeeps ==
  ASSUME PauseInv, struck = {}, HeldSetAges
  PROVE  PauseInv' /\ HoldsStep
<1>1. PauseShape
  BY Before
<1>2. heldSet' = [heldSet EXCEPT !.recent = FALSE] /\ UNCHANGED <<walled, acct, noted, hand>>
  BY DEF HeldSetAges
<1>3. heldSet' \in [ids : SUBSET Owners, recent : BOOLEAN] /\ ~heldSet'.recent
  BY <1>1, <1>2 DEF PauseShape
<1>4. Rows' /\ \A u \in Owners : Paused(u)' => Paused(u)
  BY <1>1, <1>2 DEF PauseShape, Rows, Paused
<1>5. PauseInv' /\ KeepsUsers
  BY <1>1, <1>2, <1>3, <1>4, RowsOnly DEF PauseShape
<1>6. KeepsPauses
  BY <1>2 DEF KeepsPauses, Paused, NoPause
<1> QED BY <1>5, <1>6, QuietHolds

-----------------------------------------------------------------------------
(* The ends of a job. *)

LEMMA MeetsWallKeeps ==
  ASSUME PauseInv, struck = {}, NEW h \in Hands, MeetsWall(h)
  PROVE  PauseInv' /\ HoldsStep
<1> DEFINE u == hand[h].user
<1> DEFINE r == [hand[h] EXCEPT !.hit = u]
<1>1. PauseShape /\ hand[h] \in HandRec /\ Fine(hand[h]) /\ u \in Owners
  BY Before DEF PauseShape, MeetsWall, Fine
<1>2. /\ r \in HandRec /\ r.at = "working" /\ r.user = u /\ r.hit = u /\ ~r.left
  BY <1>1 DEF HandRec, Walls, Fine, MeetsWall
<1>3. Fine(r)
  BY <1>1, <1>2 DEF Fine
<1>4. /\ Goes(h, r) /\ hand[h].at = "working" /\ noted' \in Walls
      /\ UNCHANGED <<walled, acct, heldSet>>
  BY <1>1 DEF MeetsWall, PauseShape, Walls
<1> HIDE DEF r
<1>5. PauseInv' /\ KeepsPauses
  BY <1>2, <1>3, <1>4, OneRunner
<1>6. KeepsUsers
  BY <1>1, <1>2, <1>3, <1>4, GoesOne DEF KeepsUsers
<1> QED BY <1>5, <1>6, QuietHolds

\* A wall of its own is the job's; one it finds noted was left.
LEMMA JobEndsKeeps ==
  ASSUME PauseInv, struck = {}, NEW h \in Hands, JobEnds(h)
  PROVE  PauseInv' /\ HoldsStep
<1> DEFINE b == hand[h]
<1> DEFINE wall == QuotaBehind(h)
<1> DEFINE r1 == [b EXCEPT !.at = "pausing"]
<1> DEFINE r2 == [r1 EXCEPT !.hit = wall]
<1> DEFINE r3 == [r2 EXCEPT !.left = (b.hit = NoOne)]
<1> DEFINE r == IF wall = NoOne THEN Resting ELSE r3
<1>1. PauseShape /\ b \in HandRec /\ Fine(b) /\ b.at = "working" /\ noted \in Walls
  BY Before DEF PauseShape, JobEnds
<1>2. /\ Goes(h, r) /\ b.at = "working" /\ noted' \in Walls
      /\ UNCHANGED <<walled, acct, heldSet>>
  BY <1>1 DEF JobEnds, Walls
<1>3. wall = (IF b.hit # NoOne THEN b.hit ELSE noted) /\ wall \in Walls
  BY <1>1 DEF QuotaBehind, HandRec
<1> HIDE DEF wall, b
<1>4. r1 \in HandRec /\ r1.at = "pausing" /\ r1.user = b.user
  BY <1>1 DEF HandRec
<1> HIDE DEF r1
<1>5. r2 \in HandRec /\ r2.at = "pausing" /\ r2.user = b.user /\ r2.hit = wall
  BY <1>3, <1>4 DEF HandRec
<1> HIDE DEF r2
<1>6. /\ r3 \in HandRec /\ r3.at = "pausing" /\ r3.user = b.user /\ r3.hit = wall
      /\ (r3.left <=> b.hit = NoOne)
  BY <1>5 DEF HandRec
<1> HIDE DEF r3
<1>7. Resting \in HandRec /\ Fine(Resting) /\ Resting.user = NoOne /\ Resting.at = "idle"
  BY DEF Resting, HandRec, Fine, Walls
<1>8. ASSUME wall # NoOne PROVE Fine(r3)
  BY <1>1, <1>3, <1>6, <1>8 DEF Fine
<1>9. r \in HandRec /\ Fine(r) /\ r.user \in {NoOne, b.user} /\ r.at # "claiming"
  BY <1>6, <1>7, <1>8
<1> HIDE DEF r
<1>10. PauseInv' /\ KeepsPauses
  BY <1>1, <1>2, <1>9, OneRunner DEF b
<1>11. KeepsUsers
  BY <1>1, <1>2, <1>9, GoesOne DEF KeepsUsers, b
<1> QED BY <1>10, <1>11, QuietHolds

\* The row is written, and its writer is the one who will tell of it.
LEMMA PauseRowKeeps ==
  ASSUME PauseInv, struck = {}, NEW h \in Hands, PauseRow(h)
  PROVE  PauseInv' /\ HoldsStep
<1> DEFINE b == hand[h]
<1> DEFINE r1 == [b EXCEPT !.at = "telling"]
<1> DEFINE r2 == [r1 EXCEPT !.hit = NoOne]
<1> DEFINE r == [r2 EXCEPT !.left = FALSE]
<1> DEFINE row == [ends |-> "later", about |-> b.hit]
<1>1. /\ PauseShape /\ Told /\ PausedForItsOwn /\ b \in HandRec /\ Fine(b) /\ b.at = "pausing"
      /\ b.user \in Owners /\ b.hit # NoOne
  BY Before DEF PauseShape, PauseRow, Fine
<1>2. /\ Goes(h, r) /\ acct' = [acct EXCEPT ![b.user] = row]
      /\ struck' = (IF b.left THEN {"leftover"} ELSE IF b.hit = Past THEN {"relogin"} ELSE {})
      /\ UNCHANGED <<walled, noted, heldSet>>
  BY DEF PauseRow, Strike
<1>3. row \in AcctRec
  BY <1>1 DEF AcctRec, PauseEnds, HandRec
<1>4. r1 \in HandRec /\ r1.at = "telling" /\ r1.user = b.user
  BY <1>1 DEF HandRec
<1> HIDE DEF r1
<1>5. r2 \in HandRec /\ r2.at = "telling" /\ r2.user = b.user
  BY <1>4 DEF HandRec, Walls
<1> HIDE DEF r2
<1>6. r \in HandRec /\ r.at = "telling" /\ r.user = b.user
  BY <1>5 DEF HandRec
<1> HIDE DEF r
<1>7. Fine(r)
  BY <1>1, <1>6 DEF Fine
<1>8. /\ hand' \in [Hands -> HandRec] /\ \A k \in Hands : Fine(hand'[k])
      /\ hand'[h] = r /\ \A k \in Hands \ {h} : hand'[k] = hand[k]
  BY <1>1, <1>2, <1>6, <1>7, GoesOne
<1>9. \A u \in Owners : acct'[u] = IF u = b.user THEN row ELSE acct[u]
  BY <1>1, <1>2 DEF PauseShape, Rows
<1>10. PauseShape'
  <2>1. Rows'
    BY <1>1, <1>2, <1>3, <1>9 DEF PauseShape, Rows
  <2> QED BY <1>1, <1>2, <1>8, <2>1, PauseShapeAgain DEF PauseShape
<1>11. Told'
  <2> SUFFICES ASSUME NEW u \in Owners, Paused(u)', ~UntoldOf(u)'
               PROVE  /\ heldSet'.recent => u \in heldSet'.ids
                      /\ \A k \in Hands : hand'[k].at = "claiming" /\ hand'[k].shares =>
                                            u \in hand'[k].sees
    BY DEF Told
  <2>1. u # b.user
    BY <1>6, <1>8 DEF UntoldOf
  <2>2. Paused(u) /\ ~UntoldOf(u)
    BY <1>1, <1>8, <1>9, <2>1 DEF Paused, UntoldOf
  <2> QED BY <1>1, <1>2, <1>6, <1>8, <2>2 DEF Told
<1>12. ASSUME Spared({"leftover", "relogin"})' PROVE PausedForItsOwn'
  <2>1. ~b.left /\ b.hit # Past
    BY <1>2, <1>12 DEF Spared
  <2>2. b.hit = b.user
    BY <1>1, <2>1 DEF Fine
  <2> QED BY <1>1, <1>9, <2>2 DEF PausedForItsOwn
<1>13. KeepsUsers
  BY <1>6, <1>8 DEF KeepsUsers
<1>14. KeepsPauses
  BY <1>9 DEF KeepsPauses, Paused, NoPause
<1> QED BY <1>10, <1>11, <1>12, <1>13, <1>14, QuietHolds DEF PauseInv, PausedForItsOwnBarring

\* Whoever shares the set is told with it.
LEMMA TellSetKeeps ==
  ASSUME PauseInv, struck = {}, NEW h \in Hands, TellSet(h)
  PROVE  PauseInv' /\ HoldsStep
<1> DEFINE u == hand[h].user
<1>1. PauseShape /\ Told /\ PausedForItsOwn /\ hand[h].at = "telling" /\ u \in Owners
  BY Before DEF PauseShape, TellSet, Fine
<1>2. /\ heldSet' = [ids |-> heldSet.ids \cup {u}, recent |-> FALSE]
      /\ hand' = [k \in Hands |-> IF k = h THEN Resting
                                  ELSE IF hand[k].shares THEN [hand[k] EXCEPT !.sees = @ \cup {u}]
                                  ELSE hand[k]]
      /\ UNCHANGED <<walled, acct, noted, struck>>
  BY DEF TellSet
<1>3. Resting \in HandRec /\ Fine(Resting) /\ Resting.user = NoOne /\ Resting.at = "idle"
  BY DEF Resting, HandRec, Fine, Walls
<1>4. ASSUME NEW k \in Hands \ {h}
      PROVE  /\ hand'[k] \in HandRec /\ Fine(hand'[k])
             /\ hand'[k].at = hand[k].at /\ hand'[k].user = hand[k].user
             /\ (hand'[k].shares <=> hand[k].shares)
             /\ hand[k].sees \subseteq hand'[k].sees
             /\ hand[k].shares => u \in hand'[k].sees
  <2> DEFINE b == hand[k]
  <2> DEFINE c == [b EXCEPT !.sees = b.sees \cup {u}]
  <2>1. b \in HandRec /\ Fine(b)
    BY <1>1 DEF PauseShape
  <2>2. hand'[k] = IF b.shares THEN c ELSE b
    BY <1>2
  <2> HIDE DEF b
  <2>3. /\ c \in HandRec /\ c.at = b.at /\ c.user = b.user /\ c.hit = b.hit
        /\ (c.left <=> b.left) /\ (c.shares <=> b.shares) /\ c.read = b.read
        /\ c.sees = b.sees \cup {u}
    BY <1>1, <2>1 DEF HandRec
  <2> HIDE DEF c
  <2>4. Fine(c)
    BY <2>1, <2>3 DEF Fine
  <2>5. CASE b.shares
    <3>1. hand'[k] = c
      BY <2>2, <2>5
    <3> QED BY <2>3, <2>4, <3>1 DEF b
  <2>6. CASE ~b.shares
    <3>1. hand'[k] = b
      BY <2>2, <2>6
    <3> QED BY <2>1, <2>6, <3>1 DEF b
  <2> QED BY <2>5, <2>6
<1>5. hand'[h] = Resting /\ hand' = [k \in Hands |-> hand'[k]]
  BY <1>2
<1>6. PauseShape'
  <2>1. hand' \in [Hands -> HandRec] /\ \A k \in Hands : Fine(hand'[k])
    BY <1>3, <1>4, <1>5
  <2>2. Rows'
    BY <1>1, <1>2 DEF PauseShape, Rows
  <2>3. heldSet' \in [ids : SUBSET Owners, recent : BOOLEAN]
    BY <1>1, <1>2 DEF PauseShape
  <2> QED BY <1>1, <1>2, <2>1, <2>2, <2>3, PauseShapeAgain DEF PauseShape
<1>7. Told'
  <2> SUFFICES ASSUME NEW w \in Owners, Paused(w)', ~UntoldOf(w)',
                      NEW k \in Hands, hand'[k].at = "claiming", hand'[k].shares
               PROVE  w \in hand'[k].sees
    BY <1>2 DEF Told
  <2>1. k # h
    BY <1>3, <1>5
  <2>2. hand[k].at = "claiming" /\ hand[k].shares /\ Paused(w)
    BY <1>2, <1>4, <2>1 DEF Paused
  <2>3. CASE w = u
    BY <1>4, <2>1, <2>2, <2>3
  <2>4. CASE w # u
    <3>1. ~UntoldOf(w)
      BY <1>1, <1>4, <2>4 DEF UntoldOf
    <3> QED BY <1>1, <1>4, <2>1, <2>2, <3>1 DEF Told
  <2> QED BY <2>3, <2>4
<1>8. PausedForItsOwn'
  BY <1>1, <1>2 DEF PausedForItsOwn
<1>9. KeepsUsers
  BY <1>3, <1>4, <1>5 DEF KeepsUsers
<1>10. KeepsPauses
  BY <1>2 DEF KeepsPauses, Paused, NoPause
<1> QED BY <1>6, <1>7, <1>8, <1>9, <1>10, QuietHolds DEF PauseInv, PausedForItsOwnBarring

-----------------------------------------------------------------------------
(* Subscriptions, time and users. *)

LEMMA RunsDryKeeps ==
  ASSUME PauseInv, struck = {}, NEW u \in Owners, RunsDry(u)
  PROVE  PauseInv' /\ HoldsStep
<1>1. PauseShape
  BY Before
<1>2. walled' = walled \cup {u} /\ UNCHANGED <<acct, noted, heldSet, hand>>
  BY DEF RunsDry
<1>3. Rows' /\ \A w \in Owners : Paused(w)' => Paused(w)
  BY <1>1, <1>2 DEF PauseShape, Rows, Paused
<1>4. PauseInv' /\ KeepsUsers
  BY <1>1, <1>2, <1>3, RowsOnly DEF PauseShape
<1>5. KeepsPauses
  BY <1>2 DEF KeepsPauses, Paused, NoPause
<1> QED BY <1>4, <1>5, QuietHolds

LEMMA PauseTimePassesKeeps ==
  ASSUME PauseInv, struck = {}, NEW u \in Owners, PauseTimePasses(u)
  PROVE  PauseInv' /\ HoldsStep
<1>1. PauseShape
  BY Before
<1>2. /\ acct' = [acct EXCEPT ![u].ends = "passed"] /\ Paused(u)
      /\ walled' \subseteq walled /\ UNCHANGED <<noted, heldSet, hand>>
  BY DEF PauseTimePasses
<1>3. /\ Rows' /\ \A w \in Owners \ {u} : acct'[w] = acct[w]
      /\ acct'[u].ends = "passed" /\ acct'[u].about = acct[u].about
  BY <1>1, <1>2 DEF PauseShape, Rows, AcctRec, PauseEnds, Paused
<1>4. PauseInv' /\ KeepsUsers
  BY <1>1, <1>2, <1>3, RowsOnly DEF PauseShape, Paused
<1>5. KeepsPauses
  BY <1>3 DEF KeepsPauses, Paused, NoPause
<1> QED BY <1>4, <1>5, QuietHolds

\* A user who ends the pause of his account.
LEMMA UserEnds ==
  ASSUME PauseShape, NEW u \in Owners, acct' = [acct EXCEPT ![u] = NoPause]
  PROVE  /\ Rows' /\ \A w \in Owners : Paused(w)' => Paused(w)
         /\ \A w \in Owners : acct'[w].about \in {NoOne, acct[w].about}
         /\ \A w \in Owners : Paused(w) /\ acct'[w] = NoPause => w = u
BY DEF PauseShape, Rows, AcctRec, NoPause, PauseEnds, Walls, Paused

LEMMA ResumeByHandKeeps ==
  ASSUME PauseInv, struck = {}, NEW u \in Owners, ResumeByHand(u)
  PROVE  PauseInv' /\ HoldsStep
<1>1. PauseShape
  BY Before
<1>2. acct' = [acct EXCEPT ![u] = NoPause] /\ UNCHANGED <<walled, noted, heldSet, hand>>
  BY DEF ResumeByHand
<1>3. PauseInv' /\ KeepsUsers
  BY <1>1, <1>2, UserEnds, RowsOnly DEF PauseShape
<1>4. \A w \in Owners : Paused(w) /\ acct'[w] = NoPause => ResumeByHand(w)
  BY <1>1, <1>2, UserEnds
<1> QED BY <1>2, <1>3, <1>4 DEF HoldsStep

LEMMA LoginAnewKeeps ==
  ASSUME PauseInv, struck = {}, NEW u \in Owners, LoginAnew(u)
  PROVE  PauseInv' /\ HoldsStep
<1>1. PauseShape
  BY Before
<1>2. /\ acct' = [acct EXCEPT ![u] = NoPause]
      /\ hand' = [h \in Hands |-> IF hand[h].hit = u THEN [hand[h] EXCEPT !.hit = Past] ELSE hand[h]]
      /\ walled' \subseteq walled /\ UNCHANGED heldSet
  BY DEF LoginAnew
<1>3. noted' \in Walls
  BY <1>1 DEF LoginAnew, PauseShape, Walls
<1>4. ASSUME NEW k \in Hands
      PROVE  /\ hand'[k] \in HandRec /\ Fine(hand'[k])
             /\ hand'[k].at = hand[k].at /\ hand'[k].user = hand[k].user
             /\ hand'[k].sees = hand[k].sees /\ (hand'[k].shares <=> hand[k].shares)
  <2> DEFINE b == hand[k]
  <2> DEFINE c == [b EXCEPT !.hit = Past]
  <2>1. b \in HandRec /\ Fine(b)
    BY <1>1 DEF PauseShape
  <2>2. hand'[k] = IF b.hit = u THEN c ELSE b
    BY <1>2
  <2> HIDE DEF b
  <2>3. /\ c \in HandRec /\ c.at = b.at /\ c.user = b.user /\ c.hit = Past
        /\ (c.left <=> b.left) /\ (c.shares <=> b.shares) /\ c.read = b.read /\ c.sees = b.sees
    BY <2>1 DEF HandRec, Walls
  <2> HIDE DEF c
  <2>4. Fine(c)
    BY <2>1, <2>3 DEF Fine, Past, NoOne
  <2>5. CASE b.hit = u
    <3>1. hand'[k] = c
      BY <2>2, <2>5
    <3> QED BY <2>3, <2>4, <3>1 DEF b
  <2>6. CASE b.hit # u
    <3>1. hand'[k] = b
      BY <2>2, <2>6
    <3> QED BY <2>1, <3>1 DEF b
  <2> QED BY <2>5, <2>6
<1>5. hand' \in [Hands -> HandRec] /\ \A k \in Hands : Fine(hand'[k])
  <2>1. hand' = [k \in Hands |-> hand'[k]]
    BY <1>2
  <2> QED BY <1>4, <2>1
<1>6. PauseInv' /\ KeepsUsers
  BY <1>1, <1>2, <1>3, <1>4, <1>5, UserEnds, RowsOnly DEF PauseShape
<1>7. \A w \in Owners : Paused(w) /\ acct'[w] = NoPause => LoginAnew(w)
  BY <1>1, <1>2, UserEnds
<1> QED BY <1>6, <1>7, PausesAssumption DEF HoldsStep, KeepsUsers

LEMMA SiblingPausesKeeps ==
  ASSUME PauseInv, struck = {}, NEW u \in Owners, SiblingPauses(u)
  PROVE  PauseInv' /\ HoldsStep
<1> DEFINE row == [ends |-> "later", about |-> u]
<1>1. PauseShape /\ PausedForItsOwn
  BY Before
<1>2. /\ acct' = [acct EXCEPT ![u] = row] /\ struck' = {"sibling"}
      /\ UNCHANGED <<walled, noted, heldSet, hand>>
  BY DEF SiblingPauses, Strike
<1>3. row \in AcctRec /\ row.about # NoOne /\ row.ends = "later"
  BY PausesAssumption DEF AcctRec, PauseEnds, Walls
<1>4. \A w \in Owners : acct'[w] = IF w = u THEN row ELSE acct[w]
  BY <1>1, <1>2 DEF PauseShape, Rows
<1>5. PauseShape'
  <2>1. Rows'
    BY <1>1, <1>2, <1>3, <1>4 DEF PauseShape, Rows
  <2> QED BY <1>1, <1>2, <2>1, PauseShapeAgain DEF PauseShape
<1>6. PausedForItsOwn'
  BY <1>1, <1>4 DEF PausedForItsOwn
<1>7. KeepsUsers
  BY <1>2 DEF KeepsUsers
<1>8. KeepsPauses
  BY <1>4 DEF KeepsPauses, Paused, NoPause
<1> QED BY <1>2, <1>5, <1>6, <1>7, <1>8, QuietHolds DEF PauseInv, PausedForItsOwnBarring

-----------------------------------------------------------------------------
LEMMA PausesInvStep == PauseInv /\ [PausesNext]_pauseVars => PauseInv' /\ [HoldsStep]_pauseVars
<1> SUFFICES ASSUME PauseInv, [PausesNext]_pauseVars
             PROVE  PauseInv' /\ [HoldsStep]_pauseVars
  OBVIOUS
<1>1. CASE UNCHANGED pauseVars
  BY <1>1 DEF pauseVars, PauseInv, PauseShape, Rows, Fine, Told, Paused, UntoldOf, PausedForItsOwnBarring,
     PausedForItsOwn, Spared
<1>2. CASE PausesNext
  <2>1. struck = {}
    BY <1>2 DEF PausesNext
  <2>2. ASSUME NEW h \in Hands,
               \/ UseHeldSet(h) \/ SweepReads(h) \/ SweepSettles(h) \/ SweepFails(h)
               \/ NothingToClaim(h)
        PROVE  PauseInv' /\ HoldsStep
    BY <2>1, <2>2, UseHeldSetKeeps, SweepReadsKeeps, SweepSettlesKeeps, SweepFailsKeeps,
       NothingToClaimKeeps
  <2>3. ASSUME NEW h \in Hands, MeetsWall(h) \/ JobEnds(h) \/ PauseRow(h) \/ TellSet(h)
        PROVE  PauseInv' /\ HoldsStep
    BY <2>1, <2>3, MeetsWallKeeps, JobEndsKeeps, PauseRowKeeps, TellSetKeeps
  <2>4. ASSUME NEW h \in Hands, NEW u \in Owners, SweepClears(h, u) \/ ClaimFor(h, u)
        PROVE  PauseInv' /\ HoldsStep
    BY <2>1, <2>4, SweepClearsKeeps, ClaimForKeeps
  <2>5. ASSUME HeldSetAges PROVE PauseInv' /\ HoldsStep
    BY <2>1, <2>5, HeldSetAgesKeeps
  <2>6. ASSUME NEW u \in Owners,
               RunsDry(u) \/ PauseTimePasses(u) \/ ResumeByHand(u) \/ LoginAnew(u) \/ SiblingPauses(u)
        PROVE  PauseInv' /\ HoldsStep
    BY <2>1, <2>6, RunsDryKeeps, PauseTimePassesKeeps, ResumeByHandKeeps, LoginAnewKeeps,
       SiblingPausesKeeps
  <2> QED BY <1>2, <2>2, <2>3, <2>4, <2>5, <2>6 DEF PausesNext, PauseSteps
<1> QED BY <1>1, <1>2

\* Type correctness, windows or not.
THEOREM PausesTypes == PausesSpec => []PausesTypeOK
<1>1. PauseInv => PausesTypeOK
  BY DEF PauseInv, PauseShape, Rows, AcctRec, PauseEnds, HandRec, PausesTypeOK
<1> QED BY <1>1, PausesInvInit, PausesInvStep, PTL DEF PausesSpec

\* Each account is paused for the wall of its own login, where no job takes a note
\* that was left and nobody logs in anew while his job runs (quotaBehind).
THEOREM OwnWallsOnly == PausesSpec => []PausedForItsOwnBarring
<1>1. PauseInv => PausedForItsOwnBarring
  BY DEF PauseInv
<1> QED BY <1>1, PausesInvInit, PausesInvStep, PTL DEF PausesSpec

\* No runner claims a job of a user who is paused, and only the user ends the pause
\* before its time, but for the windows (heldForAccountPause, pauseForUserQuota).
THEOREM PausesHold == PausesSpec => PauseHolds
<1>1. PauseInv /\ [PausesNext]_pauseVars => [HoldsStep]_pauseVars
  BY PausesInvStep
<1> QED BY <1>1, PausesInvInit, PausesInvStep, PTL DEF PausesSpec, PauseHolds, HoldsStep
=============================================================================
