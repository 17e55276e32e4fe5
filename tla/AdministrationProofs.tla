------------------------- MODULE AdministrationProofs -------------------------
(***************************************************************************)
(* Theorems about sessions and accounts, for any number of accounts of a   *)
(* phone number and of requests served at the same time, about what redis  *)
(* remembers of roles and permissions, for any admins, roles, permissions  *)
(* and handlers, and about the current values the change history keeps.    *)
(***************************************************************************)
EXTENDS AdminAccounts, AccessControl, History, TLAPS, WellFoundedInduction, SequenceTheorems

(***************************************************************************)
(* What a request carries, by what it is about to do.                      *)
(***************************************************************************)
PlainOps == {"idle", "drop pass"}
CodeOps == {"keep code", "send"}
NumberOps == {"mark verified", "drop code", "grant pass", "drop reset code"}
SessionOps == {"open", "issue", "find session", "end session", "blacklist"}
RowOps == {"insert", "delete"}

PlainRequest == [op : PlainOps]
CodeRequest == [op : CodeOps, type : {"verify", "reset"}, id : Nat]
NumberRequest == [op : NumberOps, id : Nat]
SessionRequest == [op : SessionOps, account : Accounts, id : Nat]
RowRequest == [op : RowOps, account : Accounts]

Request == PlainRequest \cup CodeRequest \cup NumberRequest \cup SessionRequest \cup RowRequest

LEMMA KindOfRequest ==
    ASSUME NEW r \in Request
    PROVE  /\ r.op \in CodeOps => r \in CodeRequest
           /\ r.op \in NumberOps => r \in NumberRequest
           /\ r.op \in SessionOps => r \in SessionRequest
           /\ r.op \in RowOps => r \in RowRequest
<1>1. CASE r \in PlainRequest
  BY <1>1 DEF PlainRequest, PlainOps, CodeOps, NumberOps, SessionOps, RowOps
<1>2. CASE r \in CodeRequest
  BY <1>2 DEF CodeRequest, CodeOps, NumberOps, SessionOps, RowOps
<1>3. CASE r \in NumberRequest
  BY <1>3 DEF NumberRequest, CodeOps, NumberOps, SessionOps, RowOps
<1>4. CASE r \in SessionRequest
  BY <1>4 DEF SessionRequest, CodeOps, NumberOps, SessionOps, RowOps
<1>5. CASE r \in RowRequest
  BY <1>5 DEF RowRequest, CodeOps, NumberOps, SessionOps, RowOps
<1> QED
  BY <1>1, <1>2, <1>3, <1>4, <1>5 DEF Request

LEMMA CodeContinues ==
    ASSUME NEW r \in CodeRequest, NEW op \in CodeOps
    PROVE  /\ [r EXCEPT !.op = op] \in CodeRequest
           /\ [r EXCEPT !.op = op].op = op
           /\ [r EXCEPT !.op = op].type = r.type
           /\ [r EXCEPT !.op = op].id = r.id
BY DEF CodeRequest

LEMMA NumberContinues ==
    ASSUME NEW r \in NumberRequest, NEW op \in NumberOps
    PROVE  /\ [r EXCEPT !.op = op] \in NumberRequest
           /\ [r EXCEPT !.op = op].op = op
           /\ [r EXCEPT !.op = op].id = r.id
BY DEF NumberRequest

LEMMA SessionContinues ==
    ASSUME NEW r \in SessionRequest, NEW op \in SessionOps
    PROVE  /\ [r EXCEPT !.op = op] \in SessionRequest
           /\ [r EXCEPT !.op = op].op = op
           /\ [r EXCEPT !.op = op].account = r.account
           /\ [r EXCEPT !.op = op].id = r.id
BY DEF SessionRequest

LEMMA NewRequests ==
    /\ Idle \in Request /\ Idle.op = "idle"
    /\ [op |-> "drop pass"] \in Request
    /\ \A type \in {"verify", "reset"}, n \in Nat :
         [op |-> "keep code", type |-> type, id |-> n] \in Request
    /\ \A op \in NumberOps, n \in Nat : [op |-> op, id |-> n] \in Request
    /\ \A op \in SessionOps, x \in Accounts, n \in Nat :
         [op |-> op, account |-> x, id |-> n] \in Request
    /\ \A op \in RowOps, x \in Accounts : [op |-> op, account |-> x] \in Request
<1>1. Idle \in PlainRequest /\ Idle.op = "idle" /\ [op |-> "drop pass"] \in PlainRequest
  BY DEF Idle, PlainRequest, PlainOps
<1>2. \A type \in {"verify", "reset"}, n \in Nat :
         [op |-> "keep code", type |-> type, id |-> n] \in CodeRequest
  BY DEF CodeRequest, CodeOps
<1>3. \A op \in NumberOps, n \in Nat : [op |-> op, id |-> n] \in NumberRequest
  BY DEF NumberRequest
<1>4. \A op \in SessionOps, x \in Accounts, n \in Nat :
         [op |-> op, account |-> x, id |-> n] \in SessionRequest
  BY DEF SessionRequest
<1>5. \A op \in RowOps, x \in Accounts : [op |-> op, account |-> x] \in RowRequest
  BY DEF RowRequest
<1> QED
  BY <1>1, <1>2, <1>3, <1>4, <1>5 DEF Request

(***************************************************************************)
(* Types: ids are drawn in order, and every number in use was drawn.       *)
(***************************************************************************)
Row == [state : {"absent", "Pending", "Open", "Deleted"}, verified : BOOLEAN, active : BOOLEAN]

Numbered == CodeOps \cup NumberOps \cup SessionOps

Drawn == \A c \in Clients : client[c].op \in Numbered => client[c].id \in 1 .. ids

AInv ==
    /\ ids \in Nat /\ ids <= MaxIds
    /\ account \in [Accounts -> Row]
    /\ client \in [Clients -> Request] /\ Drawn
    /\ code \in [{"verify", "reset"} -> 0 .. ids]
    /\ limited \in BOOLEAN
    /\ pass \in 0 .. ids
    /\ tokens \subseteq (1 .. ids) \X Accounts
    /\ current \in [Accounts -> 0 .. ids]
    /\ blacklist \subseteq 1 .. ids
    /\ old \subseteq 1 .. ids
    /\ out \subseteq 1 .. ids
    /\ unkept \subseteq out
    /\ answers \in BOOLEAN

LEMMA ClientStep ==
    ASSUME AInv, NEW c \in Clients, NEW r \in Request,
           client' = [client EXCEPT ![c] = r], ids' = ids \/ ids' = ids + 1,
           r.op \in Numbered => r.id \in 1 .. ids'
    PROVE  client' \in [Clients -> Request] /\ Drawn'
<1>1. \A d \in Clients : client'[d] = IF d = c THEN r ELSE client[d]
  BY DEF AInv
<1>2. ids \in Nat /\ \A n \in 1 .. ids : n \in 1 .. ids'
  BY DEF AInv
<1>3. client' \in [Clients -> Request]
  BY DEF AInv
<1>4. Drawn'
  BY <1>1, <1>2 DEF AInv, Drawn
<1> QED
  BY <1>3, <1>4

LEMMA AskTyped ==
    ASSUME AInv, NEW c \in Clients, NEW r \in Request, Ask(c, r),
           r.op \in Numbered => r.id \in 1 .. (ids + 1)
    PROVE  AInv'
<1>1. /\ ids' = ids + 1 /\ ids' \in Nat /\ ids' <= MaxIds
      /\ client' = [client EXCEPT ![c] = r]
      /\ UNCHANGED <<account, code, limited, pass, tokens, current, blacklist, old, out,
                     unkept, answers>>
  BY MaxIdsAssumption DEF Ask, AInv
<1>2. client' \in [Clients -> Request] /\ Drawn'
  BY <1>1, ClientStep
<1>3. /\ \A n \in 1 .. ids : n \in 1 .. ids'
      /\ \A n \in 0 .. ids : n \in 0 .. ids'
  BY <1>1 DEF AInv
<1>4. code' \in [{"verify", "reset"} -> 0 .. ids'] /\ current' \in [Accounts -> 0 .. ids']
  BY <1>1, <1>3 DEF AInv
<1>5. tokens' \subseteq (1 .. ids') \X Accounts
  BY <1>1, <1>3 DEF AInv
<1>6. pass' \in 0 .. ids' /\ blacklist' \subseteq 1 .. ids' /\ old' \subseteq 1 .. ids'
        /\ out' \subseteq 1 .. ids' /\ unkept' \subseteq out' /\ answers' \in BOOLEAN
  BY <1>1, <1>3 DEF AInv
<1> QED
  BY <1>1, <1>2, <1>4, <1>5, <1>6 DEF AInv

\* What a request draws or takes along when it is made.
LEMMA AskIsOne ==
    ASSUME AInv, NEW c \in Clients,
           \/ SendVerificationCode(c) \/ VerifyCode(c) \/ CompleteRegistration(c)
           \/ Login(c) \/ Logout(c) \/ ForgotPassword(c) \/ VerifyForgotPasswordOtp(c)
           \/ ResetPassword(c) \/ CreateAdmin(c) \/ \E x \in Accounts : DeleteAdmin(c, x)
    PROVE  \E r \in Request :
             /\ Ask(c, r)
             /\ r.op \in Numbered => r.id \in 1 .. (ids + 1)
             /\ \/ r.op \in {"keep code", "grant pass"}
                \/ r.op = "mark verified" /\ r.id = code.verify /\ code.verify # 0
                \/ r.op = "open" /\ r.id = ids + 1 /\ r.account \in Found
                      /\ \E x \in Found : account[x].state = "Pending"
                \/ r.op = "issue" /\ r.id = ids + 1
                \/ r.op = "find session" /\ \E x \in Accounts : <<r.id, x>> \in tokens
                \/ r.op \in {"drop pass", "insert"}
                \/ r.op = "delete" /\ r.account \in Found
             /\ r.op = "keep code" =>
                  r.type = "reset" \/ \E x \in Found : account[x].state = "Pending"
<1>1. ids \in Nat /\ ids + 1 \in Nat /\ ids + 1 \in 1 .. (ids + 1)
  BY DEF AInv
<1>2. code.verify # 0 => code.verify \in Nat /\ code.verify \in 1 .. (ids + 1)
  <2>1. code["verify"] \in 0 .. ids
    BY DEF AInv
  <2> QED
    BY <1>1, <2>1
<1>3. \A t \in tokens : /\ t[1] \in Nat /\ t[1] \in 1 .. (ids + 1) /\ t[2] \in Accounts
                       /\ <<t[1], t[2]>> \in tokens
  <2>1. \A t \in tokens : t[1] \in 1 .. ids /\ t[2] \in Accounts /\ t = <<t[1], t[2]>>
    BY DEF AInv
  <2> QED
    BY <1>1, <2>1
<1> USE NewRequests DEF NumberOps, SessionOps, CodeOps, RowOps, Numbered
<1>4. Found \subseteq Accounts
  BY DEF Found, Existing
<1>5. CASE SendVerificationCode(c)
  BY <1>1, <1>5 DEF SendVerificationCode, SendCode
<1>6. CASE ForgotPassword(c)
  BY <1>1, <1>6 DEF ForgotPassword, SendCode
<1>7. CASE VerifyCode(c)
  <2>1. code.verify # 0 /\ Ask(c, [op |-> "mark verified", id |-> code.verify])
    BY <1>7 DEF VerifyCode
  <2> QED
    BY <1>2, <2>1
<1>8. CASE CompleteRegistration(c)
  BY <1>1, <1>4, <1>8 DEF CompleteRegistration
<1>9. CASE Login(c)
  BY <1>1, <1>4, <1>9 DEF Login
<1>10. CASE Logout(c)
  <2>1. PICK t \in tokens : Ask(c, [op |-> "find session", account |-> t[2], id |-> t[1]])
    BY <1>10 DEF Logout
  <2> QED
    BY <1>3, <2>1
<1>11. CASE VerifyForgotPasswordOtp(c)
  BY <1>1, <1>11 DEF VerifyForgotPasswordOtp
<1>12. CASE ResetPassword(c)
  BY <1>12 DEF ResetPassword
<1>13. CASE CreateAdmin(c)
  BY <1>13 DEF CreateAdmin
<1>14. CASE \E x \in Accounts : DeleteAdmin(c, x)
  BY <1>4, <1>14 DEF DeleteAdmin
<1> QED
  BY <1>5, <1>6, <1>7, <1>8, <1>9, <1>10, <1>11, <1>12, <1>13, <1>14

LEMMA ContinueStep ==
    ASSUME AInv, NEW c \in Clients, NEW op, Continue(c, op), ids' = ids,
           \/ client[c].op \in CodeOps /\ op \in CodeOps
           \/ client[c].op \in NumberOps /\ op \in NumberOps
           \/ client[c].op \in SessionOps /\ op \in SessionOps
    PROVE  /\ client' \in [Clients -> Request] /\ Drawn'
           /\ client'[c].op = op /\ client'[c].id = client[c].id
           /\ op \in CodeOps => client'[c].type = client[c].type
           /\ op \in SessionOps => client'[c].account = client[c].account
           /\ \A d \in Clients \ {c} : client'[d] = client[d]
<1> DEFINE r == [client[c] EXCEPT !.op = op]
<1>1. client' = [client EXCEPT ![c] = r]
  BY DEF Continue, Then
<1>2. /\ r \in Request /\ r.op = op /\ r.id = client[c].id
      /\ op \in CodeOps => r.type = client[c].type
      /\ op \in SessionOps => r.account = client[c].account
      /\ r.op \in Numbered => client[c].op \in Numbered
  <2>1. client[c] \in Request
    BY DEF AInv
  <2>2. op \in CodeOps => op \notin SessionOps
    BY DEF CodeOps, SessionOps
  <2>3. op \in NumberOps => op \notin SessionOps /\ op \notin CodeOps
    BY DEF CodeOps, NumberOps, SessionOps
  <2>4. CASE client[c].op \in CodeOps /\ op \in CodeOps
    BY <2>1, <2>2, <2>4, KindOfRequest, CodeContinues DEF Request, Numbered
  <2>5. CASE client[c].op \in NumberOps /\ op \in NumberOps
    BY <2>1, <2>3, <2>5, KindOfRequest, NumberContinues DEF Request, Numbered
  <2>6. CASE client[c].op \in SessionOps /\ op \in SessionOps
    BY <2>1, <2>2, <2>6, KindOfRequest, SessionContinues DEF Request, Numbered
  <2> QED
    BY <2>4, <2>5, <2>6
<1>3. client[c].op \in Numbered => client[c].id \in 1 .. ids
  BY DEF AInv, Drawn
<1> HIDE DEF r
<1>4. client' \in [Clients -> Request] /\ Drawn'
  BY <1>1, <1>2, <1>3, ClientStep
<1>5. client'[c] = r /\ \A d \in Clients \ {c} : client'[d] = client[d]
  BY <1>1 DEF AInv
<1> QED
  BY <1>2, <1>4, <1>5

LEMMA DoneStep ==
    ASSUME AInv, NEW c \in Clients, Done(c), ids' = ids
    PROVE  /\ client' \in [Clients -> Request] /\ Drawn'
           /\ client'[c].op = "idle"
           /\ \A d \in Clients \ {c} : client'[d] = client[d]
<1>1. client' = [client EXCEPT ![c] = Idle]
  BY DEF Done, Then
<1>2. Idle \in Request /\ Idle.op = "idle" /\ Idle.op \notin Numbered
  BY NewRequests DEF Numbered, CodeOps, NumberOps, SessionOps
<1>3. client' \in [Clients -> Request] /\ Drawn'
  BY <1>1, <1>2, ClientStep
<1> QED
  BY <1>1, <1>2, <1>3 DEF AInv

\* The account of a request that opens, inserts or deletes one is an account,
\* and the number of one that carries a number was drawn.
LEMMA RequestOf ==
    ASSUME AInv, NEW c \in Clients
    PROVE  /\ client[c].op \in SessionOps \cup RowOps => client[c].account \in Accounts
           /\ client[c].op \in Numbered => client[c].id \in 1 .. ids
           /\ client[c].op \in CodeOps => client[c].type \in {"verify", "reset"}
<1>1. client[c] \in Request
  BY DEF AInv
<1>2. client[c].op \in SessionOps => client[c].account \in Accounts
  BY <1>1, KindOfRequest DEF SessionRequest
<1>3. client[c].op \in RowOps => client[c].account \in Accounts
  BY <1>1, KindOfRequest DEF RowRequest
<1>4. client[c].op \in CodeOps => client[c].type \in {"verify", "reset"}
  BY <1>1, KindOfRequest DEF CodeRequest
<1> QED
  BY <1>2, <1>3, <1>4 DEF AInv, Drawn

LEMMA DoTyped ==
    ASSUME AInv, NEW c \in Clients,
           \/ KeepCode(c) \/ SmsFails(c) \/ SmsSent(c) \/ MarkVerified(c) \/ DropCode(c)
           \/ OpenAccount(c) \/ IssueToken(c) \/ FindSession(c) \/ EndSession(c)
           \/ Blacklist(c) \/ GrantPass(c) \/ DropResetCode(c) \/ DropPass(c)
           \/ InsertAccount(c) \/ RemoveAccount(c) \/ Abandon(c)
    PROVE  AInv'
<1>1. /\ ids \in Nat /\ ids <= MaxIds /\ \A n \in 1 .. ids : n \in 0 .. ids
      /\ 0 \in 0 .. ids
  BY DEF AInv
<1>2. ids' = ids
  BY DEF KeepCode, SmsFails, SmsSent, MarkVerified, DropCode, OpenAccount, IssueToken,
         FindSession, EndSession, Blacklist, GrantPass, DropResetCode, DropPass,
         InsertAccount, RemoveAccount, Abandon
<1>3. client' \in [Clients -> Request] /\ Drawn'
  <2>1. CASE KeepCode(c)
    BY <1>2, <2>1, ContinueStep DEF KeepCode, Does, CodeOps
  <2>2. CASE MarkVerified(c)
    BY <1>2, <2>2, ContinueStep DEF MarkVerified, Does, NumberOps
  <2>3. CASE OpenAccount(c)
    BY <1>2, <2>3, ContinueStep DEF OpenAccount, Does, SessionOps
  <2>4. CASE EndSession(c)
    BY <1>2, <2>4, ContinueStep DEF EndSession, Does, SessionOps
  <2>5. CASE GrantPass(c)
    BY <1>2, <2>5, ContinueStep DEF GrantPass, Does, NumberOps
  <2>6. CASE FindSession(c)
    BY <1>2, <2>6, ContinueStep, DoneStep DEF FindSession, Does, SessionOps
  <2>7. CASE \/ SmsFails(c) \/ SmsSent(c) \/ DropCode(c) \/ IssueToken(c) \/ Blacklist(c)
             \/ DropResetCode(c) \/ DropPass(c) \/ InsertAccount(c) \/ RemoveAccount(c)
             \/ Abandon(c)
    BY <1>2, <2>7, DoneStep
    DEF SmsFails, SmsSent, DropCode, IssueToken, Blacklist, DropResetCode, DropPass,
        InsertAccount, RemoveAccount, Abandon
  <2> QED
    BY <2>1, <2>2, <2>3, <2>4, <2>5, <2>6, <2>7
<1>4. account' \in [Accounts -> Row]
  <2>1. account \in [Accounts -> Row]
    BY DEF AInv
  <2>2. \A x \in Accounts :
          /\ [account[x] EXCEPT !.state = "Pending", !.verified = TRUE] \in Row
          /\ [account[x] EXCEPT !.state = "Open"] \in Row
          /\ [account[x] EXCEPT !.state = "Deleted", !.active = FALSE] \in Row
          /\ AccountRow("Pending", FALSE) \in Row
    BY <2>1 DEF Row, AccountRow
  <2>3. CASE MarkVerified(c) \/ OpenAccount(c)
    BY <2>1, <2>2, <2>3 DEF MarkVerified, OpenAccount
  <2>4. CASE InsertAccount(c)
    BY <2>1, <2>2, <2>4 DEF InsertAccount
  <2>5. CASE RemoveAccount(c)
    <3>1. account' = [account EXCEPT ![client[c].account] =
                        [account[client[c].account] EXCEPT !.state = "Deleted", !.active = FALSE]]
      BY <2>1, <2>5 DEF RemoveAccount, Row
    <3> QED
      BY <2>1, <2>2, <3>1
  <2>6. CASE UNCHANGED account
    BY <2>1, <2>6
  <2> QED
    BY <2>3, <2>4, <2>5, <2>6
    DEF KeepCode, SmsFails, SmsSent, DropCode, IssueToken, FindSession, EndSession, Blacklist,
        GrantPass, DropResetCode, DropPass, Abandon
<1>5. code' \in [{"verify", "reset"} -> 0 .. ids]
  <2>1. code \in [{"verify", "reset"} -> 0 .. ids]
    BY DEF AInv
  <2>2. CASE KeepCode(c)
    <3>1. client[c].id \in 0 .. ids
      BY <1>1, <2>2, RequestOf DEF KeepCode, Does, Numbered, CodeOps
    <3> QED
      BY <2>1, <2>2, <3>1 DEF KeepCode, Kept
  <2>3. CASE SmsFails(c) \/ DropCode(c) \/ DropResetCode(c)
    BY <1>1, <2>1, <2>3 DEF SmsFails, DropCode, DropResetCode, Kept
  <2>4. CASE UNCHANGED code
    BY <2>1, <2>4
  <2> QED
    BY <2>2, <2>3, <2>4
    DEF SmsSent, MarkVerified, OpenAccount, IssueToken, FindSession, EndSession, Blacklist,
        GrantPass, DropPass, InsertAccount, RemoveAccount, Abandon
<1>6. limited' \in BOOLEAN /\ pass' \in 0 .. ids
  <2>1. limited \in BOOLEAN /\ pass \in 0 .. ids
    BY DEF AInv
  <2>2. CASE GrantPass(c)
    <3>1. client[c].id \in 0 .. ids
      BY <1>1, <2>2, RequestOf DEF GrantPass, Does, Numbered, NumberOps
    <3> QED
      BY <2>1, <2>2, <3>1 DEF GrantPass, Kept
  <2>3. CASE SmsSent(c) \/ DropPass(c)
    BY <1>1, <2>1, <2>3 DEF SmsSent, DropPass, Kept
  <2>4. CASE UNCHANGED <<limited, pass>>
    BY <2>1, <2>4
  <2> QED
    BY <2>2, <2>3, <2>4
    DEF KeepCode, SmsFails, MarkVerified, DropCode, OpenAccount, IssueToken, FindSession,
        EndSession, Blacklist, DropResetCode, InsertAccount, RemoveAccount, Abandon
<1>7. /\ tokens' \subseteq (1 .. ids) \X Accounts
      /\ current' \in [Accounts -> 0 .. ids]
      /\ blacklist' \subseteq 1 .. ids /\ out' \subseteq 1 .. ids
      /\ unkept' \subseteq out' /\ answers' \in BOOLEAN
  <2>1. /\ tokens \subseteq (1 .. ids) \X Accounts
        /\ current \in [Accounts -> 0 .. ids]
        /\ blacklist \subseteq 1 .. ids /\ out \subseteq 1 .. ids
        /\ unkept \subseteq out /\ answers \in BOOLEAN
    BY DEF AInv
  <2>2. CASE IssueToken(c)
    <3>1. client[c].id \in 1 .. ids /\ client[c].account \in Accounts
      BY <2>2, RequestOf DEF IssueToken, Does, Numbered, SessionOps
    <3> QED
      BY <1>1, <2>1, <2>2, <3>1 DEF IssueToken, Kept
  <2>3. CASE EndSession(c)
    BY <1>1, <2>1, <2>3 DEF EndSession, Kept
  <2>4. CASE Blacklist(c)
    <3>1. client[c].id \in 1 .. ids
      BY <2>4, RequestOf DEF Blacklist, Does, Numbered, SessionOps
    <3> QED
      BY <1>1, <2>1, <2>4, <3>1 DEF Blacklist, Kept
  <2>5. CASE UNCHANGED <<tokens, current, blacklist, out, unkept, answers>>
    BY <2>1, <2>5
  <2> QED
    BY <2>2, <2>3, <2>4, <2>5
    DEF KeepCode, SmsFails, SmsSent, MarkVerified, DropCode, OpenAccount, FindSession,
        GrantPass, DropResetCode, DropPass, InsertAccount, RemoveAccount, Abandon
<1>8. old' \subseteq 1 .. ids
  <2>1. old \subseteq 1 .. ids
    BY DEF AInv
  <2>2. CASE OpenAccount(c) \/ RemoveAccount(c)
    BY <2>1, <2>2 DEF OpenAccount, RemoveAccount, Leaves
  <2>3. CASE UNCHANGED old
    BY <2>1, <2>3
  <2> QED
    BY <2>2, <2>3
    DEF KeepCode, SmsFails, SmsSent, MarkVerified, DropCode, IssueToken, FindSession,
        EndSession, Blacklist, GrantPass, DropResetCode, DropPass, InsertAccount, Abandon
<1> QED
  BY <1>1, <1>2, <1>3, <1>4, <1>5, <1>6, <1>7, <1>8 DEF AInv

\* What nobody asks for: times that are over, and redis lost or found.
Expires ==
    \/ RedisTurns
    \/ CodeExpires \/ LimitExpires \/ PassExpires
    \/ TokenExpires \/ SessionExpires \/ BlacklistExpires

LEMMA ExpiresTyped ==
    ASSUME AInv, Expires
    PROVE  AInv'
<1>1. /\ UNCHANGED <<account, client, ids, old, out, unkept>>
      /\ tokens' \subseteq tokens /\ blacklist' \subseteq blacklist
  BY DEF Expires, CodeExpires, LimitExpires, PassExpires, TokenExpires, SessionExpires,
         BlacklistExpires, RedisTurns
<1>2. 0 \in 0 .. ids
  BY DEF AInv
<1>3. code' \in [{"verify", "reset"} -> 0 .. ids]
  <2>1. code \in [{"verify", "reset"} -> 0 .. ids]
    BY DEF AInv
  <2>2. CASE CodeExpires
    BY <1>2, <2>1, <2>2 DEF CodeExpires
  <2>3. CASE UNCHANGED code
    BY <2>1, <2>3
  <2> QED
    BY <2>2, <2>3
    DEF Expires, LimitExpires, PassExpires, TokenExpires, SessionExpires, BlacklistExpires,
        RedisTurns
<1>4. current' \in [Accounts -> 0 .. ids]
  <2>1. current \in [Accounts -> 0 .. ids]
    BY DEF AInv
  <2>2. CASE SessionExpires
    BY <1>2, <2>1, <2>2 DEF SessionExpires
  <2>3. CASE UNCHANGED current
    BY <2>1, <2>3
  <2> QED
    BY <2>2, <2>3
    DEF Expires, CodeExpires, LimitExpires, PassExpires, TokenExpires, BlacklistExpires,
        RedisTurns
<1>5. limited' \in BOOLEAN /\ pass' \in 0 .. ids /\ answers' \in BOOLEAN
  BY <1>2
  DEF AInv, Expires, CodeExpires, LimitExpires, PassExpires, TokenExpires, SessionExpires,
      BlacklistExpires, RedisTurns
<1>6. Drawn'
  BY <1>1 DEF AInv, Drawn
<1> QED
  BY <1>1, <1>3, <1>4, <1>5, <1>6 DEF AInv

\* Every step makes one request, takes one further, or is nobody's.
LEMMA StepIsOne ==
    ASSUME AInv, AccountsNext
    PROVE  \/ \E c \in Clients :
                \/ SendVerificationCode(c) \/ VerifyCode(c) \/ CompleteRegistration(c)
                \/ Login(c) \/ Logout(c) \/ ForgotPassword(c) \/ VerifyForgotPasswordOtp(c)
                \/ ResetPassword(c) \/ CreateAdmin(c) \/ \E x \in Accounts : DeleteAdmin(c, x)
           \/ \E c \in Clients :
                \/ KeepCode(c) \/ SmsFails(c) \/ SmsSent(c) \/ MarkVerified(c) \/ DropCode(c)
                \/ OpenAccount(c) \/ IssueToken(c) \/ FindSession(c) \/ EndSession(c)
                \/ Blacklist(c) \/ GrantPass(c) \/ DropResetCode(c) \/ DropPass(c)
                \/ InsertAccount(c) \/ RemoveAccount(c) \/ Abandon(c)
           \/ Expires
BY Zenon DEF AccountsNext, Expires

LEMMA AsksTyped ==
    ASSUME AInv, NEW c \in Clients,
           \/ SendVerificationCode(c) \/ VerifyCode(c) \/ CompleteRegistration(c)
           \/ Login(c) \/ Logout(c) \/ ForgotPassword(c) \/ VerifyForgotPasswordOtp(c)
           \/ ResetPassword(c) \/ CreateAdmin(c) \/ \E x \in Accounts : DeleteAdmin(c, x)
    PROVE  AInv'
<1>1. PICK r \in Request : Ask(c, r) /\ (r.op \in Numbered => r.id \in 1 .. (ids + 1))
  BY AskIsOne
<1> QED
  BY <1>1, AskTyped

LEMMA TypesInvariant == AccountsSpec => []AInv
<1>1. AccountsInit => AInv
  <2> SUFFICES ASSUME AccountsInit PROVE AInv
    OBVIOUS
  <2>1. account \in [Accounts -> Row]
    <3>1. /\ AccountRow("absent", FALSE) \in Row /\ AccountRow("Pending", FALSE) \in Row
          /\ AccountRow("Pending", TRUE) \in Row /\ AccountRow("Open", TRUE) \in Row
          /\ AccountRow("Deleted", TRUE) \in Row
      BY DEF AccountRow, Row
    <3> QED
      BY <3>1 DEF AccountsInit
  <2>2. client \in [Clients -> Request] /\ Drawn
    <3>1. client = [c \in Clients |-> Idle]
      BY DEF AccountsInit
    <3>2. Idle \in Request /\ Idle.op \notin Numbered
      BY NewRequests DEF Numbered, CodeOps, NumberOps, SessionOps
    <3> QED
      BY <3>1, <3>2 DEF Drawn
  <2>3. ids = 0 /\ ids \in Nat /\ ids <= MaxIds /\ 0 \in 0 .. ids
    BY MaxIdsAssumption DEF AccountsInit
  <2>4. code \in [{"verify", "reset"} -> 0 .. ids] /\ current \in [Accounts -> 0 .. ids]
    BY <2>3 DEF AccountsInit
  <2>5. /\ limited \in BOOLEAN /\ pass \in 0 .. ids
        /\ tokens = {} /\ blacklist = {} /\ old = {} /\ out = {}
        /\ unkept = {} /\ answers \in BOOLEAN
    BY <2>3 DEF AccountsInit
  <2> QED
    BY <2>1, <2>2, <2>3, <2>4, <2>5 DEF AInv
<1>2. AInv /\ [AccountsNext]_accountVars => AInv'
  <2>1. ASSUME AInv, AccountsNext PROVE AInv'
    BY <2>1, StepIsOne, AsksTyped, DoTyped, ExpiresTyped
  <2>2. ASSUME AInv, UNCHANGED accountVars PROVE AInv'
    BY <2>2 DEF accountVars, AInv, Drawn
  <2> QED
    BY <2>1, <2>2
<1> QED
  BY <1>1, <1>2, PTL DEF AccountsSpec

\* The types of the module: ids are drawn one after the other up to MaxIds, and
\* codes, tokens and sessions are among those drawn.
THEOREM AccountsTypeCorrect == AccountsSpec => []AccountsTypeOK
<1>1. AInv => AccountsTypeOK
  BY DEF AInv, AccountsTypeOK, Row
<1> QED
  BY <1>1, TypesInvariant, PTL

(***************************************************************************)
(* A token logged out stays out.  What makes it true is that a token is    *)
(* issued once, under an id nobody else holds: a request to issue one can  *)
(* not be about a token somebody logs out or has logged out.               *)
(***************************************************************************)
Issuing == {"open", "issue"}

UnusedId(n, issued, gone) == n \notin gone /\ \A x \in Accounts : <<n, x>> \notin issued

Fresh ==
    \A c \in Clients : client[c].op \in Issuing =>
        /\ UnusedId(client[c].id, tokens, out)
        /\ \A d \in Clients \ {c} : client[d].op \in SessionOps => client[d].id # client[c].id

Shut == \A t \in out \ unkept : t \in blacklist \/ \A x \in Accounts : <<t, x>> \notin tokens

LEMMA AskKeepsOut ==
    ASSUME AInv, Fresh, Shut, NEW c \in Clients, NEW r \in Request, Ask(c, r),
           r.op \in Issuing => r.id = ids + 1,
           r.op \in {"find session", "end session", "blacklist"} =>
               \E x \in Accounts : <<r.id, x>> \in tokens
    PROVE  Fresh' /\ Shut'
<1>1. /\ client' = [client EXCEPT ![c] = r]
      /\ UNCHANGED <<tokens, blacklist, out, unkept>>
  BY DEF Ask
<1>2. /\ \A d \in Clients \ {c} : client'[d] = client[d]
      /\ client'[c] = r
  BY <1>1 DEF AInv
<1>3. /\ ids \in Nat
      /\ \A n \in out : n \in 1 .. ids
      /\ \A n, x : <<n, x>> \in tokens => n \in 1 .. ids
      /\ \A d \in Clients : client[d].op \in SessionOps => client[d].id \in 1 .. ids
  <2>1. \A n, x : <<n, x>> \in tokens => n \in 1 .. ids
    BY DEF AInv
  <2>2. \A d \in Clients : client[d].op \in SessionOps => client[d].id \in 1 .. ids
    BY RequestOf DEF Numbered
  <2> QED
    BY <2>1, <2>2 DEF AInv
<1>4. r.op \in Issuing => r.id \notin 1 .. ids
  <2>1. ids + 1 \notin 1 .. ids
    BY ONLY <1>3
  <2> QED
    BY <2>1
<1>5. ASSUME NEW d \in Clients \ {c}, client[d].op \in Issuing, r.op \in SessionOps
      PROVE  client[d].id # r.id
  <2>1. CASE r.op \in Issuing
    BY <1>3, <1>4, <1>5, <2>1 DEF Issuing, SessionOps
  <2>2. CASE r.op \notin Issuing
    BY <1>5, <2>2 DEF Fresh, UnusedId, Issuing, SessionOps
  <2> QED
    BY <2>1, <2>2
<1>6. Shut'
  BY <1>1 DEF Shut
<1>7. ASSUME r.op \in Issuing
      PROVE  /\ UnusedId(r.id, tokens, out)
             /\ \A d \in Clients \ {c} : client[d].op \in SessionOps => client[d].id # r.id
  BY <1>3, <1>4, <1>7 DEF UnusedId
<1>8. ASSUME NEW d \in Clients, client'[d].op \in Issuing
      PROVE  UnusedId(client'[d].id, tokens', out')
  <2>1. CASE d = c
    BY <1>1, <1>2, <1>7, <1>8, <2>1
  <2>2. CASE d # c
    <3>1. client'[d] = client[d] /\ client[d].op \in Issuing
      BY <1>2, <1>8, <2>2
    <3> QED
      BY <1>1, <3>1 DEF Fresh
  <2> QED
    BY <2>1, <2>2
<1>9. ASSUME NEW d \in Clients, client'[d].op \in Issuing,
             NEW e \in Clients \ {d}, client'[e].op \in SessionOps
      PROVE  client'[e].id # client'[d].id
  <2>1. CASE d = c
    BY <1>2, <1>7, <1>9, <2>1
  <2>2. CASE e = c
    BY <1>2, <1>5, <1>9, <2>2
  <2>3. CASE d # c /\ e # c
    <3>1. client'[d] = client[d] /\ client'[e] = client[e]
      BY <1>2, <2>3
    <3> QED
      BY <1>9, <3>1 DEF Fresh
  <2> QED
    BY <2>1, <2>2, <2>3
<1> QED
  BY <1>6, <1>8, <1>9 DEF Fresh

\* No request comes to carry a session's id it did not carry before.
Carries ==
    \A d \in Clients :
        /\ client'[d].op \in SessionOps =>
             client[d].op \in SessionOps /\ client'[d].id = client[d].id
        /\ client'[d].op \in Issuing => client[d].op \in Issuing

LEMMA CarriesKeepFresh ==
    ASSUME Fresh, Carries,
           \A c \in Clients : client'[c].op \in Issuing /\ UnusedId(client[c].id, tokens, out)
              => UnusedId(client[c].id, tokens', out')
    PROVE  Fresh'
<1> SUFFICES ASSUME NEW c \in Clients, client'[c].op \in Issuing
             PROVE  /\ UnusedId(client'[c].id, tokens', out')
                    /\ \A d \in Clients \ {c} : client'[d].op \in SessionOps
                           => client'[d].id # client'[c].id
  BY DEF Fresh
<1>1. client[c].op \in Issuing /\ client'[c].id = client[c].id
  BY DEF Carries, Issuing, SessionOps
<1>2. UnusedId(client[c].id, tokens, out)
  BY <1>1 DEF Fresh
<1>3. ASSUME NEW d \in Clients \ {c}, client'[d].op \in SessionOps
      PROVE  client'[d].id # client'[c].id
  BY <1>1, <1>3 DEF Fresh, Carries
<1> QED
  BY <1>1, <1>2, <1>3

LEMMA DoCarries ==
    ASSUME AInv, NEW c \in Clients,
           \/ KeepCode(c) \/ SmsFails(c) \/ SmsSent(c) \/ MarkVerified(c) \/ DropCode(c)
           \/ OpenAccount(c) \/ IssueToken(c) \/ FindSession(c) \/ EndSession(c)
           \/ Blacklist(c) \/ GrantPass(c) \/ DropResetCode(c) \/ DropPass(c)
           \/ InsertAccount(c) \/ RemoveAccount(c) \/ Abandon(c)
    PROVE  /\ Carries /\ ids' = ids
           /\ \A d \in Clients \ {c} : client'[d] = client[d]
           /\ IssueToken(c) \/ Blacklist(c) => client'[c].op = "idle"
<1> USE DEF Issuing, SessionOps
<1>1. ids' = ids
  BY DEF KeepCode, SmsFails, SmsSent, MarkVerified, DropCode, OpenAccount, IssueToken,
         FindSession, EndSession, Blacklist, GrantPass, DropResetCode, DropPass,
         InsertAccount, RemoveAccount, Abandon
<1>2. ASSUME Done(c)
      PROVE  /\ client'[c].op = "idle" /\ \A d \in Clients \ {c} : client'[d] = client[d]
             /\ Carries
  BY <1>1, <1>2, DoneStep DEF Carries
<1>3. CASE KeepCode(c)
  <2>1. /\ \A d \in Clients \ {c} : client'[d] = client[d]
        /\ client'[c].op = "send"
    BY <1>1, <1>3, ContinueStep DEF KeepCode, Does, CodeOps
  <2> QED
    BY <1>1, <1>3, <2>1 DEF Carries, KeepCode, IssueToken, Blacklist, Does
<1>4. CASE MarkVerified(c)
  <2>1. /\ \A d \in Clients \ {c} : client'[d] = client[d]
        /\ client'[c].op = "drop code"
    BY <1>1, <1>4, ContinueStep DEF MarkVerified, Does, NumberOps
  <2> QED
    BY <1>1, <1>4, <2>1 DEF Carries, MarkVerified, IssueToken, Blacklist, Does
<1>5. CASE GrantPass(c)
  <2>1. /\ \A d \in Clients \ {c} : client'[d] = client[d]
        /\ client'[c].op = "drop reset code"
    BY <1>1, <1>5, ContinueStep DEF GrantPass, Does, NumberOps
  <2> QED
    BY <1>1, <1>5, <2>1 DEF Carries, GrantPass, IssueToken, Blacklist, Does
<1>6. CASE OpenAccount(c)
  <2>1. /\ \A d \in Clients \ {c} : client'[d] = client[d]
        /\ client'[c].op = "issue" /\ client'[c].id = client[c].id /\ client[c].op = "open"
    BY <1>1, <1>6, ContinueStep DEF OpenAccount, Does
  <2> QED
    BY <1>1, <2>1 DEF Carries, IssueToken, Blacklist, Does
<1>7. CASE EndSession(c)
  <2>1. /\ \A d \in Clients \ {c} : client'[d] = client[d]
        /\ client'[c].op = "blacklist" /\ client'[c].id = client[c].id
        /\ client[c].op = "end session"
    BY <1>1, <1>7, ContinueStep DEF EndSession, Does
  <2> QED
    BY <1>1, <2>1 DEF Carries, IssueToken, Blacklist, Does
<1>8. CASE FindSession(c) /\ ~Done(c)
  <2>1. /\ \A d \in Clients \ {c} : client'[d] = client[d]
        /\ client'[c].op = "end session" /\ client'[c].id = client[c].id
        /\ client[c].op = "find session"
    BY <1>1, <1>8, ContinueStep DEF FindSession, Does
  <2> QED
    BY <1>1, <2>1 DEF Carries, IssueToken, Blacklist, Does
<1> QED
  BY <1>1, <1>2, <1>3, <1>4, <1>5, <1>6, <1>7, <1>8
  DEF SmsFails, SmsSent, DropCode, IssueToken, Blacklist, DropResetCode, DropPass,
      InsertAccount, RemoveAccount, Abandon

LEMMA DoKeepsOut ==
    ASSUME AInv, Fresh, Shut, NEW c \in Clients,
           \/ KeepCode(c) \/ SmsFails(c) \/ SmsSent(c) \/ MarkVerified(c) \/ DropCode(c)
           \/ OpenAccount(c) \/ IssueToken(c) \/ FindSession(c) \/ EndSession(c)
           \/ Blacklist(c) \/ GrantPass(c) \/ DropResetCode(c) \/ DropPass(c)
           \/ InsertAccount(c) \/ RemoveAccount(c) \/ Abandon(c)
    PROVE  Fresh' /\ Shut'
<1>1. /\ Carries /\ \A d \in Clients \ {c} : client'[d] = client[d]
      /\ IssueToken(c) \/ Blacklist(c) => client'[c].op = "idle"
  BY DoCarries
<1>2. CASE IssueToken(c)
  <2>1. /\ client[c].op \in Issuing /\ client[c].op \in SessionOps
        /\ tokens' = tokens \cup {<<client[c].id, client[c].account>>}
        /\ UNCHANGED <<blacklist, out, unkept>>
    BY <1>2 DEF IssueToken, Does, Issuing, SessionOps
  <2>2. ASSUME NEW d \in Clients, client'[d].op \in Issuing, UnusedId(client[d].id, tokens, out)
        PROVE  UnusedId(client[d].id, tokens', out')
    <3>1. d # c
      BY <1>1, <1>2, <2>2 DEF Issuing
    <3>2. client[d].id # client[c].id
      BY <1>1, <2>1, <2>2, <3>1 DEF Fresh
    <3> QED
      BY <2>1, <2>2, <3>2 DEF UnusedId
  <2>3. client[c].id \notin out
    BY <2>1 DEF Fresh, UnusedId
  <2> QED
    BY <1>1, <2>1, <2>2, <2>3, CarriesKeepFresh DEF Shut
<1>3. CASE Blacklist(c)
  <2>1. /\ client[c].op \in SessionOps
        /\ out' = out \cup {client[c].id} /\ blacklist \subseteq blacklist'
        /\ unkept \ {client[c].id} \subseteq unkept'
        /\ client[c].id \notin blacklist' => client[c].id \in unkept'
        /\ UNCHANGED tokens
    BY <1>3 DEF Blacklist, Kept, Does, SessionOps
  <2>2. ASSUME NEW d \in Clients, client'[d].op \in Issuing, UnusedId(client[d].id, tokens, out)
        PROVE  UnusedId(client[d].id, tokens', out')
    <3>1. d # c
      BY <1>1, <1>3, <2>2 DEF Issuing
    <3>2. client[d].id # client[c].id
      BY <1>1, <2>1, <2>2, <3>1 DEF Fresh
    <3> QED
      BY <2>1, <2>2, <3>2 DEF UnusedId
  <2>3. Shut'
    BY <2>1 DEF Shut
  <2> QED
    BY <1>1, <2>2, <2>3, CarriesKeepFresh
<1>4. CASE UNCHANGED <<tokens, blacklist, out, unkept>>
  BY <1>1, <1>4, CarriesKeepFresh DEF Shut
<1> QED
  BY <1>2, <1>3, <1>4
  DEF KeepCode, SmsFails, SmsSent, MarkVerified, DropCode, OpenAccount, FindSession,
      EndSession, GrantPass, DropResetCode, DropPass, InsertAccount, RemoveAccount, Abandon

LEMMA ExpiresKeepsOut ==
    ASSUME AInv, Fresh, Shut, Expires
    PROVE  Fresh' /\ Shut'
<1>1. UNCHANGED <<client, out, unkept>> /\ tokens' \subseteq tokens
  BY DEF Expires, CodeExpires, LimitExpires, PassExpires, TokenExpires, SessionExpires,
         BlacklistExpires, RedisTurns
<1>2. Fresh'
  <2>1. Carries
    BY <1>1 DEF Carries
  <2> QED
    BY <1>1, <2>1, CarriesKeepFresh DEF UnusedId
<1>3. CASE BlacklistExpires
  BY <1>2, <1>3 DEF BlacklistExpires, Shut
<1>4. CASE UNCHANGED blacklist
  BY <1>1, <1>2, <1>4 DEF Shut
<1> QED
  BY <1>3, <1>4
  DEF Expires, CodeExpires, LimitExpires, PassExpires, TokenExpires, SessionExpires,
      RedisTurns

LEMMA AsksKeepOut ==
    ASSUME AInv, Fresh, Shut, NEW c \in Clients,
           \/ SendVerificationCode(c) \/ VerifyCode(c) \/ CompleteRegistration(c)
           \/ Login(c) \/ Logout(c) \/ ForgotPassword(c) \/ VerifyForgotPasswordOtp(c)
           \/ ResetPassword(c) \/ CreateAdmin(c) \/ \E x \in Accounts : DeleteAdmin(c, x)
    PROVE  Fresh' /\ Shut'
<1>1. PICK r \in Request :
         /\ Ask(c, r)
         /\ r.op \in Issuing => r.id = ids + 1
         /\ r.op \in {"find session", "end session", "blacklist"} =>
               \E x \in Accounts : <<r.id, x>> \in tokens
  BY AskIsOne DEF Issuing
<1> QED
  BY <1>1, AskKeepsOut

\* Once its logout was answered and redis took it, a token is refused whenever
\* redis answers, whatever logins, logouts and expiries follow, however requests
\* interleave and however often redis is lost in between.
THEOREM LoggedOutStaysOutHolds == AccountsSpec => []LoggedOutStaysOut
<1>1. AccountsInit => Fresh /\ Shut
  <2> SUFFICES ASSUME AccountsInit PROVE Fresh /\ Shut
    OBVIOUS
  <2>1. out = {} /\ client = [c \in Clients |-> Idle]
    BY DEF AccountsInit
  <2>2. Idle.op \notin Issuing
    BY NewRequests DEF Issuing
  <2> QED
    BY <2>1, <2>2 DEF Fresh, Shut
<1>2. AInv /\ Fresh /\ Shut /\ [AccountsNext]_accountVars => (Fresh /\ Shut)'
  <2>1. ASSUME AInv, Fresh, Shut, AccountsNext PROVE Fresh' /\ Shut'
    BY <2>1, StepIsOne, AsksKeepOut, DoKeepsOut, ExpiresKeepsOut
  <2>2. ASSUME Fresh, Shut, UNCHANGED accountVars PROVE Fresh' /\ Shut'
    BY <2>2 DEF accountVars, Fresh, Shut, UnusedId
  <2> QED
    BY <2>1, <2>2
<1>3. Shut => LoggedOutStaysOut
  BY DEF Shut, LoggedOutStaysOut, Accepted
<1> QED
  BY <1>1, <1>2, <1>3, TypesInvariant, PTL DEF AccountsSpec

(***************************************************************************)
(* An account alone under its number does not go back to Pending, nor come *)
(* back once deleted, but by a code or a registration older than that.     *)
(* While it is not Pending no code can be asked for it, so whatever code   *)
(* is kept, or carried by a request, dates from before it left Pending.    *)
(***************************************************************************)
\* The requests by which a number is verified or registered.
Admits(r) ==
    \/ r.op \in {"mark verified", "open"}
    \/ r.op \in CodeOps /\ r.type = "verify"

Held == \A c \in Clients : client[c].op \in {"open", "delete"} => client[c].account \in Existing

OnlyOld ==
    /\ code.verify = 0 \/ code.verify \in old
    /\ \A c \in Clients : Admits(client[c]) => client[c].id \in old

Settled(x) == Existing = {x} /\ account[x].state # "Pending"

Aged == \A x \in Accounts : Settled(x) => OnlyOld

LEMMA AgedIfCalm ==
    ASSUME Aged, UNCHANGED <<account, old>>,
           \/ code'.verify \in {0, code.verify}
           \/ \E c \in Clients : Admits(client[c]) /\ code'.verify = client[c].id,
           \A c \in Clients : Admits(client'[c])
              => Admits(client[c]) /\ client'[c].id = client[c].id
    PROVE  Aged'
<1> SUFFICES ASSUME NEW x \in Accounts, Settled(x)'
             PROVE  OnlyOld'
  BY DEF Aged
<1>1. OnlyOld
  BY DEF Aged, Settled, Existing
<1> QED
  BY <1>1 DEF OnlyOld

LEMMA AskKeepsAged ==
    ASSUME AInv, Held, Aged, NEW c \in Clients, NEW r \in Request, Ask(c, r),
           r.op \in Numbered => r.id \in 1 .. (ids + 1),
           Admits(r) => \/ r.id = code.verify /\ code.verify # 0
                        \/ \E x \in Found : account[x].state = "Pending",
           r.op \in {"open", "delete"} => r.account \in Found
    PROVE  Held' /\ Aged'
<1>1. UNCHANGED <<account, code, old>> /\ client' = [client EXCEPT ![c] = r]
  BY DEF Ask
<1>2. client'[c] = r /\ \A d \in Clients \ {c} : client'[d] = client[d]
  BY <1>1 DEF AInv
<1>3. Existing' = Existing /\ Found \subseteq Existing
  BY <1>1 DEF Existing, Found
<1>4. Held'
  BY <1>2, <1>3 DEF Held
<1>5. ASSUME NEW x \in Accounts, Settled(x)'
      PROVE  OnlyOld'
  <2>1. Settled(x) /\ OnlyOld
    BY <1>1, <1>3, <1>5 DEF Settled, Aged
  <2>2. ~ \E y \in Found : account[y].state = "Pending"
    BY <1>3, <2>1 DEF Settled
  <2>3. Admits(r) => r.id \in old
    BY <2>1, <2>2 DEF OnlyOld
  <2>4. \A d \in Clients : Admits(client'[d]) => client'[d].id \in old
    BY <1>2, <2>1, <2>3 DEF OnlyOld
  <2> QED
    BY <1>1, <2>1, <2>4 DEF OnlyOld
<1> QED
  BY <1>4, <1>5 DEF Aged

LEMMA AsksKeepAged ==
    ASSUME AInv, Held, Aged, NEW c \in Clients,
           \/ SendVerificationCode(c) \/ VerifyCode(c) \/ CompleteRegistration(c)
           \/ Login(c) \/ Logout(c) \/ ForgotPassword(c) \/ VerifyForgotPasswordOtp(c)
           \/ ResetPassword(c) \/ CreateAdmin(c) \/ \E x \in Accounts : DeleteAdmin(c, x)
    PROVE  Held' /\ Aged'
<1>1. PICK r \in Request :
         /\ Ask(c, r)
         /\ r.op \in Numbered => r.id \in 1 .. (ids + 1)
         /\ Admits(r) => \/ r.id = code.verify /\ code.verify # 0
                         \/ \E x \in Found : account[x].state = "Pending"
         /\ r.op \in {"open", "delete"} => r.account \in Found
  BY AskIsOne DEF Admits, CodeOps
<1> QED
  BY <1>1, AskKeepsAged

LEMMA ExpiresKeepsAged ==
    ASSUME AInv, Held, Aged, Expires
    PROVE  Held' /\ Aged'
<1>1. UNCHANGED <<account, client, old>>
  BY DEF Expires, CodeExpires, LimitExpires, PassExpires, TokenExpires, SessionExpires,
         BlacklistExpires, RedisTurns
<1>2. Held'
  BY <1>1 DEF Held, Existing
<1>3. code'["verify"] = 0 \/ code'["verify"] = code["verify"]
  BY DEF AInv, Expires, CodeExpires, LimitExpires, PassExpires, TokenExpires, SessionExpires,
         BlacklistExpires, RedisTurns
<1>4. Aged'
  BY <1>1, <1>3 DEF Aged, Settled, Existing, OnlyOld
<1> QED
  BY <1>2, <1>4

\* A step that takes a request further leaves it the account and the id it has.
LEMMA DoAdmits ==
    ASSUME AInv, NEW c \in Clients,
           \/ KeepCode(c) \/ SmsFails(c) \/ SmsSent(c) \/ MarkVerified(c) \/ DropCode(c)
           \/ OpenAccount(c) \/ IssueToken(c) \/ FindSession(c) \/ EndSession(c)
           \/ Blacklist(c) \/ GrantPass(c) \/ DropResetCode(c) \/ DropPass(c)
           \/ InsertAccount(c) \/ RemoveAccount(c) \/ Abandon(c)
    PROVE  /\ \A d \in Clients \ {c} : client'[d] = client[d]
           /\ client'[c] # client[c]
           /\ client'[c].op \notin {"open", "delete"}
           /\ Admits(client'[c]) => Admits(client[c]) /\ client'[c].id = client[c].id
<1> USE DEF Admits, CodeOps, NumberOps
<1>1. ids' = ids
  BY DoCarries
<1>2. ASSUME Done(c), client[c].op # "idle"
      PROVE  /\ \A d \in Clients \ {c} : client'[d] = client[d]
             /\ client'[c] # client[c] /\ client'[c].op = "idle"
  BY <1>1, <1>2, DoneStep
<1>3. CASE KeepCode(c)
  <2>1. /\ \A d \in Clients \ {c} : client'[d] = client[d]
        /\ client'[c].op = "send" /\ client[c].op = "keep code"
        /\ client'[c].id = client[c].id /\ client'[c].type = client[c].type
    BY <1>1, <1>3, ContinueStep DEF KeepCode, Does
  <2> QED
    BY <2>1
<1>4. CASE MarkVerified(c)
  <2>1. /\ \A d \in Clients \ {c} : client'[d] = client[d]
        /\ client'[c].op = "drop code" /\ client[c].op = "mark verified"
    BY <1>1, <1>4, ContinueStep DEF MarkVerified, Does
  <2> QED
    BY <2>1
<1>5. CASE GrantPass(c)
  <2>1. /\ \A d \in Clients \ {c} : client'[d] = client[d]
        /\ client'[c].op = "drop reset code" /\ client[c].op = "grant pass"
    BY <1>1, <1>5, ContinueStep DEF GrantPass, Does
  <2> QED
    BY <2>1
<1>6. CASE OpenAccount(c)
  <2>1. /\ \A d \in Clients \ {c} : client'[d] = client[d]
        /\ client'[c].op = "issue" /\ client[c].op = "open"
    BY <1>1, <1>6, ContinueStep DEF OpenAccount, Does, SessionOps
  <2> QED
    BY <2>1
<1>7. CASE EndSession(c)
  <2>1. /\ \A d \in Clients \ {c} : client'[d] = client[d]
        /\ client'[c].op = "blacklist" /\ client[c].op = "end session"
    BY <1>1, <1>7, ContinueStep DEF EndSession, Does, SessionOps
  <2> QED
    BY <2>1
<1>8. CASE \/ SmsFails(c) \/ SmsSent(c) \/ DropCode(c) \/ IssueToken(c) \/ Blacklist(c)
           \/ DropResetCode(c) \/ DropPass(c) \/ InsertAccount(c) \/ RemoveAccount(c)
           \/ FindSession(c) /\ Done(c)
  <2>1. Done(c) /\ client[c].op # "idle"
    BY <1>8
    DEF SmsFails, SmsSent, DropCode, IssueToken, Blacklist, DropResetCode, DropPass,
        InsertAccount, RemoveAccount, FindSession, Does
  <2> QED
    BY <1>2, <2>1
<1>9. CASE Abandon(c)
  <2>1. /\ \A d \in Clients \ {c} : client'[d] = client[d]
        /\ client'[c].op = "idle"
    BY <1>1, <1>9, DoneStep DEF Abandon
  <2>2. client' = [client EXCEPT ![c] = Idle] /\ client[c] # Idle
    BY <1>9 DEF Abandon, Done, Then
  <2>3. client'[c] # client[c]
    BY <2>2 DEF AInv
  <2> QED
    BY <2>1, <2>3
<1>10. CASE FindSession(c) /\ ~Done(c)
  <2>1. /\ \A d \in Clients \ {c} : client'[d] = client[d]
        /\ client'[c].op = "end session" /\ client[c].op = "find session"
    BY <1>1, <1>10, ContinueStep DEF FindSession, Does, SessionOps
  <2> QED
    BY <2>1
<1> QED
  BY <1>3, <1>4, <1>5, <1>6, <1>7, <1>8, <1>9, <1>10

\* What a step that takes a request further does to the rows of accounts.
LEMMA DoRows ==
    ASSUME AInv, Held, NEW c \in Clients,
           \/ KeepCode(c) \/ SmsFails(c) \/ SmsSent(c) \/ MarkVerified(c) \/ DropCode(c)
           \/ OpenAccount(c) \/ IssueToken(c) \/ FindSession(c) \/ EndSession(c)
           \/ Blacklist(c) \/ GrantPass(c) \/ DropResetCode(c) \/ DropPass(c)
           \/ InsertAccount(c) \/ RemoveAccount(c) \/ Abandon(c)
    PROVE  \/ /\ client[c].op = "mark verified" /\ old' = old
              /\ Existing' = Existing
              /\ \A x \in Existing : account'[x].state = "Pending"
           \/ /\ client[c].op = "open" /\ Leaves(client[c].account) /\ code' = code
              /\ client[c].account \in Existing /\ Existing' = Existing
              /\ \A x \in Existing : account'[x].state = "Open"
           \/ /\ client[c].op = "delete" /\ Leaves(client[c].account) /\ code' = code
              /\ client[c].account \in Existing /\ Existing' = Existing
              /\ account'[client[c].account].state = "Deleted"
              /\ \A x \in Accounts \ {client[c].account} : account'[x] = account[x]
           \/ /\ client[c].op = "insert" /\ old' = old
              /\ client[c].account \notin Existing
              /\ Existing' = Existing \cup {client[c].account}
              /\ account'[client[c].account].state = "Pending"
              /\ \A x \in Accounts \ {client[c].account} : account'[x] = account[x]
           \/ /\ UNCHANGED <<account, old>>
              /\ \/ code'.verify \in {0, code.verify}
                 \/ Admits(client[c]) /\ code'.verify = client[c].id
<1>1. account \in [Accounts -> Row] /\ code \in [{"verify", "reset"} -> 0 .. ids]
  BY DEF AInv
<1>2. \A x \in Accounts :
        /\ [account[x] EXCEPT !.state = "Pending", !.verified = TRUE].state = "Pending"
        /\ [account[x] EXCEPT !.state = "Open"].state = "Open"
        /\ [account[x] EXCEPT !.state = "Deleted", !.active = FALSE].state = "Deleted"
        /\ AccountRow("Pending", FALSE).state = "Pending"
  BY <1>1 DEF Row, AccountRow
<1>3. Existing \subseteq Accounts
  BY DEF Existing
<1>4. CASE MarkVerified(c)
  <2>1. \A x \in Accounts : IF x \in Existing THEN account'[x].state = "Pending"
                           ELSE account'[x] = account[x]
    BY <1>2, <1>4 DEF MarkVerified
  <2>2. Existing' = Existing
    BY <2>1 DEF Existing
  <2> QED
    BY <1>3, <1>4, <2>1, <2>2 DEF MarkVerified, Does
<1>5. CASE OpenAccount(c)
  <2>1. \A x \in Accounts : IF x \in Existing THEN account'[x].state = "Open"
                           ELSE account'[x] = account[x]
    BY <1>2, <1>5 DEF OpenAccount
  <2>2. Existing' = Existing
    BY <2>1 DEF Existing
  <2> QED
    BY <1>3, <1>5, <2>1, <2>2 DEF OpenAccount, Does, Held
<1>6. CASE RemoveAccount(c)
  <2> DEFINE y == client[c].account
  <2>1. y \in Existing /\ y \in Accounts
    BY <1>3, <1>6 DEF RemoveAccount, Does, Held
  <2>2. account' = [account EXCEPT ![y] =
                      [account[y] EXCEPT !.state = "Deleted", !.active = FALSE]]
    BY <1>1, <1>6, <2>1 DEF RemoveAccount, Row
  <2>3. /\ account'[y].state = "Deleted"
        /\ \A x \in Accounts \ {y} : account'[x] = account[x]
    BY <1>1, <1>2, <2>1, <2>2
  <2>4. Existing' = Existing
    BY <2>1, <2>3 DEF Existing
  <2> QED
    BY <1>6, <2>1, <2>3, <2>4 DEF RemoveAccount, Does
<1>7. CASE InsertAccount(c)
  <2> DEFINE y == client[c].account
  <2>1. y \notin Existing /\ y \in Accounts
    BY <1>7, RequestOf DEF InsertAccount, Does, RowOps
  <2>2. /\ account'[y].state = "Pending"
        /\ \A x \in Accounts \ {y} : account'[x] = account[x]
    BY <1>1, <1>2, <1>7, <2>1 DEF InsertAccount
  <2>3. Existing' = Existing \cup {y}
    BY <2>1, <2>2 DEF Existing
  <2> QED
    BY <1>7, <2>1, <2>2, <2>3 DEF InsertAccount, Does
<1>8. CASE KeepCode(c)
  <2>1. client[c].op \in CodeOps
    BY <1>8 DEF KeepCode, Does, CodeOps
  <2>2. \/ code'.verify = code.verify
        \/ client[c].type = "verify" /\ code'.verify = client[c].id
    BY <1>1, <1>8, <2>1, RequestOf DEF KeepCode, Kept
  <2> QED
    BY <1>8, <2>1, <2>2 DEF KeepCode, Admits
<1>9. CASE SmsFails(c) \/ DropCode(c) \/ DropResetCode(c)
  <2>1. code'.verify \in {0, code.verify}
    BY <1>1, <1>9 DEF SmsFails, DropCode, DropResetCode, Kept
  <2> QED
    BY <1>9, <2>1 DEF SmsFails, DropCode, DropResetCode
<1>10. CASE UNCHANGED <<account, old, code>>
  BY <1>10
<1> QED
  BY <1>4, <1>5, <1>6, <1>7, <1>8, <1>9, <1>10
  DEF SmsSent, IssueToken, FindSession, EndSession, Blacklist, GrantPass, DropPass, Abandon

LEMMA DoKeepsAged ==
    ASSUME AInv, Held, Aged, NEW c \in Clients,
           \/ KeepCode(c) \/ SmsFails(c) \/ SmsSent(c) \/ MarkVerified(c) \/ DropCode(c)
           \/ OpenAccount(c) \/ IssueToken(c) \/ FindSession(c) \/ EndSession(c)
           \/ Blacklist(c) \/ GrantPass(c) \/ DropResetCode(c) \/ DropPass(c)
           \/ InsertAccount(c) \/ RemoveAccount(c) \/ Abandon(c)
    PROVE  Held' /\ Aged'
<1> DEFINE y == client[c].account
<1>1. /\ \A d \in Clients \ {c} : client'[d] = client[d]
      /\ client'[c].op \notin {"open", "delete"}
      /\ \A d \in Clients : Admits(client'[d])
             => Admits(client[d]) /\ client'[d].id = client[d].id
  BY DoAdmits
<1>2. Existing \subseteq Existing' => Held'
  BY <1>1 DEF Held
<1>3. /\ \A d \in Clients : Admits(client[d]) => client[d].id \in 1 .. ids
      /\ code.verify = 0 \/ code.verify \in 1 .. ids
  <2>1. code["verify"] \in 0 .. ids /\ ids \in Nat
    BY DEF AInv
  <2>2. \A d \in Clients : Admits(client[d]) => client[d].op \in Numbered
    BY DEF Admits, Numbered, NumberOps, SessionOps
  <2> QED
    BY <2>1, <2>2, RequestOf
<1>4. CASE /\ client[c].op = "mark verified"
           /\ Existing' = Existing
           /\ \A x \in Existing : account'[x].state = "Pending"
  <2>1. \A x \in Accounts : ~Settled(x)'
    BY <1>4 DEF Settled
  <2> QED
    BY <1>2, <1>4, <2>1 DEF Aged
<1>5. CASE /\ Leaves(y) /\ code' = code /\ y \in Existing /\ Existing' = Existing
  <2>1. ASSUME NEW x \in Accounts, Settled(x)' PROVE OnlyOld'
    <3>1. Existing = {x} /\ y = x
      BY <1>5, <2>1 DEF Settled
    <3>2. CASE account[x].state = "Pending"
      <4>1. old' = old \cup (1 .. ids)
        BY <1>5, <3>1, <3>2 DEF Leaves
      <4>2. \A d \in Clients : Admits(client'[d]) => client'[d].id \in old'
        BY <1>1, <1>3, <4>1
      <4> QED
        BY <1>3, <1>5, <4>1, <4>2 DEF OnlyOld
    <3>3. CASE account[x].state # "Pending"
      <4>1. old' = old /\ OnlyOld
        BY <1>5, <3>1, <3>3 DEF Leaves, Settled, Aged
      <4> QED
        BY <1>1, <1>5, <4>1 DEF OnlyOld
    <3> QED
      BY <3>2, <3>3
  <2> QED
    BY <1>2, <1>5, <2>1 DEF Aged
<1>6. CASE /\ y \notin Existing /\ Existing' = Existing \cup {y}
           /\ account'[y].state = "Pending"
  <2>1. \A x \in Accounts : ~Settled(x)'
    BY <1>6 DEF Settled
  <2> QED
    BY <1>2, <1>6, <2>1 DEF Aged
<1>7. CASE /\ UNCHANGED <<account, old>>
           /\ \/ code'.verify \in {0, code.verify}
              \/ Admits(client[c]) /\ code'.verify = client[c].id
  <2>1. Existing' = Existing
    BY <1>7 DEF Existing
  <2> QED
    BY <1>1, <1>2, <1>7, <2>1, AgedIfCalm
<1> QED
  BY <1>4, <1>5, <1>6, <1>7, DoRows

\* A registered account goes back to Pending, and a deleted one comes back, by
\* a late verification or registration alone: one drawn before the account was
\* opened or deleted, unless the number has another account.
THEOREM BackOnlyByOldRequestHolds == AccountsSpec => BackOnlyByOldRequest
<1> DEFINE Back(x) == \/ account[x].state = "Open" /\ account'[x].state = "Pending"
                      \/ account[x].state = "Deleted" /\ account'[x].state # "Deleted"
           ByOld == \E c \in Clients :
                       /\ client'[c] # client[c] /\ client[c].op \in {"mark verified", "open"}
                       /\ client[c].id \in old
           Late == \A x \in Accounts :
                      \/ account[x].state = "Open" /\ account'[x].state = "Pending"
                      \/ account[x].state = "Deleted" /\ account'[x].state # "Deleted"
                      => \/ Existing # {x}
                         \/ \E c \in Clients :
                              /\ client'[c] # client[c] /\ client[c].op \in {"mark verified", "open"}
                              /\ client[c].id \in old
<1>1. AccountsInit => Held /\ Aged
  <2> SUFFICES ASSUME AccountsInit PROVE Held /\ Aged
    OBVIOUS
  <2>1. code.verify = 0 /\ client = [c \in Clients |-> Idle]
    BY DEF AccountsInit
  <2>2. Idle.op = "idle"
    BY NewRequests
  <2> QED
    BY <2>1, <2>2 DEF Held, Aged, OnlyOld, Admits, CodeOps
<1>2. AInv /\ Held /\ Aged /\ [AccountsNext]_accountVars => (Held /\ Aged)'
  <2>1. ASSUME AInv, Held, Aged, AccountsNext PROVE Held' /\ Aged'
    BY <2>1, StepIsOne, AsksKeepAged, DoKeepsAged, ExpiresKeepsAged
  <2>2. ASSUME Held, Aged, UNCHANGED accountVars PROVE Held' /\ Aged'
    <3>1. UNCHANGED <<account, code, old, client>>
      BY <2>2 DEF accountVars
    <3> QED
      BY <2>2, <3>1 DEF Held, Existing, Aged, Settled, OnlyOld
  <2> QED
    BY <2>1, <2>2
<1>3. AInv /\ Held /\ Aged /\ [AccountsNext]_accountVars => [Late]_accountVars
  <2>1. ASSUME AInv, Held, Aged, AccountsNext, NEW x \in Accounts, Back(x), Existing = {x}
        PROVE  ByOld
    <3>1. OnlyOld
      BY <2>1 DEF Aged, Settled
    <3>2. account' # account
      BY <2>1
    <3>3. PICK c \in Clients :
             \/ KeepCode(c) \/ SmsFails(c) \/ SmsSent(c) \/ MarkVerified(c) \/ DropCode(c)
             \/ OpenAccount(c) \/ IssueToken(c) \/ FindSession(c) \/ EndSession(c)
             \/ Blacklist(c) \/ GrantPass(c) \/ DropResetCode(c) \/ DropPass(c)
             \/ InsertAccount(c) \/ RemoveAccount(c) \/ Abandon(c)
      <4>1. ~Expires
        BY <3>2
        DEF Expires, CodeExpires, LimitExpires, PassExpires, TokenExpires, SessionExpires,
            BlacklistExpires, RedisTurns
      <4>2. \A c \in Clients : \A r : ~Ask(c, r)
        BY <3>2 DEF Ask
      <4> QED
        BY <2>1, <4>1, <4>2, StepIsOne, AskIsOne
    <3>4. client[c].op \in {"mark verified", "open"}
      <4>1. client[c].op = "delete" => ~(client[c].account \in Existing
                                         /\ account'[client[c].account].state = "Deleted")
        BY <2>1
      <4>2. client[c].op = "insert" => ~(/\ client[c].account \notin Existing
              /\ \A z \in Accounts \ {client[c].account} : account'[z] = account[z])
        BY <2>1
      <4> QED
        BY <2>1, <3>2, <3>3, <4>1, <4>2, DoRows
    <3>5. client'[c] # client[c] /\ client[c].id \in old
      <4>1. Admits(client[c])
        BY <3>4 DEF Admits
      <4> QED
        BY <2>1, <3>1, <3>3, <4>1, DoAdmits DEF OnlyOld
    <3> QED
      BY <3>4, <3>5
  <2>2. ASSUME AInv, Held, Aged, AccountsNext PROVE Late
    BY <2>1, <2>2
  <2> QED
    BY <2>2
<1>4. BackOnlyByOldRequest <=> [][Late]_accountVars
  BY DEF BackOnlyByOldRequest
<1> HIDE DEF Late
<1> QED
  BY <1>1, <1>2, <1>3, <1>4, TypesInvariant, PTL DEF AccountsSpec

-----------------------------------------------------------------------------
(***************************************************************************)
(* Roles and permissions.                                                  *)
(***************************************************************************)
\* Numbers have a least one.
LEMMA LeastIn ==
    ASSUME NEW S, S \subseteq Nat, S # {}
    PROVE  Min(S) \in S
<1>1. IsWellFoundedOn(OpToRel(<, Nat), Nat)
  BY NatLessThanWellFounded
<1>2. PICK least \in S : \A y \in S : <<y, least>> \notin OpToRel(<, Nat)
  BY <1>1, WFMin, Zenon
<1>3. \A y \in S : ~ (y < least)
  BY <1>2, Zenon DEF OpToRel
<1>4. \A y \in S : least <= y
  BY <1>3
<1> QED
  BY <1>4 DEF Min

(***************************************************************************)
(* The steps of handlers.                                                  *)
(***************************************************************************)
Bases == {"current", "overtaken"}
NameSets == {names \in SUBSET (Roles \X (0 .. 1)) : names # {}}
ReadOps == {"store", "rows", "derive"}

AdminChange == [op : {"change"}, of : {"admin"}, id : Admins, to : SUBSET Roles, told : SUBSET Admins]
GrantChange == [op : {"change"}, of : {"grants"}, id : Roles, to : SUBSET Permissions,
                told : SUBSET Admins]
RoleChange == [op : {"change"}, of : {"title", "closed", "gone"}, id : Roles, to : 0 .. 1,
               told : SUBSET Admins]
RowsChange == [op : {"change"}, of : {"rows"}, id : Roles, to : 1 .. 2, told : SUBSET Admins]
StatusChange == [op : {"change"}, of : {"status", "look"}, id : {0}, to : {0}, told : SUBSET Admins]
ChangeStep == AdminChange \cup GrantChange \cup RoleChange \cup RowsChange \cup StatusChange
ForgetStep == [op : {"forget"}, keys : SUBSET Keys]
ClearStep == [op : {"clear"}, roles : SUBSET Roles]
LoadStep == [op : {"load"}, key : {Perms(a) : a \in Admins}]
AnyAnswer == UNION {Answers(key) : key \in Keys}
AnswerMaps == UNION {[keys -> AnyAnswer] : keys \in SUBSET Keys}
AbleMaps == UNION {[roles -> 0 .. 2] : roles \in SUBSET Roles}
StoreStep == [op : {"store"}, values : AnswerMaps, basis : Bases]
RowsStep == [op : {"rows"}, admin : Admins, names : NameSets, basis : Bases]
DeriveStep == [op : {"derive"}, admin : Admins, names : NameSets, allowed : AbleMaps, basis : Bases]
Step == ChangeStep \cup ForgetStep \cup ClearStep \cup LoadStep \cup StoreStep \cup RowsStep
        \cup DeriveStep

LEMMA KindOfStep ==
    ASSUME NEW step \in Step
    PROVE  /\ step.op = "change" => step \in ChangeStep
           /\ step.op = "forget" => step \in ForgetStep
           /\ step.op = "clear" => step \in ClearStep
           /\ step.op = "load" => step \in LoadStep
           /\ step.op = "store" => step \in StoreStep
           /\ step.op = "rows" => step \in RowsStep
           /\ step.op = "derive" => step \in DeriveStep
<1>1. CASE step \in ChangeStep
  BY <1>1 DEF ChangeStep, AdminChange, GrantChange, RoleChange, RowsChange, StatusChange
<1>2. CASE step \in ForgetStep
  BY <1>2 DEF ForgetStep
<1>3. CASE step \in ClearStep
  BY <1>3 DEF ClearStep
<1>4. CASE step \in LoadStep
  BY <1>4 DEF LoadStep
<1>5. CASE step \in StoreStep
  BY <1>5 DEF StoreStep
<1>6. CASE step \in RowsStep
  BY <1>6 DEF RowsStep
<1>7. CASE step \in DeriveStep
  BY <1>7 DEF DeriveStep
<1> QED
  BY <1>1, <1>2, <1>3, <1>4, <1>5, <1>6, <1>7 DEF Step

LEMMA KindOfChange ==
    ASSUME NEW step \in ChangeStep
    PROVE  /\ step.op = "change" /\ step.told \subseteq Admins
           /\ step.of = "admin" => step.id \in Admins /\ step.to \subseteq Roles
           /\ step.of = "grants" => step.id \in Roles /\ step.to \subseteq Permissions
           /\ step.of \in {"title", "closed", "gone"} => step.id \in Roles /\ step.to \in 0 .. 1
           /\ step.of = "rows" => step.id \in Roles /\ step.to \in 1 .. 2
           /\ step.of \in {"admin", "grants", "title", "closed", "gone", "rows", "status", "look"}
<1>1. CASE step \in AdminChange
  BY <1>1 DEF AdminChange
<1>2. CASE step \in GrantChange
  BY <1>2 DEF GrantChange
<1>3. CASE step \in RoleChange
  BY <1>3 DEF RoleChange
<1>4. CASE step \in RowsChange
  BY <1>4 DEF RowsChange
<1>5. CASE step \in StatusChange
  BY <1>5 DEF StatusChange
<1> QED
  BY <1>1, <1>2, <1>3, <1>4, <1>5 DEF ChangeStep

\* What was read before a commit may be wrong after it, and nothing else of a step changes.
LEMMA OutdatedStep ==
    ASSUME NEW step \in Step
    PROVE  /\ Outdated(step) \in Step
           /\ Outdated(step).op = step.op
           /\ step.op \notin ReadOps => Outdated(step) = step
           /\ step.op \in ReadOps => Outdated(step).basis = "overtaken"
           /\ step.op = "store" => Outdated(step).values = step.values
           /\ step.op = "rows" => Outdated(step).names = step.names
           /\ step.op = "derive" => /\ Outdated(step).names = step.names
                                    /\ Outdated(step).allowed = step.allowed
<1>1. CASE step.op \notin ReadOps
  BY <1>1 DEF Outdated, ReadOps
<1>2. CASE step.op = "store"
  <2>1. step \in StoreStep
    BY <1>2, KindOfStep
  <2>2. Outdated(step) \in StoreStep /\ Outdated(step).basis = "overtaken"
        /\ Outdated(step).values = step.values /\ Outdated(step).op = "store"
    BY <1>2, <2>1 DEF Outdated, StoreStep, Bases
  <2> QED
    BY <1>2, <2>2 DEF Step, ReadOps
<1>3. CASE step.op = "rows"
  <2>1. step \in RowsStep
    BY <1>3, KindOfStep
  <2>2. Outdated(step) \in RowsStep /\ Outdated(step).basis = "overtaken"
        /\ Outdated(step).names = step.names /\ Outdated(step).op = "rows"
    BY <1>3, <2>1 DEF Outdated, RowsStep, Bases
  <2> QED
    BY <1>3, <2>2 DEF Step, ReadOps
<1>4. CASE step.op = "derive"
  <2>1. step \in DeriveStep
    BY <1>4, KindOfStep
  <2>2. Outdated(step) \in DeriveStep /\ Outdated(step).basis = "overtaken"
        /\ Outdated(step).names = step.names /\ Outdated(step).allowed = step.allowed
        /\ Outdated(step).op = "derive"
    BY <1>4, <2>1 DEF Outdated, DeriveStep, Bases
  <2> QED
    BY <1>4, <2>2 DEF Step, ReadOps
<1> QED
  BY <1>1, <1>2, <1>3, <1>4 DEF ReadOps

(***************************************************************************)
(* What a handler has still to do, by the steps it consists of.            *)
(***************************************************************************)
\* The keys that a change of the database makes wrong and somebody sees to.
Promised(step, views) ==
    CASE step.of = "admin" -> {Names(step.id), Perms(step.id)}
      [] step.of \in {"grants", "title", "closed"} -> {Perms(a) : a \in step.told}
      [] step.of = "rows" -> Invalidated({step.id})
      [] step.of \in {"status", "look"} -> views
      [] OTHER -> {}

\* Nothing that was read is kept for after a change.
ReadsLast(q) ==
    \A m, n \in DOMAIN q :
        m < n /\ q[m].op \in {"change", "clear"} => q[n].op \notin ReadOps

\* What a change promises is forgotten after it.
ForgetsAfter(q, views) ==
    \A m \in DOMAIN q : q[m].op = "change" =>
        \A key \in Promised(q[m], views) :
            \E n \in DOMAIN q : m < n /\ q[n].op = "forget" /\ key \in q[n].keys

\* The rows of a role that is gone are deleted after it.
ClearsAfter(q) ==
    \A m \in DOMAIN q : q[m].op = "change" /\ q[m].of = "gone" =>
        \E n \in DOMAIN q : m < n /\ q[n].op = "clear" /\ q[m].id \in q[n].roles

Shape(q, views) == ReadsLast(q) /\ ForgetsAfter(q, views) /\ ClearsAfter(q)

\* A step that carries on with what is left, and does not change the database.
LEMMA WhatIsNext ==
    ASSUME NEW q \in Seq(Step), q # <<>>, NEW more \in Seq(Step)
    PROVE  /\ more \o Tail(q) \in Seq(Step)
           /\ Len(more \o Tail(q)) = Len(more) + Len(q) - 1
           /\ \A n \in DOMAIN (more \o Tail(q)) :
                \/ n \in DOMAIN more /\ (more \o Tail(q))[n] = more[n]
                \/ /\ n > Len(more) /\ n - Len(more) + 1 \in DOMAIN q
                   /\ (more \o Tail(q))[n] = q[n - Len(more) + 1]
           /\ \A n \in DOMAIN q : n > 1 =>
                /\ n + Len(more) - 1 \in DOMAIN (more \o Tail(q))
                /\ (more \o Tail(q))[n + Len(more) - 1] = q[n]
           /\ Head(q) = q[1] /\ 1 \in DOMAIN q
<1> DEFINE t == Tail(q)
           w == more \o t
<1>1. /\ t \in Seq(Step) /\ Len(t) = Len(q) - 1 /\ Len(q) \in Nat /\ Len(q) >= 1
      /\ \A n \in 1 .. Len(t) : t[n] = q[n + 1]
      /\ DOMAIN q = 1 .. Len(q) /\ Head(q) = q[1]
  OBVIOUS
<1> HIDE DEF t
<1>2. /\ w \in Seq(Step) /\ Len(w) = Len(more) + Len(t) /\ DOMAIN w = 1 .. Len(w)
      /\ DOMAIN more = 1 .. Len(more) /\ Len(more) \in Nat
      /\ \A n \in 1 .. Len(w) : w[n] = IF n <= Len(more) THEN more[n] ELSE t[n - Len(more)]
  BY <1>1
<1> HIDE DEF w
<1>3. ASSUME NEW n \in DOMAIN w
      PROVE  \/ n \in DOMAIN more /\ w[n] = more[n]
             \/ n > Len(more) /\ n - Len(more) + 1 \in DOMAIN q /\ w[n] = q[n - Len(more) + 1]
  <2>1. CASE n <= Len(more)
    BY <1>2, <2>1
  <2>2. CASE n > Len(more)
    <3>1. n - Len(more) \in 1 .. Len(t) /\ n - Len(more) + 1 \in 1 .. Len(q)
      BY <1>1, <1>2, <2>2
    <3>2. t[n - Len(more)] = q[n - Len(more) + 1]
      BY <1>1, <3>1
    <3>3. w[n] = t[n - Len(more)]
      BY <1>2, <2>2
    <3> QED
      BY <1>1, <2>2, <3>1, <3>2, <3>3
  <2> QED
    BY <1>2, <2>1, <2>2
<1>4. ASSUME NEW n \in DOMAIN q, n > 1
      PROVE  n + Len(more) - 1 \in DOMAIN w /\ w[n + Len(more) - 1] = q[n]
  <2>1. n - 1 \in 1 .. Len(t) /\ n + Len(more) - 1 \in 1 .. Len(w) /\ n + Len(more) - 1 > Len(more)
        /\ n + Len(more) - 1 - Len(more) = n - 1 /\ n - 1 + 1 = n
    BY <1>1, <1>2, <1>4
  <2>2. w[n + Len(more) - 1] = t[n - 1]
    BY <1>2, <2>1
  <2> QED
    BY <1>1, <1>2, <2>1, <2>2
<1>5. Len(w) = Len(more) + Len(q) - 1
  BY <1>1, <1>2
<1>6. 1 \in DOMAIN q
  BY <1>1
<1>7. /\ w \in Seq(Step) /\ Head(q) = q[1]
  BY <1>1, <1>2
<1> QED
  BY <1>3, <1>4, <1>5, <1>6, <1>7, Zenon DEF w, t

LEMMA ShapeGoesOn ==
    ASSUME NEW views, NEW q \in Seq(Step), q # <<>>, Shape(q, views), NEW more \in Seq(Step),
           \A n \in DOMAIN more : more[n].op \notin {"change", "clear"}
    PROVE  Shape(more \o Tail(q), views)
<1> DEFINE w == more \o Tail(q)
           d == Len(more) - 1
<1>1. /\ w \in Seq(Step) /\ DOMAIN w \subseteq Nat /\ DOMAIN q \subseteq Nat
      /\ Len(more) \in Nat /\ d \in Int
      /\ \A n \in DOMAIN w :
            \/ n \in DOMAIN more /\ w[n] = more[n]
            \/ n > Len(more) /\ n - d \in DOMAIN q /\ w[n] = q[n - d] /\ n - d > 1
      /\ \A n \in DOMAIN q : n > 1 => n + d \in DOMAIN w /\ w[n + d] = q[n]
  <2>1. w \in Seq(Step) /\ Len(more) \in Nat
    BY WhatIsNext
  <2>2. DOMAIN w \subseteq Nat /\ DOMAIN q \subseteq Nat /\ d \in Int
    BY <2>1
  <2>3. ASSUME NEW n \in DOMAIN w
        PROVE  \/ n \in DOMAIN more /\ w[n] = more[n]
               \/ n > Len(more) /\ n - d \in DOMAIN q /\ w[n] = q[n - d] /\ n - d > 1
    <3>1. n - d = n - Len(more) + 1 /\ (n > Len(more) => n - d > 1)
      BY <2>1, <2>2
    <3>2. \/ n \in DOMAIN more /\ w[n] = more[n]
          \/ /\ n > Len(more) /\ n - Len(more) + 1 \in DOMAIN q
             /\ w[n] = q[n - Len(more) + 1]
      BY WhatIsNext, Zenon
    <3> QED
      BY <3>1, <3>2
  <2>4. ASSUME NEW n \in DOMAIN q, n > 1
        PROVE  n + d \in DOMAIN w /\ w[n + d] = q[n]
    <3>1. n + d = n + Len(more) - 1
      BY <2>1, <2>2
    <3> QED
      BY <2>4, <3>1, WhatIsNext
  <2> QED
    BY <2>1, <2>2, <2>3, <2>4
<1> HIDE DEF w, d
\* A step that changes the database is one that was there before.
<1>2. ASSUME NEW m \in DOMAIN w, w[m].op \in {"change", "clear"}
      PROVE  m - d \in DOMAIN q /\ w[m] = q[m - d] /\ m > Len(more) /\ m - d > 1
  BY <1>1, <1>2
<1>3. ReadsLast(w)
  <2> SUFFICES ASSUME NEW m \in DOMAIN w, NEW n \in DOMAIN w, m < n, w[m].op \in {"change", "clear"}
               PROVE  w[n].op \notin ReadOps
    BY Zenon DEF ReadsLast
  <2>1. m - d \in DOMAIN q /\ w[m] = q[m - d] /\ m > Len(more)
    BY <1>2
  <2>2. n > Len(more) /\ n \in Nat /\ m \in Nat
    BY <1>1, <2>1
  <2>3. n \notin DOMAIN more
    BY <2>2
  <2>4. n - d \in DOMAIN q /\ w[n] = q[n - d] /\ m - d < n - d
    BY <1>1, <2>2, <2>3
  <2> QED
    BY <2>1, <2>4 DEF Shape, ReadsLast
<1>4. ForgetsAfter(w, views)
  <2> SUFFICES ASSUME NEW m \in DOMAIN w, w[m].op = "change", NEW key \in Promised(w[m], views)
               PROVE  \E n \in DOMAIN w : m < n /\ w[n].op = "forget" /\ key \in w[n].keys
    BY Zenon DEF ForgetsAfter
  <2>1. m - d \in DOMAIN q /\ w[m] = q[m - d] /\ m > Len(more) /\ m - d > 1
    BY <1>2
  <2>2. PICK k \in DOMAIN q : m - d < k /\ q[k].op = "forget" /\ key \in q[k].keys
    BY <2>1 DEF Shape, ForgetsAfter
  <2>3. k > 1 /\ m < k + d
    BY <1>1, <2>1, <2>2
  <2> QED
    BY <1>1, <2>2, <2>3
<1>5. ClearsAfter(w)
  <2> SUFFICES ASSUME NEW m \in DOMAIN w, w[m].op = "change", w[m].of = "gone"
               PROVE  \E n \in DOMAIN w : m < n /\ w[n].op = "clear" /\ w[m].id \in w[n].roles
    BY Zenon DEF ClearsAfter
  <2>1. m - d \in DOMAIN q /\ w[m] = q[m - d] /\ m > Len(more) /\ m - d > 1
    BY <1>2
  <2>2. PICK k \in DOMAIN q : m - d < k /\ q[k].op = "clear" /\ w[m].id \in q[k].roles
    BY <2>1 DEF Shape, ClearsAfter
  <2>3. k > 1 /\ m < k + d
    BY <1>1, <2>1, <2>2
  <2> QED
    BY <1>1, <2>2, <2>3
<1> QED
  BY <1>3, <1>4, <1>5 DEF Shape, w

\* The steps of another handler after a commit.
AllOutdated(q) == [n \in DOMAIN q |-> Outdated(q[n])]

LEMMA ShapeOutdated ==
    ASSUME NEW views, NEW q \in Seq(Step), Shape(q, views)
    PROVE  AllOutdated(q) \in Seq(Step) /\ Shape(AllOutdated(q), views)
<1> DEFINE w == AllOutdated(q)
<1>1. DOMAIN q = 1 .. Len(q) /\ Len(q) \in Nat /\ \A n \in DOMAIN q : q[n] \in Step
  OBVIOUS
<1>2. /\ DOMAIN w = DOMAIN q
      /\ \A n \in DOMAIN q :
            /\ w[n] \in Step /\ w[n].op = q[n].op /\ (q[n].op \notin ReadOps => w[n] = q[n])
  BY <1>1, OutdatedStep DEF AllOutdated
<1>3. w \in Seq(Step)
  BY <1>1, <1>2 DEF AllOutdated
<1> HIDE DEF w
<1>4. ReadsLast(w)
  BY <1>2, Zenon DEF Shape, ReadsLast
<1>5. \A n \in DOMAIN q : q[n].op \in {"change", "forget", "clear"} => w[n] = q[n]
  BY <1>2 DEF ReadOps
<1>6. ForgetsAfter(w, views)
  BY <1>2, <1>5 DEF Shape, ForgetsAfter
<1>7. ClearsAfter(w)
  BY <1>2, <1>5 DEF Shape, ClearsAfter
<1> QED
  BY <1>3, <1>4, <1>6, <1>7 DEF Shape, w

(***************************************************************************)
(* What the database says, and what of it a commit changes.                *)
(***************************************************************************)
OpenHeld(a) == {r \in holds[a] : role[r].open}
Seen(a) == {r \in OpenHeld(a) : RowOf(r) > 0}

LEMMA KindOfKey ==
    ASSUME NEW key \in Keys
    PROVE  \/ \E a \in Admins : key = Perms(a)
           \/ \E a \in Admins : key = Names(a)
           \/ \E r \in Roles : key = Rows(r)
           \/ \E a \in Admins, r \in Roles : key = ViewKey(a, r)
BY DEF Keys

LEMMA KeysAreKeys ==
    /\ \A a \in Admins : Perms(a) \in Keys /\ Names(a) \in Keys
    /\ \A r \in Roles : Rows(r) \in Keys
    /\ \A a \in Admins, r \in Roles :
        ViewKey(a, r) \in Keys /\ ViewKey(a, r) \in Views(a) /\ ViewKey(a, r) \in AllViews
    /\ AllViews \subseteq Keys
BY DEF Keys, Views, AllViews

LEMMA AnswersOf ==
    /\ \A a \in Admins : Answers(Perms(a)) = SUBSET Permissions
    /\ \A a \in Admins : Answers(Names(a)) = SUBSET (Roles \X (0 .. 1))
    /\ \A r \in Roles : Answers(Rows(r)) = 0 .. 2
    /\ \A a \in Admins, r \in Roles :
        Answers(ViewKey(a, r)) = {<<>>} \cup (1 .. 2) \X (0 .. 1)
BY DEF Answers, Perms, Names, Rows, ViewKey

LEMMA TruthOf ==
    /\ \A a : Truth(Perms(a)) = Granted(a)
    /\ \A a : Truth(Names(a)) = RolesOf(a)
    /\ \A r : Truth(Rows(r)) = RowOf(r)
    /\ \A a, r : Truth(ViewKey(a, r)) = Viewable(RolesOf(a), [q \in Roles |-> RowOf(q)])
BY DEF Truth, Perms, Names, Rows, ViewKey

LEMMA TruthOfNext ==
    /\ \A a : Truth(Perms(a))' = Granted(a)'
    /\ \A a : Truth(Names(a))' = RolesOf(a)'
    /\ \A r : Truth(Rows(r))' = RowOf(r)'
    /\ \A a, r : Truth(ViewKey(a, r))' = Viewable(RolesOf(a), [q \in Roles |-> RowOf(q)])'
BY DEF Truth, Perms, Names, Rows, ViewKey

LEMMA IdsOfNamed ==
    ASSUME NEW row, NEW held
    PROVE  Ids({<<r, row[r].title>> : r \in held}) = held
<1> DEFINE names == {<<r, row[r].title>> : r \in held}
<1>1. \A n \in names : n[1] \in held
  OBVIOUS
<1>2. ASSUME NEW r \in held
      PROVE  \E n \in names : n[1] = r
  <2>1. <<r, row[r].title>> \in names
    OBVIOUS
  <2>2. <<r, row[r].title>>[1] = r
    OBVIOUS
  <2> HIDE DEF names
  <2> QED
    BY <2>1, <2>2
<1>3. Ids(names) = held
  <2> HIDE DEF names
  <2> QED
    BY <1>1, <1>2 DEF Ids
<1> QED
  BY <1>3

LEMMA IdsOfNames ==
    ASSUME NEW names \in SUBSET (Roles \X (0 .. 1))
    PROVE  Ids(names) \subseteq Roles /\ (names # {} => Ids(names) # {})
BY DEF Ids

LEMMA IdsOfNameSets ==
    ASSUME NEW names \in NameSets
    PROVE  Ids(names) \subseteq Roles /\ Ids(names) # {}
<1>1. names \in SUBSET (Roles \X (0 .. 1)) /\ names # {}
  BY DEF NameSets
<1> QED
  BY <1>1, IdsOfNames

\* The first role with a row there is one that has a row.
LEMMA ViewFits ==
    ASSUME NEW names \in SUBSET (Roles \X (0 .. 1)), NEW allowed,
           \A r \in Ids(names) : allowed[r] \in 0 .. 2, look \in 0 .. 1
    PROVE  Viewable(names, allowed) \in {<<>>} \cup (1 .. 2) \X (0 .. 1)
<1> DEFINE able == {r \in Ids(names) : allowed[r] > 0}
<1>1. Ids(names) \subseteq Roles
  BY IdsOfNames
<1>2. CASE able = {} \/ ~statusOpen
  BY <1>2 DEF Viewable
<1>3. CASE able # {} /\ statusOpen
  <2>1. Min(able) \in able
    BY <1>1, <1>3, LeastIn, RolesAssumption
  <2>2. allowed[Min(able)] \in 1 .. 2
    BY <2>1
  <2>3. Viewable(names, allowed) = <<allowed[Min(able)], look>>
    BY <1>3 DEF Viewable
  <2> QED
    BY <2>2, <2>3
<1> QED
  BY <1>2, <1>3

DatabaseOK ==
    /\ role \in [Roles -> [open : BOOLEAN, grants : SUBSET Permissions, title : 0 .. 1]]
    /\ holds \in [Admins -> SUBSET Roles] /\ rows \in [Roles -> 0 .. 2] /\ look \in 0 .. 1

LEMMA RolesOfFit ==
    ASSUME DatabaseOK, NEW a \in Admins
    PROVE  /\ RolesOf(a) \in SUBSET (Roles \X (0 .. 1)) /\ Ids(RolesOf(a)) = OpenHeld(a)
           /\ OpenHeld(a) \subseteq Roles /\ \A r \in Roles : RowOf(r) \in 0 .. 2
<1>1. OpenHeld(a) \subseteq Roles /\ \A r \in Roles : role[r].title \in 0 .. 1
  BY DEF DatabaseOK, OpenHeld
<1>2. RolesOf(a) = {<<r, role[r].title>> : r \in OpenHeld(a)}
  BY DEF RolesOf, OpenHeld
<1>3. Ids(RolesOf(a)) = OpenHeld(a)
  BY <1>2, IdsOfNamed
<1>4. \A r \in Roles : RowOf(r) \in 0 .. 2
  BY DEF DatabaseOK, RowOf
<1> QED
  BY <1>1, <1>2, <1>3, <1>4

LEMMA DatabaseFits ==
    ASSUME DatabaseOK, NEW key \in Keys
    PROVE  Truth(key) \in Answers(key)
<1>1. ASSUME NEW a \in Admins, key = Perms(a)
      PROVE  Truth(key) \in Answers(key)
  <2>1. Granted(a) \subseteq Permissions
    BY DEF DatabaseOK, Granted
  <2> QED
    BY <1>1, <2>1, TruthOf, AnswersOf
<1>2. ASSUME NEW a \in Admins, key = Names(a)
      PROVE  Truth(key) \in Answers(key)
  BY <1>2, RolesOfFit, TruthOf, AnswersOf
<1>3. ASSUME NEW r \in Roles, key = Rows(r)
      PROVE  Truth(key) \in Answers(key)
  <2>1. RowOf(r) \in 0 .. 2
    BY DEF DatabaseOK, RowOf
  <2> QED
    BY <1>3, <2>1, TruthOf, AnswersOf
<1>4. ASSUME NEW a \in Admins, NEW r \in Roles, key = ViewKey(a, r)
      PROVE  Truth(key) \in Answers(key)
  <2>1. \A q \in Ids(RolesOf(a)) : [p \in Roles |-> RowOf(p)][q] \in 0 .. 2
    BY RolesOfFit
  <2>2. Viewable(RolesOf(a), [q \in Roles |-> RowOf(q)]) \in {<<>>} \cup (1 .. 2) \X (0 .. 1)
    BY <2>1, RolesOfFit, ViewFits DEF DatabaseOK
  <2> QED
    BY <1>4, <2>2, TruthOf, AnswersOf
<1> QED
  BY <1>1, <1>2, <1>3, <1>4, KindOfKey

LEMMA TruthFits ==
    ASSUME AccessTypeOK, NEW key \in Keys
    PROVE  Truth(key) \in Answers(key)
<1>1. DatabaseOK
  BY DEF AccessTypeOK, DatabaseOK
<1> QED
  BY <1>1, DatabaseFits

\* The list of an admin depends on the roles he holds that have a row, and on theirs.
LEMMA ViewIs ==
    ASSUME NEW a \in Admins, OpenHeld(a) \subseteq Roles
    PROVE  Viewable(RolesOf(a), [q \in Roles |-> RowOf(q)])
           = IF Seen(a) = {} \/ ~statusOpen THEN <<>> ELSE <<RowOf(Min(Seen(a))), look>>
<1>1. Ids(RolesOf(a)) = OpenHeld(a)
  BY IdsOfNamed DEF RolesOf, OpenHeld
<1>2. {r \in Ids(RolesOf(a)) : [q \in Roles |-> RowOf(q)][r] > 0} = Seen(a)
  BY <1>1 DEF Seen
<1>3. Seen(a) # {} => Min(Seen(a)) \in Roles
  BY LeastIn, RolesAssumption DEF Seen
<1> QED
  BY <1>2, <1>3 DEF Viewable

LEMMA ViewIsNext ==
    ASSUME NEW a \in Admins, OpenHeld(a)' \subseteq Roles
    PROVE  Viewable(RolesOf(a), [q \in Roles |-> RowOf(q)])'
           = IF Seen(a)' = {} \/ ~statusOpen' THEN <<>> ELSE <<RowOf(Min(Seen(a)))', look'>>
<1>1. Ids(RolesOf(a))' = OpenHeld(a)'
  BY IdsOfNamed DEF RolesOf, OpenHeld
<1>2. {r \in Ids(RolesOf(a)) : [q \in Roles |-> RowOf(q)][r] > 0}' = Seen(a)'
  BY <1>1 DEF Seen
<1>3. Seen(a)' # {} => Min(Seen(a))' \in Roles
  BY LeastIn, RolesAssumption DEF Seen
<1> QED
  BY <1>2, <1>3 DEF Viewable

Commits(step) ==
    /\ here' = here
    /\ role' = [r \in Roles |-> IF r = step.id THEN Altered(step, role[r]) ELSE role[r]]
    /\ holds' = IF step.of = "admin" THEN [holds EXCEPT ![step.id] = step.to] ELSE holds
    /\ rows' = IF step.of = "rows" THEN [rows EXCEPT ![step.id] = step.to] ELSE rows
    /\ statusOpen' = (statusOpen /\ step.of # "status")
    /\ look' = IF step.of = "look" THEN 1 - look ELSE look

RoleRow == [open : BOOLEAN, grants : SUBSET Permissions, title : 0 .. 1]

LEMMA AlteredRow ==
    ASSUME NEW step \in ChangeStep, NEW row \in RoleRow
    PROVE  /\ Altered(step, row) \in RoleRow
           /\ step.of # "grants" => Altered(step, row).grants = row.grants
           /\ step.of # "title" => Altered(step, row).title = row.title
           /\ step.of \notin {"closed", "gone"} => Altered(step, row).open = row.open
           /\ step.of \in {"closed", "gone"} => ~Altered(step, row).open
<1>1. CASE step.of = "grants"
  <2>1. step.to \subseteq Permissions
    BY <1>1, KindOfChange
  <2>2. Altered(step, row) = [row EXCEPT !.grants = step.to]
    BY <1>1 DEF Altered
  <2> QED
    BY <1>1, <2>1, <2>2 DEF RoleRow
<1>2. CASE step.of = "title"
  <2>1. step.to \in 0 .. 1
    BY <1>2, KindOfChange
  <2>2. Altered(step, row) = [row EXCEPT !.title = step.to]
    BY <1>2 DEF Altered
  <2> QED
    BY <1>2, <2>1, <2>2 DEF RoleRow
<1>3. CASE step.of \in {"closed", "gone"}
  <2>1. Altered(step, row) = [row EXCEPT !.open = FALSE]
    BY <1>3 DEF Altered
  <2> QED
    BY <1>3, <2>1 DEF RoleRow
<1>4. CASE step.of \notin {"grants", "title", "closed", "gone"}
  <2>1. Altered(step, row) = row
    BY <1>4 DEF Altered
  <2> QED
    BY <1>4, <2>1
<1> QED
  BY <1>1, <1>2, <1>3, <1>4

LEMMA WhatACommitKeeps ==
    ASSUME AccessTypeOK, NEW step \in ChangeStep, Commits(step)
    PROVE  /\ role' \in [Roles -> RoleRow] /\ holds' \in [Admins -> SUBSET Roles]
           /\ rows' \in [Roles -> 0 .. 2] /\ statusOpen' \in BOOLEAN /\ look' \in 0 .. 1
           /\ \A r \in Roles :
                /\ r # step.id \/ step.of # "grants" => role'[r].grants = role[r].grants
                /\ r # step.id \/ step.of # "title" => role'[r].title = role[r].title
                /\ r # step.id \/ step.of \notin {"closed", "gone"} => role'[r].open = role[r].open
                /\ r = step.id /\ step.of \in {"closed", "gone"} => ~role'[r].open
                /\ r # step.id \/ step.of # "rows" => rows'[r] = rows[r]
                /\ r = step.id /\ step.of = "rows" => rows'[r] \in 1 .. 2
           /\ \A a \in Admins : a # step.id \/ step.of # "admin" => holds'[a] = holds[a]
           /\ step.of # "status" => statusOpen' = statusOpen
           /\ step.of # "look" => look' = look
<1>1. role \in [Roles -> RoleRow]
  BY DEF AccessTypeOK, RoleRow
<1>2. role' \in [Roles -> RoleRow]
  BY <1>1, AlteredRow DEF Commits
<1>3. ASSUME NEW r \in Roles
      PROVE  /\ r # step.id \/ step.of # "grants" => role'[r].grants = role[r].grants
             /\ r # step.id \/ step.of # "title" => role'[r].title = role[r].title
             /\ r # step.id \/ step.of \notin {"closed", "gone"} => role'[r].open = role[r].open
             /\ r = step.id /\ step.of \in {"closed", "gone"} => ~role'[r].open
  <2>1. CASE r = step.id
    <3>1. role'[r] = Altered(step, role[r])
      BY <2>1 DEF Commits
    <3> QED
      BY <1>1, <2>1, <3>1, AlteredRow
  <2>2. CASE r # step.id
    <3>1. role'[r] = role[r]
      BY <2>2 DEF Commits
    <3> QED
      BY <2>2, <3>1
  <2> QED
    BY <2>1, <2>2
<1>4. /\ rows' \in [Roles -> 0 .. 2]
      /\ \A r \in Roles :
            /\ r # step.id \/ step.of # "rows" => rows'[r] = rows[r]
            /\ r = step.id /\ step.of = "rows" => rows'[r] \in 1 .. 2
  <2>1. rows \in [Roles -> 0 .. 2]
    BY DEF AccessTypeOK
  <2>2. CASE step.of = "rows"
    <3>1. step.id \in Roles /\ step.to \in 1 .. 2 /\ rows' = [rows EXCEPT ![step.id] = step.to]
      BY <2>2, KindOfChange DEF Commits
    <3> QED
      BY <2>1, <2>2, <3>1
  <2>3. CASE step.of # "rows"
    BY <2>1, <2>3 DEF Commits
  <2> QED
    BY <2>2, <2>3
<1>5. /\ holds' \in [Admins -> SUBSET Roles]
      /\ \A a \in Admins : a # step.id \/ step.of # "admin" => holds'[a] = holds[a]
  <2>1. holds \in [Admins -> SUBSET Roles]
    BY DEF AccessTypeOK
  <2>2. CASE step.of = "admin"
    <3>1. step.to \subseteq Roles /\ holds' = [holds EXCEPT ![step.id] = step.to]
      BY <2>2, KindOfChange DEF Commits
    <3> QED
      BY <2>1, <2>2, <3>1
  <2>3. CASE step.of # "admin"
    BY <2>1, <2>3 DEF Commits
  <2> QED
    BY <2>2, <2>3
<1>6. /\ statusOpen' \in BOOLEAN /\ look' \in 0 .. 1
      /\ step.of # "look" => look' = look
  BY DEF Commits, AccessTypeOK
<1>7. step.of # "status" => statusOpen' = statusOpen
  BY Zenon DEF Commits, AccessTypeOK
<1> QED
  BY <1>2, <1>3, <1>4, <1>5, <1>6, <1>7

\* The keys whose answers a commit may change: nobody sees to them, or it promised
\* to, or they are those of a role that is gone and had rows.
Covered(step, key) ==
    \/ key \in Neglected(step)
    \/ key \in Promised(step, MotherViews)
    \/ step.of = "gone" /\ rows[step.id] > 0 /\ key \in Invalidated({step.id})

LEMMA PermissionsCovered ==
    ASSUME AccessTypeOK, NEW step \in ChangeStep, Commits(step), NEW a \in Admins
    PROVE  Covered(step, Perms(a)) \/ Granted(a)' = Granted(a)
<1>1. CASE step.of = "admin" /\ a = step.id
  BY <1>1 DEF Covered, Promised
<1>2. CASE step.of \in {"grants", "title", "closed"} /\ step.id \in holds[a]
  <2>1. a \in Holders(step.id)
    BY <1>2 DEF Holders
  <2>2. a \in step.told => Perms(a) \in Promised(step, MotherViews)
    BY <1>2 DEF Promised
  <2>3. a \notin step.told => Perms(a) \in Neglected(step)
    BY <1>2, <2>1 DEF Neglected
  <2> QED
    BY <2>2, <2>3 DEF Covered
<1>3. CASE step.of = "gone" /\ step.id \in holds[a]
  <2>1. a \in Holders(step.id)
    BY <1>3 DEF Holders
  <2>2. Perms(a) \in Neglected(step)
    BY <1>3, <2>1 DEF Neglected
  <2> QED
    BY <2>2 DEF Covered
<1>4. CASE /\ step.of \notin {"grants", "title", "closed", "gone"} \/ step.id \notin holds[a]
           /\ step.of # "admin" \/ a # step.id
  <2>1. holds'[a] = holds[a] /\ holds[a] \subseteq Roles
    BY <1>4, WhatACommitKeeps DEF AccessTypeOK
  <2>2. \A r \in holds[a] : role'[r].grants = role[r].grants /\ role'[r].open = role[r].open
    BY <1>4, <2>1, WhatACommitKeeps
  <2>3. {r \in holds'[a] : role'[r].open} = {r \in holds[a] : role[r].open}
    BY <2>1, <2>2
  <2>4. {role'[r].grants : r \in {q \in holds'[a] : role'[q].open}}
        = {role[r].grants : r \in {q \in holds[a] : role[q].open}}
    BY <2>2, <2>3
  <2> QED
    BY <2>4 DEF Granted
<1> QED
  BY <1>1, <1>2, <1>3, <1>4, KindOfChange

LEMMA NamesCovered ==
    ASSUME AccessTypeOK, NEW step \in ChangeStep, Commits(step), NEW a \in Admins
    PROVE  Covered(step, Names(a)) \/ RolesOf(a)' = RolesOf(a)
<1>1. CASE step.of = "admin" /\ a = step.id
  BY <1>1 DEF Covered, Promised
<1>2. CASE step.of \in {"title", "closed", "gone"} /\ step.id \in holds[a]
  <2>1. a \in Holders(step.id)
    BY <1>2 DEF Holders
  <2>2. Names(a) \in Neglected(step)
    BY <1>2, <2>1 DEF Neglected
  <2> QED
    BY <2>2 DEF Covered
<1>3. CASE /\ step.of \notin {"title", "closed", "gone"} \/ step.id \notin holds[a]
           /\ step.of # "admin" \/ a # step.id
  <2>1. holds'[a] = holds[a] /\ holds[a] \subseteq Roles
    BY <1>3, WhatACommitKeeps DEF AccessTypeOK
  <2>2. \A r \in holds[a] : role'[r].title = role[r].title /\ role'[r].open = role[r].open
    BY <1>3, <2>1, WhatACommitKeeps
  <2>3. {r \in holds'[a] : role'[r].open} = {r \in holds[a] : role[r].open}
    BY <2>1, <2>2
  <2>4. {<<r, role'[r].title>> : r \in {q \in holds'[a] : role'[q].open}}
        = {<<r, role[r].title>> : r \in {q \in holds[a] : role[q].open}}
    BY <2>2, <2>3
  <2> QED
    BY <2>4 DEF RolesOf
<1> QED
  BY <1>1, <1>2, <1>3

LEMMA RowsCovered ==
    ASSUME AccessTypeOK, NEW step \in ChangeStep, Commits(step), NEW r \in Roles
    PROVE  Covered(step, Rows(r)) \/ RowOf(r)' = RowOf(r)
<1>0. rows[r] \in 0 .. 2
  BY DEF AccessTypeOK
<1>1. CASE step.of \in {"closed", "rows"} /\ r = step.id
  BY <1>1 DEF Covered, Promised, Neglected, Invalidated
<1>2. CASE step.of = "gone" /\ r = step.id
  <2>1. CASE rows[r] = 0
    <3>1. rows'[r] = 0
      BY <1>2, <2>1, WhatACommitKeeps
    <3> QED
      BY <2>1, <3>1 DEF RowOf
  <2>2. CASE rows[r] > 0
    BY <1>2, <2>2 DEF Covered, Invalidated
  <2> QED
    BY <1>0, <2>1, <2>2
<1>3. CASE step.of = "status"
  <2>1. CASE rows[r] = 0
    <3>1. rows'[r] = 0
      BY <1>3, <2>1, WhatACommitKeeps
    <3> QED
      BY <2>1, <3>1 DEF RowOf
  <2>2. CASE rows[r] > 0
    BY <1>3, <2>2 DEF Covered, Neglected, WithRow
  <2> QED
    BY <1>0, <2>1, <2>2
<1>4. CASE step.of # "status" /\ (step.of \notin {"closed", "rows", "gone"} \/ r # step.id)
  <2>1. role'[r].open = role[r].open /\ rows'[r] = rows[r] /\ statusOpen' = statusOpen
    BY <1>4, WhatACommitKeeps
  <2> QED
    BY <2>1 DEF RowOf
<1> QED
  BY <1>1, <1>2, <1>3, <1>4

LEMMA ViewsCovered ==
    ASSUME AccessTypeOK, NEW step \in ChangeStep, Commits(step), NEW a \in Admins, NEW r \in Roles
    PROVE  \/ Covered(step, ViewKey(a, r))
           \/ Viewable(RolesOf(a), [q \in Roles |-> RowOf(q)])'
              = Viewable(RolesOf(a), [q \in Roles |-> RowOf(q)])
<1>0. ViewKey(a, r) \in Views(a) /\ ViewKey(a, r) \in AllViews
  BY KeysAreKeys
<1>1. CASE step.of = "admin" /\ a = step.id
  BY <1>0, <1>1 DEF Covered, Neglected
<1>2. CASE step.of \in {"closed", "rows"}
  BY <1>0, <1>2 DEF Covered, Promised, Neglected, Invalidated
<1>3. CASE step.of \in {"status", "look"}
  BY <1>0, <1>3 DEF Covered, Promised, Neglected
<1>4. CASE step.of = "gone" /\ rows[step.id] > 0
  BY <1>0, <1>4 DEF Covered, Invalidated
<1>5. CASE /\ step.of \notin {"closed", "rows", "status", "look"}
           /\ step.of # "admin" \/ a # step.id
           /\ step.of # "gone" \/ ~(rows[step.id] > 0)
  <2>1. /\ holds'[a] = holds[a] /\ holds[a] \subseteq Roles
        /\ statusOpen' = statusOpen /\ look' = look
        /\ \A q \in Roles : rows'[q] = rows[q] /\ rows[q] \in 0 .. 2
    BY <1>5, WhatACommitKeeps DEF AccessTypeOK
  <2>2. \A q \in Roles : rows[q] > 0 => role'[q].open = role[q].open
    BY <1>5, WhatACommitKeeps
  <2>3. \A q \in Roles : RowOf(q)' = RowOf(q)
    BY <2>1, <2>2 DEF RowOf
  <2>4. \A q \in Roles : RowOf(q) > 0 => rows[q] > 0
    BY DEF RowOf
  <2>5. Seen(a)' = Seen(a)
    BY <2>1, <2>2, <2>3, <2>4 DEF Seen, OpenHeld
  <2>6. OpenHeld(a) \subseteq Roles /\ OpenHeld(a)' \subseteq Roles
    BY <2>1 DEF OpenHeld
  <2>7. Seen(a) # {} => Min(Seen(a)) \in Roles
    <3>1. Seen(a) \subseteq Roles
      BY <2>6 DEF Seen
    <3> QED
      BY <3>1, LeastIn, RolesAssumption
  <2>8. Seen(a) # {} => RowOf(Min(Seen(a)))' = RowOf(Min(Seen(a)))
    BY <2>3, <2>5, <2>7
  <2> QED
    BY <2>1, <2>5, <2>6, <2>8, ViewIs, ViewIsNext
<1> QED
  BY <1>1, <1>2, <1>3, <1>4, <1>5

LEMMA WhatACommitChanges ==
    ASSUME AccessTypeOK, NEW step \in ChangeStep, Commits(step), NEW key \in Keys
    PROVE  Covered(step, key) \/ Truth(key)' = Truth(key)
<1>1. ASSUME NEW a \in Admins, key = Perms(a)
      PROVE  Covered(step, key) \/ Truth(key)' = Truth(key)
  BY <1>1, PermissionsCovered, TruthOf, TruthOfNext
<1>2. ASSUME NEW a \in Admins, key = Names(a)
      PROVE  Covered(step, key) \/ Truth(key)' = Truth(key)
  BY <1>2, NamesCovered, TruthOf, TruthOfNext
<1>3. ASSUME NEW r \in Roles, key = Rows(r)
      PROVE  Covered(step, key) \/ Truth(key)' = Truth(key)
  BY <1>3, RowsCovered, TruthOf, TruthOfNext
<1>4. ASSUME NEW a \in Admins, NEW r \in Roles, key = ViewKey(a, r)
      PROVE  Covered(step, key) \/ Truth(key)' = Truth(key)
  BY <1>4, ViewsCovered, TruthOf, TruthOfNext
<1> QED
  BY <1>1, <1>2, <1>3, <1>4, KindOfKey

(***************************************************************************)
(* What a handler has read: it fits, and it is what the database says      *)
(* unless a commit overtook it.                                            *)
(***************************************************************************)
Truths == [key \in Keys |-> Truth(key)]

Fits(step) ==
    /\ step.op = "store" =>
        \A key \in DOMAIN step.values : step.values[key] \in Answers(key)
    /\ step.op = "derive" => step.allowed \in [Ids(step.names) -> 0 .. 2]

Current(step, truths) ==
    /\ step.op = "store" /\ step.basis = "current" =>
        \A key \in DOMAIN step.values : step.values[key] = truths[key]
    /\ step.op = "rows" /\ step.basis = "current" => step.names = truths[Names(step.admin)]
    /\ step.op = "derive" /\ step.basis = "current" =>
        /\ step.names = truths[Names(step.admin)]
        /\ \A r \in Ids(step.names) : step.allowed[r] = truths[Rows(r)]

Queue(q, views, truths) ==
    /\ Shape(q, views)
    /\ \A n \in DOMAIN q : Fits(q[n]) /\ Current(q[n], truths)

QueuesOK ==
    /\ work \in [Workers -> Seq(Step)]
    /\ \A s \in Workers : Queue(work[s], MotherViews, Truths)

AccessInv == AccessTypeOK /\ QueuesOK /\ AnswersTrue

LEMMA QueueGoesOn ==
    ASSUME NEW views, NEW truths, NEW q \in Seq(Step), q # <<>>, Queue(q, views, truths),
           NEW more \in Seq(Step),
           \A n \in DOMAIN more :
                more[n].op \notin {"change", "clear"} /\ Fits(more[n]) /\ Current(more[n], truths)
    PROVE  Queue(more \o Tail(q), views, truths)
<1> DEFINE w == more \o Tail(q)
<1>1. Shape(w, views)
  BY ShapeGoesOn DEF Queue
<1>2. ASSUME NEW n \in DOMAIN w
      PROVE  Fits(w[n]) /\ Current(w[n], truths)
  <2>1. \/ n \in DOMAIN more /\ w[n] = more[n]
        \/ n - Len(more) + 1 \in DOMAIN q /\ w[n] = q[n - Len(more) + 1]
    BY WhatIsNext, Zenon
  <2> HIDE DEF w
  <2> QED
    BY <2>1 DEF Queue
<1> QED
  BY <1>1, <1>2, Zenon DEF Queue

\* A change leaves nothing behind that was read before it.
LEMMA QueueAfterChange ==
    ASSUME NEW views, NEW truths, NEW next, NEW q \in Seq(Step), q # <<>>, Queue(q, views, truths),
           Head(q).op \in {"change", "clear"},
           NEW more \in Seq(Step), \A n \in DOMAIN more : more[n].op = "forget"
    PROVE  Queue(more \o Tail(q), views, next)
<1> DEFINE w == more \o Tail(q)
<1>1. Shape(w, views)
  BY ShapeGoesOn DEF Queue
<1>2. ASSUME NEW n \in DOMAIN w
      PROVE  Fits(w[n]) /\ Current(w[n], next)
  <2>1. \/ n \in DOMAIN more /\ w[n] = more[n]
        \/ n > Len(more) /\ n - Len(more) + 1 \in DOMAIN q /\ w[n] = q[n - Len(more) + 1]
    BY WhatIsNext, Zenon
  <2>2. w \in Seq(Step) /\ Head(q) = q[1] /\ 1 \in DOMAIN q
    BY WhatIsNext, Zenon
  <2> HIDE DEF w
  <2>3. n \in Nat /\ Len(more) \in Nat
    BY <2>2
  <2>4. CASE n \in DOMAIN more /\ w[n] = more[n]
    BY <2>4 DEF Fits, Current
  <2>5. CASE /\ n > Len(more) /\ n - Len(more) + 1 \in DOMAIN q
             /\ w[n] = q[n - Len(more) + 1]
    <3>1. 1 < n - Len(more) + 1
      BY <2>3, <2>5
    <3>2. w[n].op \notin ReadOps
      BY <2>2, <2>5, <3>1 DEF Queue, Shape, ReadsLast
    <3> QED
      BY <3>2 DEF Fits, Current, ReadOps
  <2> QED
    BY <2>1, <2>4, <2>5
<1> QED
  BY <1>1, <1>2, Zenon DEF Queue

LEMMA QueueOutdated ==
    ASSUME NEW views, NEW truths, NEW next, NEW q \in Seq(Step), Queue(q, views, truths)
    PROVE  Queue(AllOutdated(q), views, next)
<1>1. Shape(AllOutdated(q), views)
  BY ShapeOutdated DEF Queue
<1>2. DOMAIN AllOutdated(q) = DOMAIN q /\ \A n \in DOMAIN q : AllOutdated(q)[n] = Outdated(q[n])
  BY DEF AllOutdated
<1>3. ASSUME NEW n \in DOMAIN q
      PROVE  Fits(Outdated(q[n])) /\ Current(Outdated(q[n]), next)
  <2>1. q[n] \in Step /\ Fits(q[n])
    BY DEF Queue
  <2>2. CASE q[n].op \notin ReadOps
    <3>1. Outdated(q[n]).op \notin ReadOps
      BY <2>1, <2>2, OutdatedStep
    <3> QED
      BY <3>1 DEF Fits, Current, ReadOps
  <2>3. CASE q[n].op \in ReadOps
    <3>1. Outdated(q[n]).basis # "current"
      BY <2>1, <2>3, OutdatedStep
    <3>2. Fits(Outdated(q[n]))
      BY <2>1, OutdatedStep DEF Fits
    <3> QED
      BY <3>1, <3>2 DEF Current
  <2> QED
    BY <2>2, <2>3
<1> QED
  BY <1>1, <1>2, <1>3 DEF Queue

(***************************************************************************)
(* What a handler sees to.                                                 *)
(***************************************************************************)
Owes(step, had) ==
    CASE step.op = "forget" -> step.keys
      [] step.op = "clear"  -> Invalidated({r \in step.roles : had[r] > 0})
      [] OTHER              -> {}

Owing(q, had) == UNION {Owes(q[n], had) : n \in DOMAIN q}

LEMMA OwedIs ==
    /\ \A step : SeesTo(step) = Owes(step, rows)
    /\ AllOwed = UNION {Owing(work[s], rows) : s \in Workers}
<1>1. \A step : SeesTo(step) = Owes(step, rows)
  BY DEF SeesTo, Owes, WithRow
<1>2. \A s : Outstanding(s) = Owing(work[s], rows)
  BY <1>1 DEF Outstanding, Owing
<1> QED
  BY <1>1, <1>2 DEF AllOwed

LEMMA OwedIsNext == AllOwed' = UNION {Owing(work'[s], rows') : s \in Workers}
<1>1. \A step : SeesTo(step)' = Owes(step, rows')
  BY DEF SeesTo, Owes, WithRow
<1>2. \A s : Outstanding(s)' = Owing(work'[s], rows')
  BY <1>1 DEF Outstanding, Owing
<1> QED
  BY <1>1, <1>2 DEF AllOwed

LEMMA OwesMore ==
    ASSUME NEW step \in Step, NEW had, NEW next,
           \A r \in Roles : had[r] > 0 => next[r] > 0
    PROVE  Owes(step, had) \subseteq Owes(step, next)
<1>1. CASE step.op = "clear"
  <2>1. step.roles \subseteq Roles
    BY <1>1, KindOfStep DEF ClearStep
  <2> QED
    BY <1>1, <2>1 DEF Owes, Invalidated
<1>2. CASE step.op # "clear"
  BY <1>2 DEF Owes
<1> QED
  BY <1>1, <1>2

LEMMA OwingGoesOn ==
    ASSUME NEW q \in Seq(Step), q # <<>>, NEW more \in Seq(Step), NEW had
    PROVE  /\ Owing(q, had) \subseteq Owes(Head(q), had) \cup Owing(more \o Tail(q), had)
           /\ \A n \in DOMAIN more : Owes(more[n], had) \subseteq Owing(more \o Tail(q), had)
<1> DEFINE w == more \o Tail(q)
<1>1. /\ Head(q) = q[1] /\ DOMAIN q = 1 .. Len(q) /\ Len(q) \in Nat
      /\ \A n \in DOMAIN q : n > 1 => n + Len(more) - 1 \in DOMAIN w /\ w[n + Len(more) - 1] = q[n]
  BY WhatIsNext
<1>2. \A n \in DOMAIN more : n \in DOMAIN w /\ w[n] = more[n]
  OBVIOUS
<1> HIDE DEF w
<1>3. ASSUME NEW n \in DOMAIN q
      PROVE  Owes(q[n], had) \subseteq Owes(Head(q), had) \cup Owing(w, had)
  <2>1. CASE n = 1
    BY <1>1, <2>1
  <2>2. CASE n > 1
    BY <1>1, <2>2 DEF Owing
  <2> QED
    BY <1>1, <2>1, <2>2
<1>4. Owing(q, had) \subseteq Owes(Head(q), had) \cup Owing(w, had)
  BY <1>3 DEF Owing
<1>5. \A n \in DOMAIN more : Owes(more[n], had) \subseteq Owing(w, had)
  BY <1>2 DEF Owing
<1> QED
  BY <1>4, <1>5 DEF w

LEMMA OwingOutdated ==
    ASSUME NEW q \in Seq(Step), NEW had
    PROVE  Owing(AllOutdated(q), had) = Owing(q, had)
<1>1. DOMAIN AllOutdated(q) = DOMAIN q /\ \A n \in DOMAIN q : AllOutdated(q)[n] = Outdated(q[n])
  BY DEF AllOutdated
<1>2. \A n \in DOMAIN q : Owes(Outdated(q[n]), had) = Owes(q[n], had)
  <2> SUFFICES ASSUME NEW n \in DOMAIN q
               PROVE  Owes(Outdated(q[n]), had) = Owes(q[n], had)
    OBVIOUS
  <2>1. q[n] \in Step
    OBVIOUS
  <2>2. CASE q[n].op \in ReadOps
    <3>1. Outdated(q[n]).op \in ReadOps
      BY <2>1, <2>2, OutdatedStep
    <3> QED
      BY <2>2, <3>1 DEF Owes, ReadOps
  <2>3. CASE q[n].op \notin ReadOps
    BY <2>1, <2>3, OutdatedStep
  <2> QED
    BY <2>2, <2>3
<1> QED
  BY <1>1, <1>2 DEF Owing

\* What a commit promises, the rest of its handler sees to.
LEMMA PromisesKept ==
    ASSUME NEW views, NEW truths, NEW had, NEW q \in Seq(Step), q # <<>>, Queue(q, views, truths),
           Head(q).op = "change"
    PROVE  /\ Promised(Head(q), views) \subseteq Owing(<<>> \o Tail(q), had)
           /\ Head(q).of = "gone" /\ had[Head(q).id] > 0 =>
                Invalidated({Head(q).id}) \subseteq Owing(<<>> \o Tail(q), had)
<1> DEFINE w == <<>> \o Tail(q)
<1>1. /\ Head(q) = q[1] /\ 1 \in DOMAIN q
      /\ \A n \in DOMAIN q : n > 1 => n - 1 \in DOMAIN w /\ w[n - 1] = q[n]
  <2>1. <<>> \in Seq(Step) /\ Len(<<>>) = 0 /\ \A n \in DOMAIN q : n \in Nat
    OBVIOUS
  <2>2. \A n \in DOMAIN q : n + 0 - 1 = n - 1
    BY <2>1
  <2>3. Head(q) = q[1] /\ 1 \in DOMAIN q
    BY WhatIsNext
  <2>4. \A n \in DOMAIN q : n > 1 =>
            n + Len(<<>>) - 1 \in DOMAIN w /\ w[n + Len(<<>>) - 1] = q[n]
    BY <2>1, WhatIsNext
  <2> HIDE DEF w
  <2> QED
    BY <2>1, <2>2, <2>3, <2>4
<1> HIDE DEF w
<1>2. ASSUME NEW key \in Promised(Head(q), views)
      PROVE  key \in Owing(w, had)
  <2>1. PICK n \in DOMAIN q : 1 < n /\ q[n].op = "forget" /\ key \in q[n].keys
    BY <1>1 DEF Queue, Shape, ForgetsAfter
  <2>2. key \in Owes(q[n], had)
    BY <2>1 DEF Owes
  <2> QED
    BY <1>1, <2>1, <2>2 DEF Owing
<1>3. ASSUME Head(q).of = "gone", had[Head(q).id] > 0
      PROVE  Invalidated({Head(q).id}) \subseteq Owing(w, had)
  <2>1. PICK n \in DOMAIN q : 1 < n /\ q[n].op = "clear" /\ q[1].id \in q[n].roles
    BY <1>1, <1>3 DEF Queue, Shape, ClearsAfter
  <2>2. Invalidated({q[1].id}) \subseteq Owes(q[n], had)
    BY <1>1, <1>3, <2>1 DEF Owes, Invalidated
  <2> QED
    BY <1>1, <2>1, <2>2 DEF Owing
<1> QED
  BY <1>2, <1>3 DEF w

(***************************************************************************)
(* Steps that change neither the database nor another handler.             *)
(***************************************************************************)
LEMMA SameTruth ==
    ASSUME UNCHANGED <<here, role, holds, rows, statusOpen, look>>
    PROVE  /\ \A key : Truth(key)' = Truth(key)
           /\ Truths' = Truths /\ MotherViews' = MotherViews
<1>1. \A key : Truth(key)' = Truth(key)
  BY DEF Truth, Granted, RolesOf, RowOf, Viewable
<1> QED
  BY <1>1 DEF Truths, MotherViews

LEMMA UntrueNext ==
    \A key : key \in Untrue' <=> key \in DOMAIN redis' /\ redis'[key] # Truth(key)'
BY DEF Untrue, Remembered

LEMMA GoStep ==
    ASSUME QueuesOK, NEW s \in Workers, work[s] # <<>>, NEW more \in Seq(Step),
           \A n \in DOMAIN more :
                more[n].op \notin {"change", "clear"} /\ Fits(more[n]) /\ Current(more[n], Truths),
           Go(s, more), UNCHANGED <<here, role, holds, rows, statusOpen, look>>
    PROVE  /\ QueuesOK'
           /\ AllOwed \subseteq AllOwed' \cup SeesTo(Task(s))
<1>1. /\ work' = [work EXCEPT ![s] = more \o Tail(work[s])] /\ work \in [Workers -> Seq(Step)]
      /\ work[s] \in Seq(Step) /\ Queue(work[s], MotherViews, Truths)
  BY DEF Go, QueuesOK
<1>2. more \o Tail(work[s]) \in Seq(Step) /\ Queue(more \o Tail(work[s]), MotherViews, Truths)
  BY <1>1, WhatIsNext, QueueGoesOn
<1>3. Truths' = Truths /\ MotherViews' = MotherViews
  BY SameTruth
<1>4. QueuesOK'
  <2>1. work' \in [Workers -> Seq(Step)]
    BY <1>1, <1>2
  <2>2. \A q \in Workers : Queue(work'[q], MotherViews, Truths)
    BY <1>1, <1>2 DEF QueuesOK
  <2> QED
    BY <1>3, <2>1, <2>2 DEF QueuesOK
<1>5. \A q \in Workers : Owing(work[q], rows) \subseteq Owing(work'[q], rows) \cup Owes(Task(s), rows)
  <2>1. Owing(work[s], rows) \subseteq Owes(Head(work[s]), rows) \cup Owing(more \o Tail(work[s]), rows)
    BY <1>1, OwingGoesOn
  <2>2. \A q \in Workers : q # s => work'[q] = work[q]
    BY <1>1
  <2>3. work'[s] = more \o Tail(work[s])
    BY <1>1
  <2> QED
    BY <2>1, <2>2, <2>3 DEF Task
<1>6. AllOwed \subseteq AllOwed' \cup SeesTo(Task(s))
  BY <1>5, OwedIs, OwedIsNext
<1> QED
  BY <1>4, <1>6

LEMMA TakeUpStep ==
    ASSUME AccessInv, NEW s \in Workers, NEW todo \in Seq(Step),
           Queue(todo, MotherViews, Truths), TakeUp(s, todo)
    PROVE  AccessInv'
<1>1. /\ work' = [work EXCEPT ![s] = todo] /\ work \in [Workers -> Seq(Step)] /\ work[s] = <<>>
      /\ UNCHANGED <<here, role, holds, rows, statusOpen, look, redis, stale>>
      /\ events < MaxEvents /\ events' = events + 1
  BY DEF TakeUp, ReadyWorkers, AccessInv, QueuesOK
<1>2. /\ Truths' = Truths /\ MotherViews' = MotherViews /\ \A key : Truth(key)' = Truth(key)
  BY <1>1, SameTruth
<1>3. QueuesOK'
  <2>1. work' \in [Workers -> Seq(Step)]
    BY <1>1
  <2>2. \A q \in Workers : Queue(work'[q], MotherViews, Truths)
    BY <1>1 DEF AccessInv, QueuesOK
  <2> QED
    BY <1>2, <2>1, <2>2 DEF QueuesOK
<1>4. AllOwed \subseteq AllOwed'
  <2>1. Owing(<<>>, rows) = {}
    BY DEF Owing
  <2>2. \A q \in Workers : Owing(work[q], rows) \subseteq Owing(work'[q], rows)
    BY <1>1, <2>1
  <2> QED
    BY <1>1, <2>2, OwedIs, OwedIsNext
<1>5. AccessTypeOK'
  BY <1>1, MaxEventsAssumption DEF AccessInv, AccessTypeOK, Remembered
<1>6. Untrue' = Untrue
  BY <1>1, <1>2 DEF Untrue, Remembered
<1> QED
  BY <1>1, <1>3, <1>4, <1>5, <1>6 DEF AccessInv, AnswersTrue

\* What redis is given for a key it does not know is what the database says.
LEMMA FillIs ==
    ASSUME AccessTypeOK, NEW key \in Keys
    PROVE  /\ Fill(key) \in Seq(Step)
           /\ \A n \in DOMAIN Fill(key) :
                /\ Fill(key)[n].op = "store" /\ Fits(Fill(key)[n])
                /\ Current(Fill(key)[n], Truths)
<1> DEFINE values == [k \in {key} |-> Truth(k)]
           step == StoreAnswers(values, "current")
<1>1. values[key] = Truth(key) /\ DOMAIN values = {key} /\ Truth(key) \in Answers(key)
  BY TruthFits
<1>2. values \in AnswerMaps
  <2>1. Truth(key) \in AnyAnswer
    BY <1>1 DEF AnyAnswer
  <2>2. values \in [{key} -> AnyAnswer] /\ {key} \in SUBSET Keys
    BY <2>1
  <2> QED
    BY <2>2 DEF AnswerMaps
<1>3. /\ step.op = "store" /\ step.values = values /\ step.basis = "current"
      /\ step \in StoreStep
  BY <1>2 DEF StoreAnswers, StoreStep, Bases
<1>4. Fits(step) /\ Current(step, Truths) /\ step \in Step
  BY <1>1, <1>3 DEF Fits, Current, Truths, Step
<1>5. Fill(key) = <<>> \/ Fill(key) = <<step>>
  BY DEF Fill
<1> HIDE DEF step
<1>6. CASE Fill(key) = <<>>
  BY <1>6
<1>7. CASE Fill(key) = <<step>>
  <2>1. <<step>> \in Seq(Step) /\ DOMAIN <<step>> = {1} /\ <<step>>[1] = step
    BY <1>4
  <2> QED
    BY <1>3, <1>4, <1>7, <2>1
<1> QED
  BY <1>5, <1>6, <1>7

\* A step that touches neither redis nor the database, and owes nothing.
LEMMA NothingElse ==
    ASSUME AccessInv, UNCHANGED <<here, role, holds, rows, statusOpen, look, redis, events, stale>>,
           QueuesOK', AllOwed \subseteq AllOwed'
    PROVE  AccessInv'
<1>1. \A key : Truth(key)' = Truth(key)
  BY SameTruth
<1>2. Untrue' = Untrue
  BY <1>1 DEF Untrue, Remembered
<1>3. AccessTypeOK'
  BY DEF AccessInv, AccessTypeOK, Remembered
<1> QED
  BY <1>2, <1>3 DEF AccessInv, AnswersTrue

LEMMA ReloadStep ==
    ASSUME AccessInv, NEW s \in Workers, Reload(s)
    PROVE  AccessInv'
<1> DEFINE key == Task(s).key
           more == Fill(key)
<1>1. /\ work[s] # <<>> /\ Task(s).op = "load" /\ Go(s, more)
      /\ UNCHANGED <<here, role, holds, rows, statusOpen, look, redis, events, stale>>
  BY DEF Reload, Now, Task
<1>2. Task(s) \in Step
  BY <1>1 DEF Task, AccessInv, QueuesOK
<1>3. key \in Keys
  BY <1>1, <1>2, KindOfStep, KeysAreKeys DEF LoadStep
<1>4. /\ more \in Seq(Step)
      /\ \A n \in DOMAIN more :
            more[n].op \notin {"change", "clear"} /\ Fits(more[n]) /\ Current(more[n], Truths)
  BY <1>3, FillIs DEF AccessInv
<1>5. QueuesOK' /\ AllOwed \subseteq AllOwed' \cup SeesTo(Task(s))
  BY <1>1, <1>4, GoStep DEF AccessInv
<1>6. SeesTo(Task(s)) = {}
  BY <1>1 DEF SeesTo
<1> QED
  BY <1>1, <1>5, <1>6, NothingElse

\* What redis says of a key that is not wrong is what the database says.
LEMMA RecallIs ==
    ASSUME AccessTypeOK, NEW key \in Keys
    PROVE  /\ Recall(key) \in Answers(key)
           /\ key \notin Untrue => Recall(key) = Truth(key)
BY TruthFits DEF Recall, Untrue, AccessTypeOK, Remembered

LEMMA FitsKind ==
    ASSUME NEW step \in Step
    PROVE  /\ step.op = "rows" => step.admin \in Admins /\ step.names \in NameSets /\ step.basis \in Bases
           /\ step.op = "derive" => /\ step.admin \in Admins /\ step.names \in NameSets
                                    /\ step.basis \in Bases
BY KindOfStep DEF RowsStep, DeriveStep

LEMMA TwoSteps ==
    ASSUME NEW x \in Step, NEW y \in Step
    PROVE  /\ <<x>> \o <<y>> \in Seq(Step)
           /\ \A n \in DOMAIN (<<x>> \o <<y>>) :
                \/ n = 1 /\ (<<x>> \o <<y>>)[n] = x
                \/ n = 2 /\ (<<x>> \o <<y>>)[n] = y
<1>1. <<x>> \in Seq(Step) /\ <<y>> \in Seq(Step) /\ Len(<<x>>) = 1 /\ Len(<<y>>) = 1
      /\ <<x>>[1] = x /\ <<y>>[1] = y
  OBVIOUS
<1> DEFINE p == <<x>>
           r == <<y>>
<1>2. p \in Seq(Step) /\ r \in Seq(Step) /\ Len(p) = 1 /\ Len(r) = 1 /\ p[1] = x /\ r[1] = y
  BY <1>1
<1> HIDE DEF p, r
<1>3. /\ p \o r \in Seq(Step)
      /\ \A n \in DOMAIN (p \o r) :
            (n = 1 /\ (p \o r)[n] = x) \/ (n = 2 /\ (p \o r)[n] = y)
  <2>1. /\ p \o r \in Seq(Step) /\ Len(p \o r) = Len(p) + Len(r)
        /\ \A i \in 1 .. Len(p) + Len(r) :
                (p \o r)[i] = IF i <= Len(p) THEN p[i] ELSE r[i - Len(p)]
    BY <1>2, ConcatProperties
  <2>2. DOMAIN (p \o r) = 1 .. 2
    BY <1>2, <2>1
  <2>3. (p \o r)[1] = x
    BY <1>2, <2>1
  <2>4. (p \o r)[2] = y
    BY <1>2, <2>1
  <2> QED
    BY <2>1, <2>2, <2>3, <2>4
<1> QED
  BY <1>3, Zenon DEF p, r

LEMMA ReadRowsStep ==
    ASSUME AccessInv, NEW s \in Workers, ReadRows(s)
    PROVE  AccessInv'
<1> DEFINE step == Task(s)
           able == Ids(step.names)
           allowed == [r \in able |-> Recall(Rows(r))]
           missing == {Rows(r) : r \in able} \ Remembered
           basis == IF \E r \in able : Rows(r) \in Untrue THEN "overtaken" ELSE step.basis
           given == [k \in missing |-> Truth(k)]
           store == StoreAnswers(given, "current")
           derive == Derive(step.admin, step.names, allowed, basis)
           first == IF missing = {} THEN <<>> ELSE <<store>>
           more == first \o <<derive>>
<1>1. /\ work[s] # <<>> /\ step.op = "rows"
      /\ Go(s, <<>>) \/ Go(s, more)
      /\ UNCHANGED <<here, role, holds, rows, statusOpen, look, redis, events, stale>>
  BY DEF ReadRows, Now, Task
<1>2. step \in Step /\ Fits(step) /\ Current(step, Truths)
  BY <1>1 DEF Task, AccessInv, QueuesOK, Queue
<1>3. step.admin \in Admins /\ step.names \in NameSets /\ step.basis \in Bases
  BY <1>1, <1>2, FitsKind
<1>4. able \subseteq Roles /\ able # {}
  BY <1>3, IdsOfNameSets
<1>5. \A r \in able : Rows(r) \in Keys /\ Recall(Rows(r)) \in 0 .. 2
  BY <1>4, KeysAreKeys, RecallIs, AnswersOf DEF AccessInv
<1>6. store \in Step /\ store.op = "store" /\ Fits(store) /\ Current(store, Truths)
  <2>1. missing \subseteq Keys
    BY <1>5
  <2> HIDE DEF missing
  <2>2. DOMAIN given = missing
        /\ \A k \in missing : /\ given[k] = Truth(k) /\ Truth(k) \in Answers(k)
                               /\ given[k] = Truths[k]
    BY <2>1, TruthFits DEF AccessInv, Truths
  <2>3. given \in [missing -> AnyAnswer]
    BY <2>1, <2>2 DEF AnyAnswer
  <2>4. given \in AnswerMaps
    BY <2>1, <2>3 DEF AnswerMaps
  <2> HIDE DEF given
  <2>5. store.op = "store" /\ store.values = given /\ store \in StoreStep
    BY <2>4 DEF StoreAnswers, StoreStep, Bases
  <2> QED
    BY <2>2, <2>5 DEF Fits, Current, Step
<1>7. derive \in Step /\ derive.op = "derive" /\ Fits(derive) /\ Current(derive, Truths)
  <2>1. allowed \in [able -> 0 .. 2]
    BY <1>5
  <2>2. allowed \in AbleMaps
    BY <1>4, <2>1 DEF AbleMaps
  <2>3. basis \in Bases
    BY <1>3 DEF Bases
  <2>4. ASSUME basis = "current"
        PROVE  /\ step.names = Truths[Names(step.admin)]
               /\ \A r \in able : allowed[r] = Truths[Rows(r)]
    <3>1. step.basis = "current" /\ \A r \in able : Rows(r) \notin Untrue
      BY <2>4
    <3>2. \A r \in able : allowed[r] = Truth(Rows(r))
      BY <1>5, <3>1, RecallIs DEF AccessInv
    <3> QED
      BY <1>1, <1>2, <1>5, <3>1, <3>2 DEF Current, Truths
  <2> HIDE DEF allowed, basis, step
  <2>5. /\ derive.op = "derive" /\ derive.names = step.names /\ derive.allowed = allowed
        /\ derive.basis = basis /\ derive.admin = step.admin /\ derive \in DeriveStep
    BY <1>3, <2>2, <2>3 DEF Derive, DeriveStep
  <2> HIDE DEF derive
  <2>6. Fits(derive)
    BY <2>1, <2>5 DEF Fits
  <2>7. Current(derive, Truths)
    BY <2>4, <2>5 DEF Current
  <2> QED
    BY <2>5, <2>6, <2>7 DEF Step
<1>8. /\ more \in Seq(Step)
      /\ \A n \in DOMAIN more :
            /\ more[n].op \notin {"change", "clear"}
            /\ Fits(more[n]) /\ Current(more[n], Truths)
  <2> HIDE DEF store, derive
  <2>1. CASE missing = {}
    <3>1. first = <<>>
      BY <2>1
    <3> HIDE DEF first
    <3>2. more = <<derive>>
      BY <3>1
    <3>3. <<derive>> \in Seq(Step) /\ DOMAIN <<derive>> = {1} /\ <<derive>>[1] = derive
      BY <1>7
    <3> QED
      BY <1>7, <3>2, <3>3
  <2>2. CASE missing # {}
    <3>1. first = <<store>>
      BY <2>2
    <3> HIDE DEF first
    <3>2. more = <<store>> \o <<derive>>
      BY <3>1
    <3> HIDE DEF more
    <3>3. /\ more \in Seq(Step)
          /\ \A n \in DOMAIN more : more[n] = store \/ more[n] = derive
      BY <1>6, <1>7, <3>2, TwoSteps
    <3> QED
      BY <1>6, <1>7, <3>3
  <2> QED
    BY <2>1, <2>2
<1>9. QueuesOK' /\ AllOwed \subseteq AllOwed' \cup SeesTo(step)
  <2>1. CASE Go(s, <<>>)
    <3>1. <<>> \in Seq(Step) /\ DOMAIN <<>> = {}
      OBVIOUS
    <3> QED
      BY <1>1, <2>1, <3>1, GoStep DEF AccessInv
  <2>2. CASE Go(s, more)
    <3> HIDE DEF more
    <3> QED
      BY <1>1, <1>8, <2>2, GoStep DEF AccessInv
  <2> QED
    BY <1>1, <2>1, <2>2
<1>10. SeesTo(step) = {}
  BY <1>1 DEF SeesTo
<1> QED
  BY <1>1, <1>9, <1>10, NothingElse

LEMMA ReadStatusesStep ==
    ASSUME AccessInv, NEW s \in Workers, ReadStatuses(s)
    PROVE  AccessInv'
<1> DEFINE step == Task(s)
           able == Ids(step.names)
           key == ViewKey(step.admin, Min(able))
           list == Viewable(step.names, step.allowed)
           given == [k \in {key} |-> list]
           store == StoreAnswers(given, step.basis)
           more == <<store>>
<1>1. /\ work[s] # <<>> /\ step.op = "derive" /\ Go(s, more)
      /\ UNCHANGED <<here, role, holds, rows, statusOpen, look, redis, events, stale>>
  BY DEF ReadStatuses, Now, Task
<1>2. step \in Step /\ Fits(step) /\ Current(step, Truths)
  BY <1>1 DEF Task, AccessInv, QueuesOK, Queue
<1>3. step.admin \in Admins /\ step.names \in NameSets /\ step.basis \in Bases
  BY <1>1, <1>2, FitsKind
<1>4. able \subseteq Roles /\ able # {}
  BY <1>3, IdsOfNameSets
<1>5. Min(able) \in Roles
  BY <1>4, LeastIn, RolesAssumption
<1>6. key \in Keys
  BY <1>3, <1>5, KeysAreKeys
<1>7. list \in Answers(key)
  <2>1. step.allowed \in [able -> 0 .. 2]
    BY <1>1, <1>2 DEF Fits
  <2>2. list \in {<<>>} \cup (1 .. 2) \X (0 .. 1)
    BY <1>3, <2>1, ViewFits DEF NameSets, AccessInv, AccessTypeOK
  <2> QED
    BY <1>3, <1>5, <2>2, AnswersOf
<1>8. step.basis = "current" => list = Truths[key]
  <2> SUFFICES ASSUME step.basis = "current"
               PROVE  list = Truths[key]
    OBVIOUS
  <2>1. step.names = RolesOf(step.admin)
    BY <1>1, <1>2, <1>3, KeysAreKeys, TruthOf DEF Current, Truths
  <2>2. \A r \in able : step.allowed[r] = RowOf(r)
    BY <1>1, <1>2, <1>4, KeysAreKeys, TruthOf DEF Current, Truths
  <2>3. {r \in able : step.allowed[r] > 0} = {r \in able : [q \in Roles |-> RowOf(q)][r] > 0}
    BY <1>4, <2>2
  <2>4. {r \in able : step.allowed[r] > 0} # {} => Min({r \in able : step.allowed[r] > 0}) \in able
    BY <1>4, LeastIn, RolesAssumption
  <2>5. list = Viewable(RolesOf(step.admin), [q \in Roles |-> RowOf(q)])
    BY <1>4, <2>1, <2>2, <2>3, <2>4 DEF Viewable
  <2>6. Truths[key] = Truth(key)
    BY <1>6 DEF Truths
  <2> QED
    BY <2>5, <2>6, TruthOf
<1>9. /\ store \in Step /\ store.op = "store" /\ Fits(store) /\ Current(store, Truths)
  <2> HIDE DEF list, key
  <2>1. DOMAIN given = {key} /\ given[key] = list /\ given \in [{key} -> AnyAnswer]
    BY <1>6, <1>7 DEF AnyAnswer
  <2>2. given \in AnswerMaps
    BY <1>6, <2>1 DEF AnswerMaps
  <2> HIDE DEF given
  <2>3. store.op = "store" /\ store.values = given /\ store.basis = step.basis /\ store \in StoreStep
    BY <1>3, <2>2 DEF StoreAnswers, StoreStep
  <2> QED
    BY <1>7, <1>8, <2>1, <2>3 DEF Fits, Current, Step
<1>10. /\ more \in Seq(Step)
       /\ \A n \in DOMAIN more :
            /\ more[n].op \notin {"change", "clear"}
            /\ Fits(more[n]) /\ Current(more[n], Truths)
  <2> HIDE DEF store
  <2> QED
    BY <1>9
<1>11. QueuesOK' /\ AllOwed \subseteq AllOwed' \cup SeesTo(step)
  <2> HIDE DEF more
  <2> QED
    BY <1>1, <1>10, GoStep DEF AccessInv
<1>12. SeesTo(step) = {}
  BY <1>1 DEF SeesTo
<1> QED
  BY <1>1, <1>11, <1>12, NothingElse

LEMMA NoMore == <<>> \in Seq(Step) /\ DOMAIN <<>> = {}
OBVIOUS

LEMMA NothingLeft ==
    ASSUME NEW views, NEW truths, NEW had
    PROVE  Queue(<<>>, views, truths) /\ Owing(<<>>, had) = {}
BY DEF Queue, Shape, ReadsLast, ForgetsAfter, ClearsAfter, Owing

LEMMA StoreKeysStep ==
    ASSUME AccessInv, NEW s \in Workers, StoreKeys(s)
    PROVE  AccessInv'
<1> DEFINE step == Task(s)
           given == step.values
<1>1. /\ work[s] # <<>> /\ step.op = "store" /\ Go(s, <<>>)
      /\ redis' = [key \in DOMAIN given \cup Remembered |->
                    IF key \in DOMAIN given THEN given[key] ELSE redis[key]]
      /\ stale' = (stale \ DOMAIN given)
                   \cup {k \in DOMAIN given : step.basis = "overtaken" /\ given[k] # Truth(k)}
      /\ UNCHANGED <<here, role, holds, rows, statusOpen, look, events>>
  BY DEF StoreKeys, Now, Task
<1>2. step \in Step /\ Fits(step) /\ Current(step, Truths)
  BY <1>1 DEF Task, AccessInv, QueuesOK, Queue
<1>3. DOMAIN given \subseteq Keys /\ step.basis \in Bases
  <2>1. step \in StoreStep
    BY <1>1, <1>2, KindOfStep
  <2>2. given \in AnswerMaps /\ step.basis \in Bases
    BY <2>1 DEF StoreStep
  <2> QED
    BY <2>2 DEF AnswerMaps
<1>4. QueuesOK' /\ AllOwed \subseteq AllOwed'
  <2>1. QueuesOK' /\ AllOwed \subseteq AllOwed' \cup SeesTo(step)
    BY <1>1, GoStep, NoMore DEF AccessInv
  <2>2. SeesTo(step) = {}
    BY <1>1 DEF SeesTo
  <2> QED
    BY <2>1, <2>2
<1>5. \A key : Truth(key)' = Truth(key)
  BY <1>1, SameTruth
<1>6. AccessTypeOK'
  <2>1. DOMAIN redis' = DOMAIN given \cup Remembered
    BY <1>1
  <2>2. \A key \in DOMAIN redis' : key \in Keys /\ redis'[key] \in Answers(key)
    BY <1>1, <1>2, <1>3, <2>1 DEF Fits, AccessInv, AccessTypeOK
  <2>3. stale' \subseteq Keys
    BY <1>1, <1>3 DEF AccessInv, AccessTypeOK
  <2> QED
    BY <1>1, <2>1, <2>2, <2>3 DEF AccessInv, AccessTypeOK, Remembered
<1>7. ASSUME NEW key \in Untrue'
      PROVE  key \in stale' \cup AllOwed'
  <2>1. key \in DOMAIN redis' /\ redis'[key] # Truth(key)
    BY <1>5, <1>7, UntrueNext
  <2>2. CASE key \in DOMAIN given
    <3>1. redis'[key] = given[key]
      BY <1>1, <2>2
    <3>2. Truths[key] = Truth(key)
      BY <1>3, <2>2 DEF Truths
    <3>3. step.basis = "overtaken"
      BY <1>1, <1>2, <1>3, <2>1, <2>2, <3>1, <3>2 DEF Current, Bases
    <3> QED
      BY <1>1, <2>1, <2>2, <3>1, <3>3
  <2>3. CASE key \notin DOMAIN given
    <3>1. key \in Remembered /\ redis'[key] = redis[key]
      BY <1>1, <2>1, <2>3
    <3>2. key \in Untrue
      BY <2>1, <3>1 DEF Untrue
    <3> QED
      BY <1>1, <1>4, <2>3, <3>2 DEF AccessInv, AnswersTrue
  <2> QED
    BY <2>2, <2>3
<1> QED
  BY <1>4, <1>6, <1>7 DEF AccessInv, AnswersTrue

LEMMA ForgetKeysStep ==
    ASSUME AccessInv, NEW s \in Workers, ForgetKeys(s)
    PROVE  AccessInv'
<1> DEFINE step == Task(s)
<1>1. /\ work[s] # <<>> /\ step.op = "forget" /\ Go(s, <<>>)
      /\ redis' = [key \in Remembered \ step.keys |-> redis[key]]
      /\ stale' = stale \ step.keys
      /\ UNCHANGED <<here, role, holds, rows, statusOpen, look, events>>
  BY DEF ForgetKeys, Now, Task
<1>2. QueuesOK' /\ AllOwed \subseteq AllOwed' \cup SeesTo(step)
  BY <1>1, GoStep, NoMore DEF AccessInv
<1>3. SeesTo(step) = step.keys
  BY <1>1 DEF SeesTo
<1>4. \A key : Truth(key)' = Truth(key)
  BY <1>1, SameTruth
<1>5. AccessTypeOK'
  BY <1>1 DEF AccessInv, AccessTypeOK, Remembered
<1>6. ASSUME NEW key \in Untrue'
      PROVE  key \in stale' \cup AllOwed'
  <2>1. key \in DOMAIN redis' /\ redis'[key] # Truth(key)
    BY <1>4, <1>6, UntrueNext
  <2>2. key \in Remembered /\ key \notin step.keys /\ redis'[key] = redis[key]
    BY <1>1, <2>1
  <2>3. key \in Untrue
    BY <2>1, <2>2 DEF Untrue
  <2> QED
    BY <1>1, <1>2, <1>3, <2>2, <2>3 DEF AccessInv, AnswersTrue
<1> QED
  BY <1>2, <1>5, <1>6 DEF AccessInv, AnswersTrue

LEMMA AnswersStayStep ==
    ASSUME AccessInv, NEW s \in Workers, AnswersStay(s)
    PROVE  AccessInv'
<1>1. /\ work[s] # <<>> /\ Go(s, <<>>)
      /\ stale' = stale \cup (SeesTo(Task(s)) \cap Untrue)
      /\ events < MaxEvents /\ events' = events + 1
      /\ UNCHANGED <<here, role, holds, rows, statusOpen, look, redis>>
  BY DEF AnswersStay, Now
<1>2. QueuesOK' /\ AllOwed \subseteq AllOwed' \cup SeesTo(Task(s))
  BY <1>1, GoStep, NoMore DEF AccessInv
<1>3. \A key : Truth(key)' = Truth(key)
  BY <1>1, SameTruth
<1>4. Untrue' = Untrue /\ Untrue \subseteq Keys
  BY <1>1, <1>3 DEF Untrue, Remembered, AccessInv, AccessTypeOK
<1>5. AccessTypeOK'
  BY <1>1, <1>4, MaxEventsAssumption DEF AccessInv, AccessTypeOK, Remembered
<1> QED
  BY <1>1, <1>2, <1>4, <1>5 DEF AccessInv, AnswersTrue

LEMMA AnswerExpiresStep ==
    ASSUME AccessInv, NEW key \in Remembered, AnswerExpires(key)
    PROVE  AccessInv'
<1>1. /\ redis' = [k \in Remembered \ {key} |-> redis[k]] /\ stale' = stale \ {key}
      /\ events < MaxEvents /\ events' = events + 1
      /\ UNCHANGED <<here, role, holds, rows, statusOpen, look, work>>
  BY DEF AnswerExpires
<1>2. /\ \A k : Truth(k)' = Truth(k)
      /\ Truths' = Truths /\ MotherViews' = MotherViews
  BY <1>1, SameTruth
<1>3. QueuesOK'
  BY <1>1, <1>2 DEF AccessInv, QueuesOK
<1>4. AllOwed' = AllOwed
  BY <1>1, OwedIs, OwedIsNext
<1>5. AccessTypeOK'
  BY <1>1, MaxEventsAssumption DEF AccessInv, AccessTypeOK, Remembered
<1>6. ASSUME NEW k \in Untrue'
      PROVE  k \in stale' \cup AllOwed'
  <2>1. k \in DOMAIN redis' /\ redis'[k] # Truth(k)
    BY <1>2, <1>6, UntrueNext
  <2>2. k \in Remembered /\ k # key /\ redis'[k] = redis[k]
    BY <1>1, <2>1
  <2>3. k \in Untrue
    BY <2>1, <2>2 DEF Untrue
  <2> QED
    BY <1>1, <1>4, <2>2, <2>3 DEF AccessInv, AnswersTrue
<1> QED
  BY <1>3, <1>5, <1>6 DEF AccessInv, AnswersTrue

LEMMA WorkerStopsStep ==
    ASSUME AccessInv, NEW s \in Workers, WorkerStops(s)
    PROVE  AccessInv'
<1>1. /\ work' = [work EXCEPT ![s] = <<>>] /\ work \in [Workers -> Seq(Step)]
      /\ stale' = stale \cup (Outstanding(s) \cap Untrue)
      /\ UNCHANGED <<here, role, holds, rows, statusOpen, look, redis, events>>
  BY DEF WorkerStops, AccessInv, QueuesOK
<1>2. /\ \A k : Truth(k)' = Truth(k)
      /\ Truths' = Truths /\ MotherViews' = MotherViews
  BY <1>1, SameTruth
<1>3. QueuesOK'
  <2>1. work' \in [Workers -> Seq(Step)]
    BY <1>1, NoMore
  <2>2. \A q \in Workers : Queue(work'[q], MotherViews, Truths)
    BY <1>1, NothingLeft DEF AccessInv, QueuesOK
  <2> QED
    BY <1>2, <2>1, <2>2 DEF QueuesOK
<1>4. AllOwed \subseteq AllOwed' \cup Outstanding(s)
  <2>1. Outstanding(s) = Owing(work[s], rows)
    BY OwedIs DEF Outstanding, Owing
  <2>2. \A q \in Workers : q # s => work'[q] = work[q]
    BY <1>1
  <2>3. \A q \in Workers : Owing(work[q], rows) \subseteq Owing(work'[q], rows') \cup Outstanding(s)
    BY <1>1, <2>1, <2>2
  <2> QED
    BY <2>3, OwedIs, OwedIsNext
<1>5. Untrue' = Untrue
  BY <1>1, <1>2 DEF Untrue, Remembered
<1>6. AccessTypeOK'
  BY <1>1 DEF AccessInv, AccessTypeOK, Remembered, Untrue
<1> QED
  BY <1>1, <1>3, <1>4, <1>5, <1>6 DEF AccessInv, AnswersTrue

(***************************************************************************)
(* Steps that change the database.                                         *)
(***************************************************************************)
LEMMA NothingBeforeTheRest ==
    ASSUME NEW q \in Seq(Step), q # <<>>
    PROVE  <<>> \o Tail(q) = Tail(q)
<1>1. Tail(q) \in Seq(Step)
  OBVIOUS
<1> QED
  BY <1>1, ConcatEmptySeq

LEMMA OvertakenStep ==
    ASSUME QueuesOK, NEW s \in Workers, work[s] # <<>>, Head(work[s]).op \in {"change", "clear"},
           NEW more \in Seq(Step), \A n \in DOMAIN more : more[n].op = "forget",
           work' = Overtaken(s, more \o Tail(work[s])), here' = here, NEW had
    PROVE  /\ QueuesOK'
           /\ work'[s] = more \o Tail(work[s])
           /\ \A q \in Workers : q # s => Owing(work'[q], had) = Owing(work[q], had)
<1> DEFINE w == more \o Tail(work[s])
<1>1. /\ work \in [Workers -> Seq(Step)] /\ work[s] \in Seq(Step)
      /\ \A q \in Workers : work[q] \in Seq(Step) /\ Queue(work[q], MotherViews, Truths)
  BY DEF QueuesOK
<1>2. w \in Seq(Step) /\ Queue(w, MotherViews, Truths')
  BY <1>1, WhatIsNext, QueueAfterChange
<1>3. work' = [q \in Workers |-> IF q = s THEN w ELSE AllOutdated(work[q])]
  BY DEF Overtaken, AllOutdated
<1> HIDE DEF w
<1>4. \A q \in Workers :
        AllOutdated(work[q]) \in Seq(Step) /\ Queue(AllOutdated(work[q]), MotherViews, Truths')
  BY <1>1, ShapeOutdated, QueueOutdated DEF Queue
<1>5. work' \in [Workers -> Seq(Step)]
  BY <1>2, <1>3, <1>4
<1>6. \A q \in Workers : Queue(work'[q], MotherViews, Truths')
  BY <1>2, <1>3, <1>4
<1>7. MotherViews' = MotherViews
  BY DEF MotherViews
<1>8. QueuesOK'
  BY <1>5, <1>6, <1>7 DEF QueuesOK
<1>9. \A q \in Workers : q # s => Owing(work'[q], had) = Owing(work[q], had)
  BY <1>1, <1>3, OwingOutdated
<1> QED
  BY <1>3, <1>8, <1>9 DEF w

LEMMA CommitChangeStep ==
    ASSUME AccessInv, NEW s \in Workers, CommitChange(s)
    PROVE  AccessInv'
<1> DEFINE step == Task(s)
           rest == <<>> \o Tail(work[s])
<1>1. /\ work[s] # <<>> /\ step = Head(work[s]) /\ step.op = "change"
      /\ work[s] \in Seq(Step) /\ Queue(work[s], MotherViews, Truths)
  BY DEF CommitChange, Now, Task, AccessInv, QueuesOK
<1>2. step \in ChangeStep
  <2>1. step \in Step
    BY <1>1
  <2> QED
    BY <1>1, <2>1, KindOfStep
<1>3. /\ Commits(step) /\ redis' = redis /\ events' = events
      /\ stale' = stale \cup (Neglected(step) \cap Untrue')
      /\ work' = Overtaken(s, rest)
  <2>1. rest = Tail(work[s])
    BY <1>1, NothingBeforeTheRest
  <2> QED
    BY <2>1 DEF CommitChange, Commits
<1>4. /\ QueuesOK' /\ work'[s] = rest
      /\ \A q \in Workers : q # s => Owing(work'[q], rows) = Owing(work[q], rows)
  BY <1>1, <1>3, NoMore, OvertakenStep DEF Commits, AccessInv
<1>5. /\ role' \in [Roles -> RoleRow] /\ holds' \in [Admins -> SUBSET Roles]
      /\ rows' \in [Roles -> 0 .. 2] /\ statusOpen' \in BOOLEAN /\ look' \in 0 .. 1
      /\ \A r \in Roles : rows[r] > 0 => rows'[r] > 0
  <2>1. \A r \in Roles : rows'[r] = rows[r] \/ rows'[r] \in 1 .. 2
    BY <1>2, <1>3, WhatACommitKeeps DEF AccessInv
  <2>2. \A r \in Roles : rows[r] > 0 => rows'[r] > 0
    BY <2>1
  <2> QED
    BY <1>2, <1>3, <2>2, WhatACommitKeeps DEF AccessInv
<1>6. stale' \subseteq Keys
  BY <1>3, UntrueNext DEF AccessInv, AccessTypeOK, Remembered
<1>7. AccessTypeOK'
  BY <1>3, <1>5, <1>6 DEF AccessInv, AccessTypeOK, Remembered, Commits, RoleRow
\* What was owed is still owed, by this handler too: a change owes nothing.
<1>8. Owes(step, rows) = {}
  BY <1>1 DEF Owes
<1>9. \A q \in Workers : Owing(work'[q], rows) \subseteq Owing(work'[q], rows')
  <2>1. \A q \in Workers : work'[q] \in Seq(Step)
    BY <1>4 DEF QueuesOK
  <2>2. \A q \in Workers : \A n \in DOMAIN work'[q] : work'[q][n] \in Step
    BY <2>1
  <2>3. \A q \in Workers : \A n \in DOMAIN work'[q] :
            Owes(work'[q][n], rows) \subseteq Owes(work'[q][n], rows')
    BY <1>5, <2>2, OwesMore
  <2> QED
    BY <2>3 DEF Owing
<1>10. AllOwed \subseteq AllOwed'
  <2>1. Owing(work[s], rows) \subseteq Owes(Head(work[s]), rows) \cup Owing(rest, rows)
    BY <1>1, NoMore, OwingGoesOn
  <2>2. \A q \in Workers : Owing(work[q], rows) \subseteq Owing(work'[q], rows)
    BY <1>1, <1>4, <1>8, <2>1
  <2> QED
    BY <1>9, <2>2, OwedIs, OwedIsNext
<1>11. ASSUME NEW key \in Untrue'
       PROVE  key \in stale' \cup AllOwed'
  <2>1. key \in DOMAIN redis' /\ redis'[key] # Truth(key)'
    BY <1>11, UntrueNext
  <2>2. key \in Keys /\ key \in Remembered
    BY <1>3, <2>1 DEF AccessInv, AccessTypeOK, Remembered
  <2>3. CASE Truth(key)' = Truth(key)
    <3>1. key \in Untrue
      BY <1>3, <2>1, <2>2, <2>3 DEF Untrue
    <3> QED
      BY <1>3, <1>10, <3>1 DEF AccessInv, AnswersTrue
  <2>4. CASE key \in Neglected(step)
    BY <1>3, <1>11, <2>4
  <2>5. CASE key \in Promised(step, MotherViews)
    <3>1. key \in Owing(rest, rows)
      BY <1>1, <2>5, PromisesKept
    <3> QED
      BY <1>4, <1>9, <3>1, OwedIsNext
  <2>6. CASE step.of = "gone" /\ rows[step.id] > 0 /\ key \in Invalidated({step.id})
    <3>1. key \in Owing(rest, rows)
      BY <1>1, <2>6, PromisesKept
    <3> QED
      BY <1>4, <1>9, <3>1, OwedIsNext
  <2>7. Covered(step, key) \/ Truth(key)' = Truth(key)
    BY <1>2, <1>3, <2>2, WhatACommitChanges DEF AccessInv
  <2> QED
    BY <2>3, <2>4, <2>5, <2>6, <2>7 DEF Covered
<1> QED
  BY <1>4, <1>7, <1>11 DEF AccessInv, AnswersTrue

LEMMA InvalidatedKeys ==
    ASSUME NEW roles \in SUBSET Roles
    PROVE  Invalidated(roles) \subseteq Keys
BY KeysAreKeys DEF Invalidated

\* Rows that are deleted change no more than what redis is then told to forget.
LEMMA WhatClearingChanges ==
    ASSUME AccessTypeOK, NEW had \in SUBSET Roles,
           rows' = [r \in Roles |-> IF r \in had THEN 0 ELSE rows[r]],
           UNCHANGED <<here, role, holds, statusOpen, look>>, NEW key \in Keys
    PROVE  key \in Invalidated(had) \/ Truth(key)' = Truth(key)
<1>1. ASSUME NEW a \in Admins, key = Perms(a)
      PROVE  Truth(key)' = Truth(key)
  <2>1. Granted(a)' = Granted(a)
    BY DEF Granted
  <2> QED
    BY <1>1, <2>1, TruthOf, TruthOfNext
<1>2. ASSUME NEW a \in Admins, key = Names(a)
      PROVE  Truth(key)' = Truth(key)
  <2>1. RolesOf(a)' = RolesOf(a)
    BY DEF RolesOf
  <2> QED
    BY <1>2, <2>1, TruthOf, TruthOfNext
<1>3. ASSUME NEW r \in Roles, key = Rows(r)
      PROVE  key \in Invalidated(had) \/ Truth(key)' = Truth(key)
  <2>1. CASE r \in had
    BY <1>3, <2>1 DEF Invalidated
  <2>2. CASE r \notin had
    <3>1. RowOf(r)' = RowOf(r)
      BY <1>3, <2>2 DEF RowOf
    <3> QED
      BY <1>3, <3>1, TruthOf, TruthOfNext
  <2> QED
    BY <2>1, <2>2
<1>4. ASSUME NEW a \in Admins, NEW r \in Roles, key = ViewKey(a, r)
      PROVE  key \in Invalidated(had) \/ Truth(key)' = Truth(key)
  <2>1. CASE had # {}
    BY <1>4, <2>1, KeysAreKeys DEF Invalidated
  <2>2. CASE had = {}
    <3>1. rows' = rows
      BY <2>2 DEF AccessTypeOK
    <3> QED
      BY <3>1, SameTruth
  <2> QED
    BY <2>1, <2>2
<1> QED
  BY <1>1, <1>2, <1>3, <1>4, KindOfKey

LEMMA OwesCleared ==
    ASSUME NEW step \in Step, NEW had \in SUBSET Roles, NEW before, NEW after,
           \A r \in Roles : after[r] = IF r \in had THEN 0 ELSE before[r]
    PROVE  Owes(step, before) \subseteq Owes(step, after) \cup Invalidated(had)
<1>1. CASE step.op = "clear"
  <2> DEFINE was == {r \in step.roles : before[r] > 0}
             is == {r \in step.roles : after[r] > 0}
  <2>1. step.roles \subseteq Roles
    BY <1>1, KindOfStep DEF ClearStep
  <2>2. was \subseteq is \cup had
    BY <2>1
  <2>3. Owes(step, before) = Invalidated(was) /\ Owes(step, after) = Invalidated(is)
    BY <1>1 DEF Owes
  <2> HIDE DEF was, is
  <2>4. Invalidated(was) \subseteq Invalidated(is) \cup Invalidated(had)
    BY <2>2 DEF Invalidated
  <2> QED
    BY <2>3, <2>4
<1>2. CASE step.op # "clear"
  BY <1>2 DEF Owes
<1> QED
  BY <1>1, <1>2

LEMMA ClearRowsStep ==
    ASSUME AccessInv, NEW s \in Workers, ClearRows(s)
    PROVE  AccessInv'
<1> DEFINE step == Task(s)
           had == WithRow(step.roles)
           told == ForgetAnswers(Invalidated(had))
           more == IF had = {} THEN <<>> ELSE <<told>>
           rest == more \o Tail(work[s])
<1>1. /\ work[s] # <<>> /\ step = Head(work[s]) /\ step.op = "clear"
      /\ work[s] \in Seq(Step) /\ Queue(work[s], MotherViews, Truths)
  BY DEF ClearRows, Now, Task, AccessInv, QueuesOK
<1>2. had \in SUBSET Roles
  <2>1. step \in Step
    BY <1>1
  <2> QED
    BY <1>1, <2>1, KindOfStep DEF ClearStep, WithRow
<1>3. /\ rows' = [r \in Roles |-> IF r \in had THEN 0 ELSE rows[r]]
      /\ work' = Overtaken(s, rest)
      /\ UNCHANGED <<here, role, holds, statusOpen, look, redis, events, stale>>
  BY DEF ClearRows
<1>4. Owes(step, rows) = Invalidated(had)
  BY <1>1 DEF Owes, WithRow
<1> HIDE DEF had
<1>5. told \in Step /\ told.op = "forget" /\ told.keys = Invalidated(had)
  BY <1>2, InvalidatedKeys DEF ForgetAnswers, ForgetStep, Step
<1>6. /\ more \in Seq(Step) /\ \A n \in DOMAIN more : more[n].op = "forget"
      /\ had # {} => 1 \in DOMAIN more /\ more[1] = told
  <2> HIDE DEF told
  <2>1. CASE had = {}
    BY <2>1, NoMore
  <2>2. CASE had # {}
    BY <1>5, <2>2
  <2> QED
    BY <2>1, <2>2
<1> HIDE DEF told, more
<1>7. /\ QueuesOK' /\ work'[s] = rest
      /\ \A q \in Workers : q # s => Owing(work'[q], rows) = Owing(work[q], rows)
  BY <1>1, <1>3, <1>6, OvertakenStep DEF AccessInv
<1>8. Invalidated(had) \subseteq Owing(rest, rows')
  <2>1. CASE had = {}
    BY <2>1 DEF Invalidated
  <2>2. CASE had # {}
    <3>1. Owes(told, rows') = Invalidated(had)
      BY <1>5 DEF Owes
    <3> QED
      BY <1>1, <1>6, <2>2, <3>1, OwingGoesOn
  <2> QED
    BY <2>1, <2>2
<1>9. \A q \in Workers : Owing(work'[q], rows) \subseteq Owing(work'[q], rows') \cup Invalidated(had)
  <2>1. \A q \in Workers : \A n \in DOMAIN work'[q] : work'[q][n] \in Step
    BY <1>7 DEF QueuesOK
  <2>2. \A r \in Roles : rows'[r] = IF r \in had THEN 0 ELSE rows[r]
    BY <1>3
  <2>3. \A q \in Workers : \A n \in DOMAIN work'[q] :
            Owes(work'[q][n], rows) \subseteq Owes(work'[q][n], rows') \cup Invalidated(had)
    BY <1>2, <2>1, <2>2, OwesCleared
  <2> QED
    BY <2>3 DEF Owing
<1>10. Invalidated(had) \subseteq AllOwed'
  BY <1>7, <1>8, OwedIsNext
<1>11. AllOwed \subseteq AllOwed'
  <2>1. Owing(work[s], rows) \subseteq Owes(step, rows) \cup Owing(rest, rows)
    BY <1>1, <1>6, OwingGoesOn
  <2>2. \A q \in Workers : Owing(work[q], rows) \subseteq Owing(work'[q], rows) \cup Invalidated(had)
    BY <1>4, <1>7, <2>1
  <2>3. \A q \in Workers : Owing(work[q], rows) \subseteq Owing(work'[q], rows') \cup Invalidated(had)
    BY <1>9, <2>2
  <2> QED
    BY <1>10, <2>3, OwedIs, OwedIsNext
<1>12. AccessTypeOK'
  <2>1. rows' \in [Roles -> 0 .. 2]
    BY <1>3 DEF AccessInv, AccessTypeOK
  <2> QED
    BY <1>3, <2>1 DEF AccessInv, AccessTypeOK, Remembered
<1>13. ASSUME NEW key \in Untrue'
       PROVE  key \in stale' \cup AllOwed'
  <2>1. key \in DOMAIN redis' /\ redis'[key] # Truth(key)'
    BY <1>13, UntrueNext
  <2>2. key \in Keys /\ key \in Remembered
    BY <1>3, <2>1 DEF AccessInv, AccessTypeOK, Remembered
  <2>3. CASE Truth(key)' = Truth(key)
    <3>1. key \in Untrue
      BY <1>3, <2>1, <2>2, <2>3 DEF Untrue
    <3> QED
      BY <1>3, <1>11, <3>1 DEF AccessInv, AnswersTrue
  <2>4. CASE key \in Invalidated(had)
    BY <1>10, <2>4
  <2>5. key \in Invalidated(had) \/ Truth(key)' = Truth(key)
    BY <1>2, <1>3, <2>2, WhatClearingChanges DEF AccessInv
  <2> QED
    BY <2>3, <2>4, <2>5
<1> QED
  BY <1>7, <1>12, <1>13 DEF AccessInv, AnswersTrue

(***************************************************************************)
(* Requests.                                                               *)
(***************************************************************************)
LEMMA QueueWithoutReads ==
    ASSUME NEW views, NEW truths, NEW q \in Seq(Step), \A n \in DOMAIN q : q[n].op \notin ReadOps,
           ForgetsAfter(q, views), ClearsAfter(q)
    PROVE  Queue(q, views, truths)
BY DEF Queue, Shape, ReadsLast, Fits, Current, ReadOps

LEMMA QueueWithoutChanges ==
    ASSUME NEW views, NEW truths, NEW q \in Seq(Step),
           \A n \in DOMAIN q :
                q[n].op \notin {"change", "clear"} /\ Fits(q[n]) /\ Current(q[n], truths)
    PROVE  Queue(q, views, truths)
BY DEF Queue, Shape, ReadsLast, ForgetsAfter, ClearsAfter

LEMMA ChangeThenForget ==
    ASSUME NEW views, NEW truths, NEW x \in Step, NEW y \in Step,
           x.op = "change", x.of # "gone", y.op = "forget", Promised(x, views) \subseteq y.keys
    PROVE  <<x, y>> \in Seq(Step) /\ Queue(<<x, y>>, views, truths)
<1> DEFINE q == <<x, y>>
<1>1. q \in Seq(Step) /\ DOMAIN q = {1, 2} /\ q[1] = x /\ q[2] = y
  OBVIOUS
<1> HIDE DEF q
<1>2. \A n \in DOMAIN q : q[n].op \notin ReadOps
  BY <1>1 DEF ReadOps
<1>3. ForgetsAfter(q, views)
  BY <1>1 DEF ForgetsAfter
<1>4. ClearsAfter(q)
  BY <1>1 DEF ClearsAfter
<1> QED
  BY <1>1, <1>2, <1>3, <1>4, QueueWithoutReads DEF q

LEMMA ChangeThenClear ==
    ASSUME NEW views, NEW truths, NEW x \in Step, NEW y \in Step,
           x.op = "change", x.of = "gone", y.op = "clear", x.id \in y.roles
    PROVE  <<x, y>> \in Seq(Step) /\ Queue(<<x, y>>, views, truths)
<1> DEFINE q == <<x, y>>
<1>1. q \in Seq(Step) /\ DOMAIN q = {1, 2} /\ q[1] = x /\ q[2] = y
  OBVIOUS
<1> HIDE DEF q
<1>2. \A n \in DOMAIN q : q[n].op \notin ReadOps
  BY <1>1 DEF ReadOps
<1>3. ForgetsAfter(q, views)
  BY <1>1 DEF ForgetsAfter, Promised
<1>4. ClearsAfter(q)
  BY <1>1 DEF ClearsAfter
<1> QED
  BY <1>1, <1>2, <1>3, <1>4, QueueWithoutReads DEF q

LEMMA ChangeThenForgetAndMore ==
    ASSUME NEW views, NEW truths, NEW x \in Step, NEW y \in Step, NEW z \in Step,
           x.op = "change", x.of # "gone", y.op = "forget", z.op \in {"forget", "load"},
           \A key \in Promised(x, views) : key \in y.keys \/ (z.op = "forget" /\ key \in z.keys)
    PROVE  <<x, y, z>> \in Seq(Step) /\ Queue(<<x, y, z>>, views, truths)
<1> DEFINE q == <<x, y, z>>
<1>1. q \in Seq(Step) /\ DOMAIN q = {1, 2, 3} /\ q[1] = x /\ q[2] = y /\ q[3] = z
  OBVIOUS
<1> HIDE DEF q
<1>2. \A n \in DOMAIN q : q[n].op \notin ReadOps
  BY <1>1 DEF ReadOps
<1>3. ForgetsAfter(q, views)
  BY <1>1 DEF ForgetsAfter
<1>4. ClearsAfter(q)
  BY <1>1 DEF ClearsAfter
<1> QED
  BY <1>1, <1>2, <1>3, <1>4, QueueWithoutReads DEF q

LEMMA ClearChangeForget ==
    ASSUME NEW views, NEW truths, NEW x \in Step, NEW y \in Step, NEW z \in Step,
           x.op = "clear", y.op = "change", y.of # "gone", z.op = "forget",
           Promised(y, views) \subseteq z.keys
    PROVE  <<x, y, z>> \in Seq(Step) /\ Queue(<<x, y, z>>, views, truths)
<1> DEFINE q == <<x, y, z>>
<1>1. q \in Seq(Step) /\ DOMAIN q = {1, 2, 3} /\ q[1] = x /\ q[2] = y /\ q[3] = z
  OBVIOUS
<1> HIDE DEF q
<1>2. \A n \in DOMAIN q : q[n].op \notin ReadOps
  BY <1>1 DEF ReadOps
<1>3. ForgetsAfter(q, views)
  BY <1>1 DEF ForgetsAfter
<1>4. ClearsAfter(q)
  BY <1>1 DEF ClearsAfter
<1> QED
  BY <1>1, <1>2, <1>3, <1>4, QueueWithoutReads DEF q

LEMMA StepsThatForget ==
    ASSUME NEW keys \in SUBSET Keys
    PROVE  /\ ForgetAnswers(keys) \in Step /\ ForgetAnswers(keys).op = "forget"
           /\ ForgetAnswers(keys).keys = keys
BY DEF ForgetAnswers, ForgetStep, Step

LEMMA StepsThatClear ==
    ASSUME NEW roles \in SUBSET Roles
    PROVE  /\ Clear(roles) \in Step /\ Clear(roles).op = "clear" /\ Clear(roles).roles = roles
BY DEF Clear, ClearStep, Step

LEMMA StepsThatChange ==
    ASSUME NEW of, NEW id, NEW to,
           \/ of = "admin" /\ id \in Admins /\ to \in SUBSET Roles
           \/ of = "grants" /\ id \in Roles /\ to \in SUBSET Permissions
           \/ of \in {"title", "closed", "gone"} /\ id \in Roles /\ to \in 0 .. 1
           \/ of = "rows" /\ id \in Roles /\ to \in 1 .. 2
           \/ of \in {"status", "look"} /\ id = 0 /\ to = 0
    PROVE  /\ Change(of, id, to) \in Step /\ Change(of, id, to).op = "change"
           /\ Change(of, id, to).of = of /\ Change(of, id, to).id = id
           /\ Change(of, id, to).told = Holders(id)
<1> DEFINE told == Holders(id)
           step == [op |-> "change", of |-> of, id |-> id, to |-> to, told |-> told]
<1>1. told \in SUBSET Admins
  BY DEF Holders
<1> HIDE DEF told
<1>2. step \in ChangeStep
  BY <1>1 DEF ChangeStep, AdminChange, GrantChange, RoleChange, RowsChange, StatusChange
<1>3. step.op = "change" /\ step.of = of /\ step.id = id /\ step.told = told
  OBVIOUS
<1>4. Change(of, id, to) = step
  BY Zenon DEF Change, told
<1> HIDE DEF step
<1> QED
  BY <1>2, <1>3, <1>4 DEF Step, told

LEMMA MotherViewsAreKeys == MotherViews \in SUBSET Keys
BY KeysAreKeys DEF MotherViews

LEMMA GetPermissionsStep ==
    ASSUME AccessInv, NEW s \in Workers, NEW a \in Admins, GetPermissions(s, a)
    PROVE  AccessInv'
<1> DEFINE todo == Fill(Perms(a))
<1>1. /\ todo \in Seq(Step)
      /\ \A n \in DOMAIN todo :
            todo[n].op \notin {"change", "clear"} /\ Fits(todo[n]) /\ Current(todo[n], Truths)
  BY KeysAreKeys, FillIs DEF AccessInv
<1>2. TakeUp(s, todo)
  BY DEF GetPermissions
<1> HIDE DEF todo
<1> QED
  BY <1>1, <1>2, QueueWithoutChanges, TakeUpStep

LEMMA UpdateRoleStep ==
    ASSUME AccessInv, NEW s \in Workers, NEW r \in Roles, NEW of, NEW new,
           \/ of = "grants" /\ new \in SUBSET Permissions
           \/ of \in {"title", "closed"} /\ new \in 0 .. 1,
           UpdateRole(s, r, of, new)
    PROVE  AccessInv'
<1> DEFINE x == Change(of, r, new)
           y == ForgetAnswers({Perms(a) : a \in Holders(r)})
<1>1. x \in Step /\ x.op = "change" /\ x.of = of /\ x.id = r /\ x.told = Holders(r)
  BY StepsThatChange
<1>2. {Perms(a) : a \in Holders(r)} \in SUBSET Keys
  BY KeysAreKeys DEF Holders
<1>3. y \in Step /\ y.op = "forget" /\ y.keys = {Perms(a) : a \in Holders(r)}
  BY <1>2, StepsThatForget
<1>4. TakeUp(s, <<x, y>>)
  BY DEF UpdateRole
<1> HIDE DEF x, y
<1>5. Promised(x, MotherViews) \subseteq y.keys /\ x.of # "gone"
  BY <1>1, <1>3 DEF Promised
<1>6. <<x, y>> \in Seq(Step) /\ Queue(<<x, y>>, MotherViews, Truths)
  BY <1>1, <1>3, <1>5, ChangeThenForget
<1> QED
  BY <1>4, <1>6, TakeUpStep

LEMMA DeleteRoleStep ==
    ASSUME AccessInv, NEW s \in Workers, NEW r \in Roles, DeleteRole(s, r)
    PROVE  AccessInv'
<1> DEFINE x == Change("gone", r, 0)
           y == Clear({r})
<1>1. x \in Step /\ x.op = "change" /\ x.of = "gone" /\ x.id = r
  BY StepsThatChange
<1>2. y \in Step /\ y.op = "clear" /\ y.roles = {r}
  BY StepsThatClear
<1>3. TakeUp(s, <<x, y>>)
  BY DEF DeleteRole
<1> HIDE DEF x, y
<1>4. <<x, y>> \in Seq(Step) /\ Queue(<<x, y>>, MotherViews, Truths)
  BY <1>1, <1>2, ChangeThenClear
<1> QED
  BY <1>3, <1>4, TakeUpStep

LEMMA UpdateAdminStep ==
    ASSUME AccessInv, NEW s \in Workers, NEW a \in Admins, NEW new \in SUBSET Roles,
           UpdateAdmin(s, a, new)
    PROVE  AccessInv'
<1> DEFINE x == Change("admin", a, new)
           y == ForgetAnswers({Names(a), Perms(a)})
           z == Load(Perms(a))
<1>1. x \in Step /\ x.op = "change" /\ x.of = "admin" /\ x.id = a
  BY StepsThatChange
<1>2. y \in Step /\ y.op = "forget" /\ y.keys = {Names(a), Perms(a)}
  BY KeysAreKeys, StepsThatForget
<1>3. z \in Step /\ z.op = "load"
  BY DEF Load, LoadStep, Step
<1>4. TakeUp(s, <<x, y, z>>)
  BY DEF UpdateAdmin
<1> HIDE DEF x, y, z
<1>5. \A key \in Promised(x, MotherViews) :
        key \in y.keys \/ (z.op = "forget" /\ key \in z.keys)
  BY <1>1, <1>2 DEF Promised
<1>6. <<x, y, z>> \in Seq(Step) /\ Queue(<<x, y, z>>, MotherViews, Truths)
  BY <1>1, <1>2, <1>3, <1>5, ChangeThenForgetAndMore
<1> QED
  BY <1>4, <1>6, TakeUpStep

LEMMA AssignPermissionsStep ==
    ASSUME AccessInv, NEW s \in Workers, NEW r \in Roles, NEW value \in 1 .. 2,
           AssignPermissions(s, r, value)
    PROVE  AccessInv'
<1>1. PICK first \in {{Rows(r)}, AllViews} :
        TakeUp(s, <<Change("rows", r, value), ForgetAnswers(first),
                    ForgetAnswers(Invalidated({r}) \ first)>>)
  BY DEF AssignPermissions
<1> DEFINE x == Change("rows", r, value)
           y == ForgetAnswers(first)
           z == ForgetAnswers(Invalidated({r}) \ first)
<1>2. x \in Step /\ x.op = "change" /\ x.of = "rows" /\ x.id = r
  BY StepsThatChange
<1>3. first \in SUBSET Keys /\ Invalidated({r}) \ first \in SUBSET Keys
  BY KeysAreKeys, InvalidatedKeys
<1>4. y \in Step /\ y.op = "forget" /\ y.keys = first
  BY <1>3, StepsThatForget
<1>5. z \in Step /\ z.op = "forget" /\ z.keys = Invalidated({r}) \ first
  BY <1>3, StepsThatForget
<1>6. TakeUp(s, <<x, y, z>>)
  BY <1>1
<1> HIDE DEF x, y, z
<1>7. \A key \in Promised(x, MotherViews) :
        key \in y.keys \/ (z.op = "forget" /\ key \in z.keys)
  <2>1. Promised(x, MotherViews) = Invalidated({r})
    BY <1>2 DEF Promised
  <2> QED
    BY <1>4, <1>5, <2>1
<1>8. <<x, y, z>> \in Seq(Step) /\ Queue(<<x, y, z>>, MotherViews, Truths)
  BY <1>2, <1>4, <1>5, <1>7, ChangeThenForgetAndMore
<1> QED
  BY <1>6, <1>8, TakeUpStep

LEMMA ChangeStatusStep ==
    ASSUME AccessInv, NEW s \in Workers, ChangeStatus(s)
    PROVE  AccessInv'
<1> DEFINE x == Change("look", 0, 0)
           y == ForgetAnswers(MotherViews)
<1>1. x \in Step /\ x.op = "change" /\ x.of = "look"
  BY StepsThatChange
<1>2. y \in Step /\ y.op = "forget" /\ y.keys = MotherViews
  BY MotherViewsAreKeys, StepsThatForget
<1>3. TakeUp(s, <<x, y>>)
  BY DEF ChangeStatus
<1> HIDE DEF x, y
<1>4. Promised(x, MotherViews) \subseteq y.keys
  BY <1>1, <1>2 DEF Promised
<1>5. <<x, y>> \in Seq(Step) /\ Queue(<<x, y>>, MotherViews, Truths)
  BY <1>1, <1>2, <1>4, ChangeThenForget
<1> QED
  BY <1>3, <1>5, TakeUpStep

LEMMA RemoveStatusStep ==
    ASSUME AccessInv, NEW s \in Workers, RemoveStatus(s)
    PROVE  AccessInv'
<1> DEFINE x == Clear(Roles)
           y == Change("status", 0, 0)
           z == ForgetAnswers(MotherViews)
<1>1. x \in Step /\ x.op = "clear"
  BY StepsThatClear
<1>2. y \in Step /\ y.op = "change" /\ y.of = "status"
  BY StepsThatChange
<1>3. z \in Step /\ z.op = "forget" /\ z.keys = MotherViews
  BY MotherViewsAreKeys, StepsThatForget
<1>4. TakeUp(s, <<x, y, z>>)
  BY DEF RemoveStatus
<1> HIDE DEF x, y, z
<1>5. Promised(y, MotherViews) \subseteq z.keys
  BY <1>2, <1>3 DEF Promised
<1>6. <<x, y, z>> \in Seq(Step) /\ Queue(<<x, y, z>>, MotherViews, Truths)
  BY <1>1, <1>2, <1>3, <1>5, ClearChangeForget
<1> QED
  BY <1>4, <1>6, TakeUpStep

LEMMA FindViewableStep ==
    ASSUME AccessInv, NEW s \in Workers, NEW a \in Admins, FindViewable(s, a)
    PROVE  AccessInv'
<1> DEFINE names == Recall(Names(a))
           basis == IF Names(a) \in Untrue THEN "overtaken" ELSE "current"
           first == Fill(Names(a))
           load == LoadRows(a, names, basis)
           todo == first \o (IF names = {} THEN <<>> ELSE <<load>>)
<1>1. TakeUp(s, todo)
  BY DEF FindViewable
<1>2. Names(a) \in Keys
  BY KeysAreKeys
<1>3. names \in SUBSET (Roles \X (0 .. 1)) /\ (Names(a) \notin Untrue => names = Truths[Names(a)])
  BY <1>2, RecallIs, AnswersOf DEF AccessInv, Truths
<1>4. /\ first \in Seq(Step)
      /\ \A n \in DOMAIN first :
            first[n].op = "store" /\ Fits(first[n]) /\ Current(first[n], Truths)
  BY <1>2, FillIs DEF AccessInv
<1>5. basis \in Bases /\ (basis = "current" => names = Truths[Names(a)])
  BY <1>3 DEF Bases
<1> HIDE DEF names, basis, first
<1>6. ASSUME names # {}
      PROVE  load \in Step /\ load.op = "rows" /\ Fits(load) /\ Current(load, Truths)
  <2>1. names \in NameSets
    BY <1>3, <1>6 DEF NameSets
  <2>2. /\ load.op = "rows" /\ load.admin = a /\ load.names = names /\ load.basis = basis
        /\ load \in RowsStep
    BY <1>5, <2>1 DEF LoadRows, RowsStep
  <2> HIDE DEF load
  <2> QED
    BY <1>5, <2>2 DEF Fits, Current, Step
<1>7. /\ todo \in Seq(Step)
      /\ \A n \in DOMAIN todo :
            todo[n].op \notin {"change", "clear"} /\ Fits(todo[n]) /\ Current(todo[n], Truths)
  <2>1. CASE names = {}
    <3>1. todo = first
      BY <1>4, <2>1, ConcatEmptySeq
    <3> HIDE DEF todo
    <3> QED
      BY <1>4, <3>1
  <2>2. CASE names # {}
    <3> DEFINE last == <<load>>
    <3>1. todo = first \o last
      BY <2>2
    <3>2. load \in Step /\ load.op = "rows" /\ Fits(load) /\ Current(load, Truths)
      BY <1>6, <2>2
    <3> HIDE DEF todo, load
    <3>3. last \in Seq(Step) /\ Len(last) = 1 /\ last[1] = load
      BY <3>2
    <3> HIDE DEF last
    <3>4. /\ first \o last \in Seq(Step) /\ Len(first \o last) = Len(first) + 1
          /\ \A i \in 1 .. Len(first) + 1 :
                (first \o last)[i] = IF i <= Len(first) THEN first[i] ELSE last[i - Len(first)]
      BY <1>4, <3>3, ConcatProperties
    <3>5. Len(first) \in Nat /\ DOMAIN first = 1 .. Len(first)
      BY <1>4
    <3>6. ASSUME NEW n \in DOMAIN todo
          PROVE  todo[n] = load \/ (n \in DOMAIN first /\ todo[n] = first[n])
      <4>1. n \in 1 .. Len(first) + 1
        BY <3>1, <3>4
      <4>2. CASE n <= Len(first)
        BY <3>1, <3>4, <3>5, <4>1, <4>2
      <4>3. CASE ~(n <= Len(first))
        <5>1. n = Len(first) + 1 /\ n - Len(first) = 1
          BY <3>5, <4>1, <4>3
        <5> QED
          BY <3>1, <3>3, <3>4, <4>1, <4>3, <5>1
      <4> QED
        BY <4>2, <4>3
    <3> QED
      BY <1>4, <3>1, <3>2, <3>4, <3>6
  <2> QED
    BY <2>1, <2>2
<1> HIDE DEF todo
<1> QED
  BY <1>1, <1>7, QueueWithoutChanges, TakeUpStep

(***************************************************************************)
(* The theorems.                                                           *)
(***************************************************************************)
LEMMA AccessInitInv ==
    ASSUME AccessInit
    PROVE  AccessInv
<1>1. /\ role \in [Roles -> RoleRow] /\ rows \in [Roles -> 0 .. 2]
      /\ statusOpen \in BOOLEAN /\ look \in 0 .. 1 /\ here \in {"mother", "child"}
      /\ events \in 0 .. MaxEvents /\ stale = {}
  BY StartRolesAssumption, StartAbilitiesAssumption, MaxEventsAssumption DEF AccessInit, RoleRow
<1>2. holds \in [Admins -> SUBSET Roles]
  <2>1. Min(Roles) \in Roles
    BY LeastIn, RolesAssumption
  <2> QED
    BY <2>1 DEF AccessInit
<1>3. PICK known \in {{}, Keys} : redis = [key \in known |-> Truth(key)]
  BY DEF AccessInit
<1>4. \A key \in Keys : Truth(key) \in Answers(key)
  BY <1>1, <1>2, DatabaseFits DEF DatabaseOK, RoleRow
<1>5. /\ Remembered \subseteq Keys
      /\ \A key \in Remembered : redis[key] = Truth(key) /\ redis[key] \in Answers(key)
  BY <1>3, <1>4 DEF Remembered
<1>6. AccessTypeOK
  BY <1>1, <1>2, <1>5 DEF AccessTypeOK, RoleRow
<1>7. QueuesOK
  BY NoMore, NothingLeft DEF QueuesOK, AccessInit
<1>8. AnswersTrue
  BY <1>5 DEF AnswersTrue, Untrue
<1> QED
  BY <1>6, <1>7, <1>8 DEF AccessInv

LEMMA WorkOnStep ==
    ASSUME AccessInv, NEW s \in Workers, WorkOn(s)
    PROVE  AccessInv'
<1>1. CASE CommitChange(s)
  BY <1>1, CommitChangeStep
<1>2. CASE ClearRows(s)
  BY <1>2, ClearRowsStep
<1>3. CASE ForgetKeys(s)
  BY <1>3, ForgetKeysStep
<1>4. CASE Reload(s)
  BY <1>4, ReloadStep
<1>5. CASE ReadRows(s)
  BY <1>5, ReadRowsStep
<1>6. CASE ReadStatuses(s)
  BY <1>6, ReadStatusesStep
<1>7. CASE StoreKeys(s)
  BY <1>7, StoreKeysStep
<1>8. CASE AnswersStay(s)
  BY <1>8, AnswersStayStep
<1> QED
  BY <1>1, <1>2, <1>3, <1>4, <1>5, <1>6, <1>7, <1>8 DEF WorkOn

LEMMA AccessNextInv ==
    ASSUME AccessInv, AccessNext
    PROVE  AccessInv'
<1>0. ReadyWorkers \subseteq Workers
  BY DEF ReadyWorkers
<1>1. CASE \E s \in Workers : WorkOn(s)
  BY <1>1, WorkOnStep
<1>2. CASE \E s \in Workers : WorkerStops(s)
  BY <1>2, WorkerStopsStep
<1>3. CASE \E key \in Remembered : AnswerExpires(key)
  BY <1>3, AnswerExpiresStep
<1>4. CASE \E s \in ReadyWorkers, a \in Admins : GetPermissions(s, a)
  BY <1>0, <1>4, GetPermissionsStep
<1>5. CASE \E s \in ReadyWorkers, a \in Admins : FindViewable(s, a)
  BY <1>0, <1>5, FindViewableStep
<1>6. CASE \E s \in ReadyWorkers, r \in Roles :
            \/ \E new \in SUBSET Permissions : UpdateRole(s, r, "grants", new)
            \/ UpdateRole(s, r, "title", 1)
            \/ UpdateRole(s, r, "closed", 0)
  <2>1. PICK s \in Workers, r \in Roles :
            \/ \E new \in SUBSET Permissions : UpdateRole(s, r, "grants", new)
            \/ UpdateRole(s, r, "title", 1)
            \/ UpdateRole(s, r, "closed", 0)
    BY <1>0, <1>6
  <2>2. CASE \E new \in SUBSET Permissions : UpdateRole(s, r, "grants", new)
    BY <2>2, UpdateRoleStep
  <2>3. CASE UpdateRole(s, r, "title", 1)
    <3>1. "title" \in {"title", "closed"} /\ 1 \in 0 .. 1
      OBVIOUS
    <3> QED
      BY <2>3, <3>1, UpdateRoleStep
  <2>4. CASE UpdateRole(s, r, "closed", 0)
    <3>1. "closed" \in {"title", "closed"} /\ 0 \in 0 .. 1
      OBVIOUS
    <3> QED
      BY <2>4, <3>1, UpdateRoleStep
  <2> QED
    BY <2>1, <2>2, <2>3, <2>4
<1>7. CASE \E s \in ReadyWorkers, r \in Roles : DeleteRole(s, r)
  BY <1>0, <1>7, DeleteRoleStep
<1>8. CASE \E s \in ReadyWorkers, a \in Admins, new \in SUBSET Roles : UpdateAdmin(s, a, new)
  BY <1>0, <1>8, UpdateAdminStep
<1>9. CASE \E s \in ReadyWorkers, r \in Roles, value \in 1 .. 2 : AssignPermissions(s, r, value)
  BY <1>0, <1>9, AssignPermissionsStep
<1>10. CASE \E s \in ReadyWorkers : ChangeStatus(s)
  BY <1>0, <1>10, ChangeStatusStep
<1>11. CASE \E s \in ReadyWorkers : RemoveStatus(s)
  BY <1>0, <1>11, RemoveStatusStep
<1> QED
  BY <1>1, <1>2, <1>3, <1>4, <1>5, <1>6, <1>7, <1>8, <1>9, <1>10, <1>11 DEF AccessNext

LEMMA AccessStutters ==
    ASSUME AccessInv, UNCHANGED accessVars
    PROVE  AccessInv'
<1>1. /\ UNCHANGED <<here, role, holds, rows, statusOpen, look, redis, events, stale>>
      /\ work' = work
  BY DEF accessVars
<1>2. Truths' = Truths /\ MotherViews' = MotherViews
  BY <1>1, SameTruth
<1>3. QueuesOK'
  BY <1>1, <1>2 DEF AccessInv, QueuesOK
<1>4. AllOwed' = AllOwed
  BY <1>1, OwedIs, OwedIsNext
<1> QED
  BY <1>1, <1>3, <1>4, NothingElse

LEMMA AccessInvariant == AccessSpec => []AccessInv
<1>1. AccessInit => AccessInv
  BY AccessInitInv
<1>2. AccessInv /\ [AccessNext]_accessVars => AccessInv'
  BY AccessNextInv, AccessStutters
<1> QED
  BY <1>1, <1>2, PTL DEF AccessSpec

\* What redis holds are answers of the kinds its readers expect.
THEOREM AccessTypeCorrect == AccessSpec => []AccessTypeOK
<1>1. AccessInv => AccessTypeOK
  BY DEF AccessInv
<1> QED
  BY <1>1, AccessInvariant, PTL

\* Redis says what the database says of permissions, roles, rows and lists, or a
\* handler under way will see to it, but for the keys nobody sees to.
THEOREM AnswersTrueHolds == AccessSpec => []AnswersTrue
<1>1. AccessInv => AnswersTrue
  BY DEF AccessInv
<1> QED
  BY <1>1, AccessInvariant, PTL

-----------------------------------------------------------------------------
(***************************************************************************)
(* The current values of the history.                                      *)
(***************************************************************************)
UsedRow == [state : {"Open", "Deleted"}, value : Values]
NoteRow == [state : {NoValue, "Open", "Deleted"}, value : Values \cup {NoValue}]

\* What handlers of each kind write.
WholeRow == [state : {"Open"}, value : Values]
NewValue == [value : Values]
Deletion == [state : {"Deleted"}]

RowJob == [step : {"checked", "written", "recorded", "committed"}, kind : {"row"},
           of : {"create", "update", "delete", "account"}, id : Entities,
           before : UsedRow \cup {Unused}, set : WholeRow \cup NewValue \cup Deletion,
           misled : BOOLEAN, note : NoteRow]
LinkJob == [step : {"checked", "written", "recorded"}, kind : {"links"},
            of : {"replace", "assign", "remove"}, id : {NoValue},
            before : SUBSET Linkable, set : SUBSET Linkable, misled : BOOLEAN,
            gone : SUBSET Linkable, last : Linkable \cup {NoValue}, touched : BOOLEAN]

\* What a script may fill in.
FieldValue(item) == item[3] \in IF item[2] = "state" THEN {"Open", "Deleted"} ELSE Values

HistoryTyped ==
    /\ entity \in [Entities -> UsedRow \cup {Unused}]
    /\ recorded \in [Entities -> NoteRow]
    /\ \A e \in Entities : entity[e] = Unused => recorded[e] = NothingRecorded
    /\ links \in SUBSET Linkable /\ latest \in Linkable \cup {NoValue}
    /\ writer \in [Writers -> {AtRest} \cup RowJob \cup LinkJob]
    /\ \A item \in backlog :
        item[1] \in Entities /\ item[2] \in Fields /\ FieldValue(item) /\ entity[item[1]] # Unused
    /\ writes \in 0 .. MaxWrites

\* What a handler of a row writes is of its kind.
Suits(job) ==
    /\ job.of = "create" => job.set \in WholeRow
    /\ job.of \in {"update", "account"} => job.set \in NewValue
    /\ job.of = "delete" => job.set \in Deletion
    /\ job.step \in {"written", "recorded"} => job.of # "account"
    /\ job.step = "committed" => job.of = "account"

\* What Record notes of a handler.
Noting(job) ==
    [field \in Fields |->
        IF field \in Noted(job) THEN IF job.of = "delete" THEN NoValue ELSE job.set[field]
        ELSE recorded[job.id][field]]

\* A handler that has written holds the row as it read it, unless it was
\* misled; one that has recorded notes what it found recorded.
Reads(job) ==
    /\ job.of = "create" <=> entity[job.id] = Unused
    /\ job.step \in {"written", "recorded"} /\ ~job.misled =>
        \A field \in DOMAIN job.set : job.before[field] = entity[job.id][field]
    /\ job.step = "recorded" => job.note = Noting(job)

RowsRead == \A w \in Writers : writer[w] \in RowJob => Suits(writer[w]) /\ Reads(writer[w])

\* Two handlers of one row: none creates it, and one at most holds it.
Holds(job) == job.step \in {"written", "recorded"}
Apart(one, other) ==
    one.id = other.id =>
        one.of # "create" /\ other.of # "create" /\ ~(Holds(one) /\ Holds(other))
RowsApart ==
    \A w, q \in Writers : w # q /\ writer[w] \in RowJob /\ writer[q] \in RowJob =>
        Apart(writer[w], writer[q])

Follows(row, note, field) ==
    \/ note[field] = row[field]
    \/ field = "state" /\ row.state = "Deleted" /\ note.state = NoValue

\* What a handler of links that has written takes away and gives.
LinksFit(job) ==
    /\ Holds(job) /\ job.of = "assign" => job.gone = {}
    /\ Holds(job) /\ job.of = "remove" =>
        job.gone \subseteq job.before /\ job.set = {} /\ ~job.misled
    /\ Holds(job) /\ job.of = "replace" /\ ~job.misled => job.gone = job.before
    /\ job.of = "remove" => job.set = {} /\ ~job.misled
    /\ job.step = "recorded" /\ job.touched => job.last \in job.set \cup {NoValue}
    /\ job.step = "recorded" /\ ~job.touched /\ ~job.misled =>
        latest \notin job.gone \ job.set

LinksRead == \A w \in Writers : writer[w] \in LinkJob => LinksFit(writer[w])

\* What one of them adds no other takes away.
LinksApart ==
    \A w, q \in Writers :
        /\ w # q /\ writer[w] \in LinkJob /\ writer[q] \in LinkJob
        /\ Holds(writer[w]) /\ Holds(writer[q])
        => writer[w].set \cap writer[q].gone = {}

RowsInv == RowsRead /\ RowsApart /\ FieldsFollowRows
LinksInv == LinksRead /\ LinksApart /\ LatestIsLinked
HistoryInv == HistoryTyped /\ RowsInv /\ LinksInv

-----------------------------------------------------------------------------
LEMMA KindsOfJobs ==
    /\ \A job \in RowJob : job.kind = "row" /\ job # AtRest /\ job \notin LinkJob
    /\ \A job \in LinkJob : job.kind = "links" /\ job # AtRest /\ job \notin RowJob
    /\ AtRest \notin RowJob /\ AtRest \notin LinkJob
<1>1. \A job \in RowJob : job.kind = "row"
  BY DEF RowJob
<1>2. \A job \in LinkJob : job.kind = "links"
  BY DEF LinkJob
<1>3. \A job \in RowJob : DOMAIN job =
        {"step", "kind", "of", "id", "before", "set", "misled", "note"}
  BY DEF RowJob
<1>4. \A job \in LinkJob : DOMAIN job =
        {"step", "kind", "of", "id", "before", "set", "misled", "gone", "last", "touched"}
  BY DEF LinkJob
<1>5. DOMAIN AtRest = {"step"}
  BY DEF AtRest
<1> QED
  BY <1>1, <1>2, <1>3, <1>4, <1>5

\* Who is at job, by what he works on.
LEMMA KindOfJob ==
    ASSUME HistoryTyped, NEW w \in Writers
    PROVE  /\ writer[w].step = "checked" /\ writer[w].kind = "row" => writer[w] \in RowJob
           /\ Holding(w) /\ writer[w].kind = "row" => writer[w] \in RowJob
           /\ writer[w].step = "committed" => writer[w] \in RowJob
           /\ writer[w].step = "checked" /\ writer[w].kind = "links" => writer[w] \in LinkJob
           /\ Holding(w) /\ writer[w].kind = "links" => writer[w] \in LinkJob
<1>1. writer[w] \in {AtRest} \cup RowJob \cup LinkJob
  BY DEF HistoryTyped
<1>2. AtRest.step = "rest"
  BY DEF AtRest
<1>3. \A job \in LinkJob : job.step # "committed"
  BY DEF LinkJob
<1> QED
  BY <1>1, <1>2, <1>3, KindsOfJobs DEF Holding

\* What the sets of fields are.
LEMMA SetsOf ==
    ASSUME NEW job \in RowJob, Suits(job)
    PROVE  /\ DOMAIN job.set \subseteq Fields
           /\ job.of = "create" => DOMAIN job.set = Fields /\ job.set.state = "Open"
                                    /\ job.set.value \in Values
           /\ job.of \in {"update", "account"} =>
                DOMAIN job.set = {"value"} /\ job.set.value \in Values
           /\ job.of = "delete" => DOMAIN job.set = {"state"} /\ job.set.state = "Deleted"
<1>1. job.of \in {"create", "update", "delete", "account"}
  BY DEF RowJob
<1>2. \A r \in WholeRow : DOMAIN r = Fields /\ r.state = "Open" /\ r.value \in Values
  BY DEF WholeRow, Fields
<1>3. \A r \in NewValue : DOMAIN r = {"value"} /\ r.value \in Values
  BY DEF NewValue
<1>4. \A r \in Deletion : DOMAIN r = {"state"} /\ r.state = "Deleted"
  BY DEF Deletion
<1> QED
  BY <1>1, <1>2, <1>3, <1>4 DEF Suits, Fields

LEMMA UsedRows ==
    /\ Unused \notin UsedRow
    /\ \A r \in UsedRow : DOMAIN r = Fields
    /\ \A r \in UsedRow \cup {Unused}, field \in Fields : r = [f \in Fields |-> r[f]]
  BY DEF UsedRow, Unused, Fields

\* The row after it was written.
LEMMA MergedIs ==
    ASSUME HistoryTyped, NEW job \in RowJob, Suits(job),
           job.of = "create" \/ entity[job.id] # Unused
    PROVE  /\ Merged(job.id, job.set) \in UsedRow
           /\ \A field \in Fields : Merged(job.id, job.set)[field] =
                IF field \in DOMAIN job.set THEN job.set[field] ELSE entity[job.id][field]
<1> DEFINE row == Merged(job.id, job.set)
<1>1. job.id \in Entities /\ job.of \in {"create", "update", "delete", "account"}
  BY DEF RowJob
<1>2. \A field \in Fields : row[field] =
        IF field \in DOMAIN job.set THEN job.set[field] ELSE entity[job.id][field]
  BY DEF Merged
<1>3. row.state \in {"Open", "Deleted"} /\ row.value \in Values
  <2>1. entity[job.id] # Unused =>
            entity[job.id].state \in {"Open", "Deleted"} /\ entity[job.id].value \in Values
    BY <1>1 DEF HistoryTyped, UsedRow
  <2> QED
    BY <1>1, <1>2, <2>1, SetsOf DEF Fields
<1>4. row = [state |-> row.state, value |-> row.value]
  BY DEF Merged, Fields
<1> QED
  BY <1>2, <1>3, <1>4 DEF UsedRow

LEMMA NotingFits ==
    ASSUME HistoryTyped, NEW job \in RowJob, Suits(job)
    PROVE  Noting(job) \in NoteRow /\ Noted(job) \subseteq DOMAIN job.set
<1>1. job.id \in Entities /\ job.of \in {"create", "update", "delete", "account"}
  BY DEF RowJob
<1>2. Noted(job) \subseteq DOMAIN job.set
  BY DEF Noted
<1>3. recorded[job.id].state \in {NoValue, "Open", "Deleted"}
      /\ recorded[job.id].value \in Values \cup {NoValue}
  BY <1>1 DEF HistoryTyped, NoteRow
<1>4. \A field \in DOMAIN job.set :
        /\ field = "state" => job.set[field] \in {"Open", "Deleted"}
        /\ field = "value" => job.set[field] \in Values
  BY <1>1, SetsOf
<1> DEFINE note == Noting(job)
<1>5. note = [state |-> note.state, value |-> note.value]
  BY DEF Noting, Fields
<1>6. note.state \in {NoValue, "Open", "Deleted"} /\ note.value \in Values \cup {NoValue}
  <2>1. note.state = IF "state" \in Noted(job)
                     THEN IF job.of = "delete" THEN NoValue ELSE job.set["state"]
                     ELSE recorded[job.id]["state"]
    BY DEF Noting, Fields
  <2>2. note.value = IF "value" \in Noted(job)
                     THEN IF job.of = "delete" THEN NoValue ELSE job.set["value"]
                     ELSE recorded[job.id]["value"]
    BY DEF Noting, Fields
  <2> QED
    BY <1>2, <1>3, <1>4, <2>1, <2>2
<1> QED
  BY <1>2, <1>5, <1>6 DEF NoteRow

-----------------------------------------------------------------------------
(***************************************************************************)
(* What a step leaves alone.                                               *)
(***************************************************************************)
LEMMA FieldsAreNoLinks == \A e, field : field \in Fields => <<e, field>> # OfLinks
  BY DEF Fields, OfLinks

LEMMA ReadsStill ==
    ASSUME NEW job, entity' = entity, recorded' = recorded
    PROVE  Reads(job)' <=> Reads(job)
  BY DEF Reads, Noting

LEMMA RowsKeep ==
    ASSUME RowsInv, UNCHANGED <<entity, recorded>>,
           \A w \in Writers : writer'[w] \in RowJob => writer'[w] = writer[w],
           \A e \in Entities, field \in Fields :
              <<e, field>> \in surprised => <<e, field>> \in surprised'
    PROVE  RowsInv'
<1>1. RowsRead'
  <2>1. ASSUME NEW w \in Writers, writer'[w] \in RowJob
        PROVE  Suits(writer'[w]) /\ Reads(writer[w])' /\ writer'[w] = writer[w]
    BY <2>1, ReadsStill DEF RowsInv, RowsRead
  <2> QED
    BY <2>1 DEF RowsRead, Reads, Noting
<1>2. RowsApart'
  BY DEF RowsInv, RowsApart
<1>3. FieldsFollowRows'
  BY DEF RowsInv, FieldsFollowRows
<1> QED
  BY <1>1, <1>2, <1>3 DEF RowsInv

LEMMA LinksKeep ==
    ASSUME LinksInv, UNCHANGED <<links, latest>>,
           \A w \in Writers : writer'[w] \in LinkJob => writer'[w] = writer[w],
           OfLinks \in surprised => OfLinks \in surprised'
    PROVE  LinksInv'
<1>1. LinksRead'
  BY DEF LinksInv, LinksRead, LinksFit
<1>2. LinksApart'
  BY DEF LinksInv, LinksApart
<1>3. LatestIsLinked'
  BY DEF LinksInv, LatestIsLinked
<1> QED
  BY <1>1, <1>2, <1>3 DEF LinksInv

\* One handler goes on.
LEMMA OneGoes ==
    ASSUME HistoryTyped, NEW w \in Writers, NEW job \in {AtRest} \cup RowJob \cup LinkJob,
           writer' = [writer EXCEPT ![w] = job]
    PROVE  /\ writer' \in [Writers -> {AtRest} \cup RowJob \cup LinkJob]
           /\ writer'[w] = job
           /\ \A q \in Writers : q # w => writer'[q] = writer[q]
  BY DEF HistoryTyped

\* A handler of a row goes on, and changes nothing but what it knows.
LEMMA RowGoes ==
    ASSUME HistoryInv, NEW w \in Writers, NEW job \in RowJob,
           writer' = [writer EXCEPT ![w] = job],
           UNCHANGED <<entity, links, recorded, latest, surprised>>,
           backlog' = backlog, writes' \in 0 .. MaxWrites,
           Suits(job), Reads(job),
           \A q \in Writers : q # w /\ writer[q] \in RowJob => Apart(job, writer[q])
    PROVE  HistoryInv'
<1>1. /\ writer' \in [Writers -> {AtRest} \cup RowJob \cup LinkJob]
      /\ writer'[w] = job
      /\ \A q \in Writers : q # w => writer'[q] = writer[q]
  BY OneGoes DEF HistoryInv
<1>2. HistoryTyped'
  BY <1>1 DEF HistoryInv, HistoryTyped
<1>3. LinksInv'
  BY <1>1, KindsOfJobs, LinksKeep DEF HistoryInv
<1>4. RowsRead'
  <2>1. ASSUME NEW q \in Writers, writer'[q] \in RowJob
        PROVE  Suits(writer'[q]) /\ Reads(writer'[q])
    BY <1>1, <2>1 DEF HistoryInv, RowsInv, RowsRead
  <2> QED
    BY <2>1 DEF RowsRead, Reads, Noting
<1>5. RowsApart'
  <2>1. ASSUME NEW q \in Writers, NEW p \in Writers, q # p,
               writer'[q] \in RowJob, writer'[p] \in RowJob
        PROVE  Apart(writer'[q], writer'[p])
    <3>1. CASE q # w /\ p # w
      BY <1>1, <2>1, <3>1 DEF HistoryInv, RowsInv, RowsApart
    <3>2. CASE q = w
      BY <1>1, <2>1, <3>2
    <3>3. CASE p = w
      BY <1>1, <2>1, <3>3 DEF Apart
    <3> QED
      BY <3>1, <3>2, <3>3
  <2> QED
    BY <2>1 DEF RowsApart
<1>6. FieldsFollowRows'
  BY DEF HistoryInv, RowsInv, FieldsFollowRows
<1> QED
  BY <1>2, <1>3, <1>4, <1>5, <1>6 DEF HistoryInv, RowsInv

\* A handler gives up.
LEMMA GiveUpStep ==
    ASSUME HistoryInv, NEW w \in Writers, GiveUp(w)
    PROVE  HistoryInv'
<1>1. /\ writer' \in [Writers -> {AtRest} \cup RowJob \cup LinkJob]
      /\ writer'[w] = AtRest
      /\ \A q \in Writers : q # w => writer'[q] = writer[q]
  BY OneGoes DEF HistoryInv, GiveUp
<1>2. HistoryTyped'
  BY <1>1 DEF HistoryInv, HistoryTyped, GiveUp
<1>3. LinksInv' /\ RowsInv'
  BY <1>1, KindsOfJobs, LinksKeep, RowsKeep DEF HistoryInv, GiveUp
<1> QED
  BY <1>2, <1>3 DEF HistoryInv

-----------------------------------------------------------------------------
(***************************************************************************)
(* Handlers of rows.                                                       *)
(***************************************************************************)
LEMMA RowWorkIs ==
    ASSUME HistoryTyped, NEW of \in {"create", "update", "delete", "account"}, NEW e \in Entities,
           NEW set \in WholeRow \cup NewValue \cup Deletion
    PROVE  LET job == RowWork(of, e, entity[e], set)
           IN  job \in RowJob /\ job.step = "checked" /\ job.of = of /\ job.id = e /\ job.set = set
<1>1. NothingRecorded \in NoteRow
  BY DEF NothingRecorded, NoteRow, Fields
<1>2. entity[e] \in UsedRow \cup {Unused}
  BY DEF HistoryTyped
<1> QED
  BY <1>1, <1>2 DEF RowWork, RowJob

LEMMA EnterRow ==
    ASSUME HistoryInv, NEW w \in Writers, NEW job \in RowJob, Enter(w, job),
           job.step = "checked", Suits(job), job.of = "create" <=> entity[job.id] = Unused,
           job.of = "create" =>
              \A q \in Writers : writer[q] # AtRest => writer[q].id # job.id
    PROVE  HistoryInv'
<1>1. writes' \in 0 .. MaxWrites
  BY MaxWritesAssumption DEF Enter, HistoryInv, HistoryTyped
<1>2. Reads(job)
  BY DEF Reads
<1>3. ASSUME NEW q \in Writers, q # w, writer[q] \in RowJob
      PROVE  Apart(job, writer[q])
  <2>1. writer[q].of = "create" <=> entity[writer[q].id] = Unused
    BY <1>3 DEF HistoryInv, RowsInv, RowsRead, Reads
  <2>2. writer[q] # AtRest
    BY <1>3, KindsOfJobs
  <2> QED
    BY <2>1, <2>2 DEF Apart, Holds
<1> QED
  BY <1>1, <1>2, <1>3, RowGoes DEF Enter

LEMMA CreateEntityStep ==
    ASSUME HistoryInv, NEW w \in Writers, NEW e \in Entities, NEW v \in Values,
           CreateEntity(w, e, v)
    PROVE  HistoryInv'
<1> DEFINE set == [state |-> "Open", value |-> v]
           job == RowWork("create", e, entity[e], set)
<1>1. set \in WholeRow
  BY DEF WholeRow
<1>2. /\ job \in RowJob /\ job.step = "checked" /\ job.of = "create"
      /\ job.id = e /\ job.set = set
  BY <1>1, RowWorkIs DEF HistoryInv
<1>3. Suits(job)
  BY <1>1, <1>2 DEF Suits
<1>4. Enter(w, job) /\ entity[e] = Unused
  BY DEF CreateEntity
<1> HIDE DEF job
<1> QED
  BY <1>2, <1>3, <1>4, EnterRow DEF CreateEntity

LEMMA UpdateEntityStep ==
    ASSUME HistoryInv, NEW w \in Writers, NEW e \in Entities, NEW v \in Values,
           NEW of \in {"update", "account"}, entity[e].state # "absent",
           Enter(w, RowWork(of, e, entity[e], [value |-> v]))
    PROVE  HistoryInv'
<1> DEFINE set == [value |-> v]
           job == RowWork(of, e, entity[e], set)
<1>1. set \in NewValue /\ entity[e] # Unused
  BY DEF NewValue, Unused
<1>2. /\ job \in RowJob /\ job.step = "checked" /\ job.of = of
      /\ job.id = e /\ job.set = set
  BY <1>1, RowWorkIs DEF HistoryInv
<1>3. Suits(job)
  BY <1>1, <1>2 DEF Suits
<1>4. Enter(w, job)
  OBVIOUS
<1> HIDE DEF job, set
<1> QED
  BY <1>1, <1>2, <1>3, <1>4, EnterRow

LEMMA DeleteEntityStep ==
    ASSUME HistoryInv, NEW w \in Writers, NEW e \in Entities, DeleteEntity(w, e)
    PROVE  HistoryInv'
<1> DEFINE set == [state |-> "Deleted"]
           job == RowWork("delete", e, entity[e], set)
<1>1. set \in Deletion /\ entity[e] # Unused
  BY DEF Deletion, Unused, DeleteEntity
<1>2. /\ job \in RowJob /\ job.step = "checked" /\ job.of = "delete"
      /\ job.id = e /\ job.set = set
  BY <1>1, RowWorkIs DEF HistoryInv
<1>3. Suits(job)
  BY <1>1, <1>2 DEF Suits
<1>4. Enter(w, job)
  BY DEF DeleteEntity
<1> HIDE DEF job, set
<1> QED
  BY <1>1, <1>2, <1>3, <1>4, EnterRow

\* A row in whose handler's hands nobody else is, is written.
LEMMA WriteRowStep ==
    ASSUME HistoryInv, NEW w \in Writers, WriteRow(w)
    PROVE  HistoryInv'
<1> DEFINE job == writer[w]
           outdated == \E field \in DOMAIN job.set : job.before[field] # entity[job.id][field]
           done == [job EXCEPT !.step = "written", !.misled = outdated]
           apart == [job EXCEPT !.step = "committed", !.misled = outdated]
<1>1. job \in RowJob /\ job.step = "checked" /\ job.id \in Entities
  BY KindOfJob DEF WriteRow, HistoryInv, RowJob
<1>2. Suits(job) /\ Reads(job)
  BY <1>1 DEF HistoryInv, RowsInv, RowsRead
<1>3. ASSUME NEW q \in Writers, q # w, writer[q] \in RowJob
      PROVE  Apart(job, writer[q]) /\ (writer[q].id = job.id => ~Holds(writer[q]))
  BY <1>1, <1>3, KindsOfJobs
     DEF HistoryInv, RowsInv, RowsApart, WriteRow, HoldsRow, Holding, Holds
<1>4. CASE job.of # "account"
  <2>1. /\ done \in RowJob /\ done.step = "written" /\ done.misled = outdated
        /\ done.of = job.of /\ done.id = job.id /\ done.set = job.set
        /\ done.before = job.before
    BY <1>1 DEF RowJob
  <2>2. /\ writer' = [writer EXCEPT ![w] = done]
        /\ UNCHANGED <<entity, links, recorded, latest, surprised, backlog, writes>>
    BY <1>4 DEF WriteRow, Becomes
  <2>3. Suits(done)
    BY <1>2, <1>4, <2>1 DEF Suits
  <2>4. Reads(done)
    BY <1>2, <2>1 DEF Reads
  <2>5. \A q \in Writers : q # w /\ writer[q] \in RowJob => Apart(done, writer[q])
    BY <1>3, <2>1 DEF Apart
  <2>6. writes' \in 0 .. MaxWrites
    BY <2>2 DEF HistoryInv, HistoryTyped
  <2> HIDE DEF done
  <2> QED
    BY <2>1, <2>2, <2>3, <2>4, <2>5, <2>6, RowGoes
<1>5. CASE job.of = "account"
  <2> DEFINE row == Merged(job.id, job.set)
  <2>1. /\ apart \in RowJob /\ apart.step = "committed" /\ apart.of = job.of
        /\ apart.id = job.id /\ apart.set = job.set
    BY <1>1 DEF RowJob
  <2>2. /\ writer' = [writer EXCEPT ![w] = apart]
        /\ entity' = [entity EXCEPT ![job.id] = row]
        /\ surprised' = surprised \cup ({job.id} \X DOMAIN job.set)
        /\ UNCHANGED <<links, recorded, latest, backlog, writes>>
    BY <1>5 DEF WriteRow, Becomes
  <2>3. entity[job.id] # Unused
    BY <1>2, <1>5 DEF Reads
  <2>4. /\ row \in UsedRow
        /\ \A field \in Fields \ DOMAIN job.set : row[field] = entity[job.id][field]
        /\ DOMAIN job.set = {"value"}
    BY <1>1, <1>2, <1>5, <2>3, MergedIs, SetsOf DEF HistoryInv
  <2> HIDE DEF row, apart
  <2>5. /\ writer' \in [Writers -> {AtRest} \cup RowJob \cup LinkJob]
        /\ writer'[w] = apart
        /\ \A q \in Writers : q # w => writer'[q] = writer[q]
    BY <2>1, <2>2, OneGoes DEF HistoryInv
  <2>6. /\ entity' \in [Entities -> UsedRow \cup {Unused}]
        /\ \A e \in Entities : entity'[e] = Unused => entity[e] = Unused
        /\ \A e \in Entities : e # job.id => entity'[e] = entity[e]
        /\ entity'[job.id] = row /\ row # Unused
    BY <1>1, <2>2, <2>4, UsedRows DEF HistoryInv, HistoryTyped
  <2>7. HistoryTyped'
    <3>1. \A item \in backlog : entity'[item[1]] # Unused
      BY <2>6 DEF HistoryInv, HistoryTyped
    <3> QED
      BY <2>2, <2>5, <2>6, <3>1 DEF HistoryInv, HistoryTyped, FieldValue
  <2>8. LinksInv'
    BY <2>1, <2>2, <2>5, KindsOfJobs, LinksKeep DEF HistoryInv
  <2>9. RowsRead'
    <3>1. ASSUME NEW q \in Writers, writer'[q] \in RowJob
          PROVE  (Suits(writer[q]) /\ Reads(writer[q]))'
      <4>1. CASE q = w
        <5>1. writer'[q] = apart
          BY <2>5, <4>1
        <5> QED
          BY <1>2, <1>5, <2>1, <2>6, <5>1 DEF Suits, Reads
      <4>2. CASE q # w
        <5>1. writer'[q] = writer[q] /\ Suits(writer[q]) /\ Reads(writer[q])
          BY <2>5, <3>1, <4>2 DEF HistoryInv, RowsInv, RowsRead
        <5>2. writer[q].id \in Entities /\ writer[q] \in RowJob
          BY <3>1, <5>1 DEF RowJob
        <5>3. writer[q].id = job.id => writer[q].of # "create" /\ ~Holds(writer[q])
          BY <1>3, <4>2, <5>2 DEF Apart
        <5>4. CASE writer[q].id = job.id
          BY <2>6, <5>1, <5>3, <5>4 DEF Suits, Reads, Holds
        <5>5. CASE writer[q].id # job.id
          BY <2>2, <2>6, <5>1, <5>2, <5>5 DEF Suits, Reads, Noting, Noted
        <5> QED
          BY <5>4, <5>5
      <4> QED
        BY <4>1, <4>2
    <3> QED
      BY <3>1 DEF RowsRead
  <2>10. RowsApart'
    <3>1. \A q \in Writers : q # w /\ writer[q] \in RowJob => Apart(apart, writer[q]) /\ Apart(writer[q], apart)
      BY <1>3, <2>1 DEF Apart, Holds
    <3> QED
      BY <2>5, <3>1 DEF RowsApart, HistoryInv, RowsInv
  <2>11. FieldsFollowRows'
    <3>1. ASSUME NEW e \in Entities, NEW field \in Fields,
                 entity'[e] # Unused, <<e, field>> \notin surprised'
          PROVE  Follows(entity'[e], recorded[e], field)
      <4>1. <<e, field>> \notin surprised
        BY <2>2, <3>1
      <4>2. CASE e # job.id
        BY <2>6, <3>1, <4>1, <4>2 DEF HistoryInv, RowsInv, FieldsFollowRows, Follows
      <4>3. CASE e = job.id
        <5>1. field = "state"
          BY <2>2, <2>4, <3>1, <4>3 DEF Fields
        <5>2. Follows(entity[e], recorded[e], field)
          BY <2>3, <4>1, <4>3 DEF HistoryInv, RowsInv, FieldsFollowRows, Follows
        <5>3. entity'[e]["state"] = entity[e]["state"]
          BY <2>4, <2>6, <4>3 DEF Fields
        <5> QED
          BY <5>1, <5>2, <5>3 DEF Follows
      <4> QED
        BY <4>2, <4>3
    <3> QED
      BY <2>2, <3>1 DEF FieldsFollowRows, Follows
  <2> QED
    BY <2>7, <2>8, <2>9, <2>10, <2>11 DEF HistoryInv, RowsInv
<1> QED
  BY <1>4, <1>5

\* What was found recorded is noted, and the difference.
LEMMA RecordStep ==
    ASSUME HistoryInv, NEW w \in Writers, Record(w)
    PROVE  HistoryInv'
<1> DEFINE job == writer[w]
           done == [job EXCEPT !.step = "recorded", !.note = Noting(job)]
<1>1. job \in RowJob /\ job.step = "written" /\ job.id \in Entities
  BY KindOfJob DEF Record, HistoryInv, RowJob, Holding
<1>2. Suits(job) /\ Reads(job)
  BY <1>1 DEF HistoryInv, RowsInv, RowsRead
<1>3. Noting(job) \in NoteRow
  BY <1>1, <1>2, NotingFits DEF HistoryInv
<1>4. /\ done \in RowJob /\ done.step = "recorded" /\ done.misled = job.misled
      /\ done.of = job.of /\ done.id = job.id /\ done.set = job.set
      /\ done.before = job.before /\ done.note = Noting(job)
  BY <1>1, <1>3 DEF RowJob
<1>5. /\ writer' = [writer EXCEPT ![w] = done]
      /\ UNCHANGED <<entity, links, recorded, latest, surprised, backlog, writes>>
  BY DEF Record, Becomes, Noting
<1>6. Suits(done)
  BY <1>1, <1>2, <1>4 DEF Suits
<1>7. Reads(done)
  BY <1>1, <1>2, <1>4 DEF Reads, Noting, Noted
<1>8. ASSUME NEW q \in Writers, q # w, writer[q] \in RowJob
      PROVE  Apart(done, writer[q])
  BY <1>1, <1>4, <1>8 DEF Apart, Holds, HistoryInv, RowsInv, RowsApart
<1>9. writes' \in 0 .. MaxWrites
  BY <1>5 DEF HistoryInv, HistoryTyped
<1> HIDE DEF done
<1> QED
  BY <1>4, <1>5, <1>6, <1>7, <1>8, <1>9, RowGoes

\* What others know of a row is not touched by what happens to another one, and
\* of a row that a handler had in hand they know nothing yet.
LEMMA OthersRead ==
    ASSUME HistoryInv, NEW q \in Writers, writer[q] \in RowJob, NEW e \in Entities,
           \A x \in Entities : x # e => entity'[x] = entity[x] /\ recorded'[x] = recorded[x],
           writer[q].id = e => writer[q].step \notin {"written", "recorded"},
           writer[q].id = e => (writer[q].of = "create" <=> entity'[e] = Unused),
           writer'[q] = writer[q]
    PROVE  (Suits(writer[q]) /\ Reads(writer[q]))'
<1>1. Suits(writer[q]) /\ Reads(writer[q]) /\ writer[q].id \in Entities
  BY DEF HistoryInv, RowsInv, RowsRead, RowJob
<1>2. CASE writer[q].id = e
  BY <1>1, <1>2 DEF Suits, Reads
<1>3. CASE writer[q].id # e
  BY <1>1, <1>3 DEF Suits, Reads, Noting, Noted
<1> QED
  BY <1>2, <1>3

\* The row and what is recorded of it change together.
LEMMA CommitRowStep ==
    ASSUME HistoryInv, NEW w \in Writers, CommitRow(w)
    PROVE  HistoryInv'
<1> DEFINE job == writer[w]
           row == Merged(job.id, job.set)
<1>1. job \in RowJob /\ job.step = "recorded" /\ job.id \in Entities
  BY KindOfJob DEF CommitRow, HistoryInv, RowJob, Holding
<1>2. Suits(job) /\ Reads(job)
  BY <1>1 DEF HistoryInv, RowsInv, RowsRead
<1>3. job.note = Noting(job) /\ Noting(job) \in NoteRow /\ Noted(job) \subseteq DOMAIN job.set
  BY <1>1, <1>2, NotingFits DEF HistoryInv, Reads
<1>4. /\ row \in UsedRow /\ row # Unused
      /\ \A field \in Fields : row[field] =
            IF field \in DOMAIN job.set THEN job.set[field] ELSE entity[job.id][field]
  BY <1>1, <1>2, MergedIs, UsedRows DEF HistoryInv, Reads
<1>5. /\ writer' = [writer EXCEPT ![w] = AtRest]
      /\ entity' = [entity EXCEPT ![job.id] = row]
      /\ recorded' = [recorded EXCEPT ![job.id] = job.note]
      /\ surprised' = IF job.misled
            THEN surprised \cup ({job.id} \X (DOMAIN job.set \ Noted(job)))
            ELSE surprised \ ({job.id} \X Noted(job))
      /\ UNCHANGED <<links, latest, backlog, writes>>
  BY DEF CommitRow
<1>6. DOMAIN job.set \subseteq Fields
  BY <1>1, <1>2, SetsOf
<1> HIDE DEF row
<1>7. /\ writer' \in [Writers -> {AtRest} \cup RowJob \cup LinkJob]
      /\ writer'[w] = AtRest
      /\ \A q \in Writers : q # w => writer'[q] = writer[q]
  BY <1>5, OneGoes DEF HistoryInv
<1>8. /\ entity' \in [Entities -> UsedRow \cup {Unused}] /\ recorded' \in [Entities -> NoteRow]
      /\ \A e \in Entities : e # job.id => entity'[e] = entity[e] /\ recorded'[e] = recorded[e]
      /\ entity'[job.id] = row /\ recorded'[job.id] = Noting(job)
  BY <1>1, <1>3, <1>4, <1>5 DEF HistoryInv, HistoryTyped
<1>9. HistoryTyped'
  <2>1. \A e \in Entities : entity'[e] = Unused => recorded'[e] = NothingRecorded
    BY <1>4, <1>8 DEF HistoryInv, HistoryTyped
  <2>2. \A item \in backlog : entity'[item[1]] # Unused
    BY <1>4, <1>8 DEF HistoryInv, HistoryTyped
  <2> QED
    BY <1>5, <1>7, <1>8, <2>1, <2>2 DEF HistoryInv, HistoryTyped, FieldValue
<1>10. LinksInv'
  <2>1. OfLinks \in surprised => OfLinks \in surprised'
    BY <1>3, <1>5, <1>6, FieldsAreNoLinks
  <2> QED
    BY <1>5, <1>7, <2>1, KindsOfJobs, LinksKeep DEF HistoryInv
<1>11. RowsRead'
  <2>1. ASSUME NEW q \in Writers, writer'[q] \in RowJob
        PROVE  (Suits(writer[q]) /\ Reads(writer[q]))'
    <3>1. q # w /\ writer'[q] = writer[q] /\ writer[q] \in RowJob
      BY <1>7, <2>1, KindsOfJobs
    <3>2. Apart(writer[q], job)
      BY <1>1, <3>1 DEF HistoryInv, RowsInv, RowsApart
    <3>3. writer[q].id = job.id =>
            writer[q].of # "create" /\ writer[q].step \notin {"written", "recorded"}
      BY <1>1, <3>2 DEF Apart, Holds
    <3> QED
      BY <1>1, <1>4, <1>8, <3>1, <3>3, OthersRead
  <2> QED
    BY <2>1 DEF RowsRead
<1>12. RowsApart'
  BY <1>7, KindsOfJobs DEF HistoryInv, RowsInv, RowsApart
<1>13. FieldsFollowRows'
  <2>1. ASSUME NEW e \in Entities, NEW field \in Fields,
               entity'[e] # Unused, <<e, field>> \notin surprised'
        PROVE  Follows(entity'[e], recorded'[e], field)
    <3>1. CASE e # job.id
      <4>1. <<e, field>> \notin surprised
        BY <1>5, <2>1, <3>1
      <4> QED
        BY <1>8, <2>1, <3>1, <4>1 DEF HistoryInv, RowsInv, FieldsFollowRows, Follows
    <3>2. CASE e = job.id /\ field \in Noted(job)
      <4>1. field \in DOMAIN job.set
        BY <1>3, <3>2
      <4>2. row[field] = job.set[field]
        BY <1>4, <4>1
      <4>3. CASE job.of = "delete"
        <5>1. field = "state" /\ row.state = "Deleted"
          BY <1>1, <1>2, <4>1, <4>2, <4>3, SetsOf
        <5>2. Noting(job).state = NoValue
          BY <3>2, <4>3, <5>1 DEF Noting
        <5> QED
          BY <1>8, <3>2, <5>1, <5>2 DEF Follows
      <4>4. CASE job.of # "delete"
        <5>1. Noting(job)[field] = job.set[field]
          BY <3>2, <4>4 DEF Noting
        <5> QED
          BY <1>8, <3>2, <4>2, <5>1 DEF Follows
      <4> QED
        BY <4>3, <4>4
    <3>3. CASE e = job.id /\ field \notin Noted(job)
      <4>1. Noting(job)[field] = recorded[e][field] /\ <<e, field>> \notin surprised
        BY <1>5, <2>1, <3>3 DEF Noting
      <4>2. job.of # "create"
        BY <1>1, <1>2, <3>3, SetsOf DEF Noted
      <4>3. entity[e] # Unused
        BY <1>2, <3>3, <4>2 DEF Reads
      <4>4. Follows(entity[e], recorded[e], field)
        BY <4>1, <4>3 DEF HistoryInv, RowsInv, FieldsFollowRows, Follows
      <4>5. CASE field \in DOMAIN job.set
        <5>1. job.of = "update" /\ job.before[field] = job.set[field]
          BY <3>3, <4>5 DEF Noted
        <5>2. ~job.misled
          BY <1>5, <2>1, <3>3, <4>5
        <5>3. entity[e][field] = job.before[field]
          BY <1>1, <1>2, <3>3, <4>5, <5>2 DEF Reads
        <5>4. row[field] = entity[e][field]
          BY <1>4, <4>5, <5>1, <5>3
        <5>5. field = "value"
          BY <1>1, <1>2, <4>5, <5>1, SetsOf
        <5> QED
          BY <1>8, <3>3, <4>1, <4>4, <5>4, <5>5 DEF Follows
      <4>6. CASE field \notin DOMAIN job.set
        <5>1. row[field] = entity[e][field]
          BY <1>4, <3>3, <4>6
        <5> QED
          BY <1>8, <3>3, <4>1, <4>4, <5>1 DEF Follows
      <4> QED
        BY <4>5, <4>6
    <3> QED
      BY <3>1, <3>2, <3>3
  <2> QED
    BY <2>1 DEF FieldsFollowRows, Follows
<1> QED
  BY <1>9, <1>10, <1>11, <1>12, <1>13 DEF HistoryInv, RowsInv

\* What is recorded of a row changes, but no row; while no handler has recorded
\* something of it.  A field that surprises nobody is as it is in the row, or
\* was.
RecordsOf(e, note) ==
    /\ entity[e] # Unused
    /\ recorded' = [recorded EXCEPT ![e] = note]
    /\ UNCHANGED <<entity, links, latest, writes>> /\ backlog' \subseteq backlog
    /\ \A q \in Writers :
        ~HoldsRecord(q, e) /\ (writer'[q] = writer[q] \/ writer'[q] = AtRest)
    /\ writer' \in [Writers -> {AtRest} \cup RowJob \cup LinkJob]
    /\ OfLinks \in surprised => OfLinks \in surprised'
    /\ \A x \in Entities, field \in Fields : <<x, field>> \in surprised \ surprised' => x = e
    /\ \A field \in Fields : <<e, field>> \notin surprised' =>
        \/ note[field] = entity[e][field]
        \/ (note[field] = recorded[e][field] /\ <<e, field>> \notin surprised)

LEMMA RecordedAlone ==
    ASSUME HistoryInv, NEW e \in Entities, NEW note \in NoteRow, RecordsOf(e, note)
    PROVE  HistoryInv'
<1> USE DEF RecordsOf
<1>1. /\ recorded' \in [Entities -> NoteRow] /\ recorded'[e] = note
      /\ \A x \in Entities : x # e => recorded'[x] = recorded[x]
  BY DEF HistoryInv, HistoryTyped
<1>2. HistoryTyped'
  BY <1>1 DEF HistoryInv, HistoryTyped, FieldValue
<1>3. LinksInv'
  BY KindsOfJobs, LinksKeep DEF HistoryInv
<1>4. RowsRead'
  <2>1. ASSUME NEW q \in Writers, writer'[q] \in RowJob
        PROVE  (Suits(writer[q]) /\ Reads(writer[q]))'
    <3>1. writer'[q] = writer[q] /\ writer[q] \in RowJob
      BY <2>1, KindsOfJobs
    <3>2. Suits(writer[q]) /\ Reads(writer[q]) /\ writer[q].id \in Entities
      BY <3>1 DEF HistoryInv, RowsInv, RowsRead, RowJob
    <3>3. writer[q].id = e => writer[q].step # "recorded"
      BY <3>1, KindsOfJobs DEF HoldsRecord
    <3> QED
      BY <1>1, <3>1, <3>2, <3>3 DEF Suits, Reads, Noting, Noted
  <2> QED
    BY <2>1 DEF RowsRead
<1>5. RowsApart'
  BY KindsOfJobs DEF HistoryInv, RowsInv, RowsApart
<1>6. FieldsFollowRows'
  <2>1. ASSUME NEW x \in Entities, NEW field \in Fields,
               entity[x] # Unused, <<x, field>> \notin surprised'
        PROVE  Follows(entity[x], recorded'[x], field)
    <3>1. CASE x # e
      <4>1. <<x, field>> \notin surprised
        BY <2>1, <3>1
      <4> QED
        BY <1>1, <2>1, <3>1, <4>1 DEF HistoryInv, RowsInv, FieldsFollowRows, Follows
    <3>2. CASE x = e
      <4>1. CASE note[field] = entity[e][field]
        BY <1>1, <3>2, <4>1 DEF Follows
      <4>2. CASE note[field] = recorded[e][field] /\ <<e, field>> \notin surprised
        <5>1. Follows(entity[e], recorded[e], field)
          BY <4>2 DEF HistoryInv, RowsInv, FieldsFollowRows, Follows
        <5> QED
          BY <1>1, <3>2, <4>2, <5>1 DEF Follows
      <4> QED
        BY <2>1, <3>2, <4>1, <4>2
    <3> QED
      BY <3>1, <3>2
  <2> QED
    BY <2>1 DEF FieldsFollowRows, Follows
<1> QED
  BY <1>2, <1>3, <1>4, <1>5, <1>6 DEF HistoryInv, RowsInv

LEMMA OpenRecordStep ==
    ASSUME HistoryInv, NEW w \in Writers, OpenRecord(w)
    PROVE  HistoryInv'
<1> DEFINE job == writer[w]
           noted == {field \in DOMAIN job.set : job.before[field] # job.set[field]}
           note == [field \in Fields |->
                        IF field \in noted THEN job.set[field] ELSE recorded[job.id][field]]
<1>1. job \in RowJob /\ job.step = "committed" /\ job.id \in Entities
  BY KindOfJob DEF OpenRecord, HistoryInv, RowJob
<1>2. Suits(job) /\ Reads(job)
  BY <1>1 DEF HistoryInv, RowsInv, RowsRead
<1>3. job.of = "account" /\ entity[job.id] # Unused
  BY <1>2, <1>1 DEF Suits, Reads
<1>4. DOMAIN job.set = {"value"} /\ job.set.value \in Values
  BY <1>1, <1>2, <1>3, SetsOf
<1>5. recorded[job.id] \in NoteRow
  BY <1>1 DEF HistoryInv, HistoryTyped
<1>6. note \in NoteRow
  <2>1. note = [state |-> note.state, value |-> note.value]
    BY DEF Fields
  <2>2. note.state = recorded[job.id].state
    BY <1>4 DEF Fields
  <2>3. note.value \in Values \cup {NoValue}
    BY <1>4, <1>5 DEF Fields, NoteRow
  <2> QED
    BY <1>5, <2>1, <2>2, <2>3 DEF NoteRow
<1>7. /\ recorded' = [recorded EXCEPT ![job.id] = note]
      /\ surprised' = (surprised \ ({job.id} \X noted)) \cup
            {<<job.id, field>> : field \in {x \in noted : job.set[x] # entity[job.id][x]}}
      /\ writer' = [writer EXCEPT ![w] = AtRest]
      /\ UNCHANGED <<entity, links, latest, backlog, writes>>
      /\ \A q \in Writers : ~HoldsRecord(q, job.id)
  BY <1>1 DEF OpenRecord, HistoryInv, HistoryTyped
<1>8. /\ writer' \in [Writers -> {AtRest} \cup RowJob \cup LinkJob]
      /\ writer'[w] = AtRest
      /\ \A q \in Writers : q # w => writer'[q] = writer[q]
  BY <1>7, OneGoes DEF HistoryInv
<1>9. noted \subseteq Fields
  BY <1>4 DEF Fields
<1>10. OfLinks \in surprised => OfLinks \in surprised'
  BY <1>7, <1>9, FieldsAreNoLinks
<1>11. \A x \in Entities, field \in Fields : <<x, field>> \in surprised \ surprised' => x = job.id
  BY <1>7
<1>12. \A field \in Fields : <<job.id, field>> \notin surprised' =>
            \/ note[field] = entity[job.id][field]
            \/ (note[field] = recorded[job.id][field] /\ <<job.id, field>> \notin surprised)
  BY <1>7
<1> HIDE DEF note, noted
<1>13. \A q \in Writers : writer'[q] = writer[q] \/ writer'[q] = AtRest
  BY <1>8
<1> HIDE DEF job
<1>14. RecordsOf(job.id, note)
  BY <1>3, <1>7, <1>8, <1>10, <1>11, <1>12, <1>13 DEF RecordsOf
<1> QED
  BY <1>1, <1>6, <1>14, RecordedAlone

LEMMA FillInStep ==
    ASSUME HistoryInv, NEW item \in backlog, FillIn(item)
    PROVE  HistoryInv'
<1> DEFINE e == item[1]
           field == item[2]
           note == [recorded[e] EXCEPT ![field] = item[3]]
<1>1. e \in Entities /\ field \in Fields /\ FieldValue(item) /\ entity[e] # Unused
  BY DEF HistoryInv, HistoryTyped
<1>2. recorded[e] \in NoteRow
  BY <1>1 DEF HistoryInv, HistoryTyped
<1>3. note \in NoteRow
  BY <1>1, <1>2 DEF NoteRow, Fields, FieldValue
<1>4. \A f \in Fields : note[f] = IF f = field THEN item[3] ELSE recorded[e][f]
  BY <1>1, <1>2 DEF NoteRow, Fields
<1>5. /\ recorded' = [recorded EXCEPT ![e] = note]
      /\ surprised' = IF entity[e][field] = item[3] THEN surprised \ {<<e, field>>}
                      ELSE surprised \cup {<<e, field>>}
      /\ UNCHANGED <<entity, links, latest, writer, writes>> /\ backlog' \subseteq backlog
      /\ \A q \in Writers : ~HoldsRecord(q, e)
  BY <1>1 DEF FillIn, HistoryInv, HistoryTyped
<1> HIDE DEF note
<1>6. OfLinks \in surprised => OfLinks \in surprised'
  BY <1>1, <1>5, FieldsAreNoLinks
<1>7. \A x \in Entities, f \in Fields : <<x, f>> \in surprised \ surprised' => x = e
  BY <1>5
<1>8. \A f \in Fields : <<e, f>> \notin surprised' =>
        \/ note[f] = entity[e][f]
        \/ (note[f] = recorded[e][f] /\ <<e, f>> \notin surprised)
  BY <1>4, <1>5
<1>9. writer' \in [Writers -> {AtRest} \cup RowJob \cup LinkJob]
  BY <1>5 DEF HistoryInv, HistoryTyped
<1>10. \A q \in Writers : writer'[q] = writer[q] \/ writer'[q] = AtRest
  BY <1>5
<1> HIDE DEF e, field
<1>11. RecordsOf(e, note)
  BY <1>1, <1>5, <1>6, <1>7, <1>8, <1>9, <1>10 DEF RecordsOf
<1> QED
  BY <1>1, <1>3, <1>11, RecordedAlone

\* The script reads, or stops.
LEMMA ScriptSteps ==
    ASSUME HistoryInv, ScriptStops \/ \E field \in Fields : ReadField(field)
    PROVE  HistoryInv'
<1>1. /\ UNCHANGED <<entity, links, recorded, latest, writer, surprised>>
      /\ writes' \in 0 .. MaxWrites
  BY MaxWritesAssumption DEF ScriptStops, ReadField, HistoryInv, HistoryTyped
<1>2. RowsInv' /\ LinksInv'
  BY <1>1, RowsKeep, LinksKeep DEF HistoryInv
<1>3. ASSUME NEW item \in backlog'
      PROVE  item[1] \in Entities /\ item[2] \in Fields /\ FieldValue(item) /\ entity[item[1]] # Unused
  <2>1. PICK field \in Fields : ReadField(field)
    BY <1>3 DEF ScriptStops
  <2>2. PICK e \in {x \in Entities : entity[x] # Unused} : item = <<e, field, entity[e][field]>>
    BY <1>3, <2>1 DEF ReadField
  <2>3. entity[e] \in UsedRow
    BY DEF HistoryInv, HistoryTyped
  <2>4. FieldValue(item)
    BY <2>2, <2>3 DEF FieldValue, UsedRow, Fields
  <2> QED
    BY <2>2, <2>4
<1>4. HistoryTyped'
  BY <1>1, <1>3 DEF HistoryInv, HistoryTyped, FieldValue
<1> QED
  BY <1>2, <1>4 DEF HistoryInv

-----------------------------------------------------------------------------
(***************************************************************************)
(* Handlers of links.                                                      *)
(***************************************************************************)
\* A handler of links goes on, and changes nothing but what it knows.
LEMMA LinksGo ==
    ASSUME HistoryInv, NEW w \in Writers, NEW job \in LinkJob,
           writer' = [writer EXCEPT ![w] = job],
           UNCHANGED <<entity, links, recorded, latest, surprised, backlog>>,
           writes' \in 0 .. MaxWrites, LinksFit(job),
           \A q \in Writers : q # w /\ writer[q] \in LinkJob /\ Holds(writer[q]) /\ Holds(job) =>
              writer[q].set \cap job.gone = {} /\ job.set \cap writer[q].gone = {}
    PROVE  HistoryInv'
<1>1. /\ writer' \in [Writers -> {AtRest} \cup RowJob \cup LinkJob]
      /\ writer'[w] = job
      /\ \A q \in Writers : q # w => writer'[q] = writer[q]
  BY OneGoes DEF HistoryInv
<1>2. HistoryTyped'
  BY <1>1 DEF HistoryInv, HistoryTyped, FieldValue
<1>3. RowsInv'
  BY <1>1, KindsOfJobs, RowsKeep DEF HistoryInv
<1>4. LinksRead'
  <2>1. ASSUME NEW q \in Writers, writer'[q] \in LinkJob
        PROVE  LinksFit(writer[q])'
    <3>1. CASE q = w
      BY <1>1, <3>1 DEF LinksFit, Holds
    <3>2. CASE q # w
      BY <1>1, <2>1, <3>2 DEF LinksFit, Holds, HistoryInv, LinksInv, LinksRead
    <3> QED
      BY <3>1, <3>2
  <2> QED
    BY <2>1 DEF LinksRead
<1>5. LinksApart'
  <2>1. ASSUME NEW p \in Writers, NEW q \in Writers, p # q,
               writer'[p] \in LinkJob, writer'[q] \in LinkJob,
               Holds(writer'[p]), Holds(writer'[q])
        PROVE  writer'[p].set \cap writer'[q].gone = {}
    <3>1. CASE p = w
      BY <1>1, <2>1, <3>1
    <3>2. CASE q = w
      BY <1>1, <2>1, <3>2
    <3>3. CASE p # w /\ q # w
      BY <1>1, <2>1, <3>3 DEF HistoryInv, LinksInv, LinksApart
    <3> QED
      BY <3>1, <3>2, <3>3
  <2> QED
    BY <2>1 DEF LinksApart, Holds
<1>6. LatestIsLinked'
  BY DEF HistoryInv, LinksInv, LatestIsLinked
<1> QED
  BY <1>2, <1>3, <1>4, <1>5, <1>6 DEF HistoryInv, LinksInv

LEMMA EnterLinks ==
    ASSUME HistoryInv, NEW w \in Writers, NEW of \in {"replace", "assign", "remove"},
           NEW before \in SUBSET Linkable, NEW set \in SUBSET Linkable,
           of = "remove" => set = {}, Enter(w, LinkWork(of, before, set))
    PROVE  HistoryInv'
<1> DEFINE job == LinkWork(of, before, set)
<1>1. /\ job \in LinkJob /\ job.step = "checked" /\ job.of = of /\ job.set = set
      /\ job.misled = FALSE
  BY DEF LinkWork, LinkJob
<1>2. writes' \in 0 .. MaxWrites
  BY MaxWritesAssumption DEF Enter, HistoryInv, HistoryTyped
<1>3. Enter(w, job)
  OBVIOUS
<1> HIDE DEF job
<1>4. ~Holds(job) /\ LinksFit(job)
  BY <1>1 DEF LinksFit, Holds
<1> QED
  BY <1>1, <1>2, <1>3, <1>4, LinksGo DEF Enter

LEMMA LinkHandlersEnter ==
    ASSUME HistoryInv, NEW w \in Writers, NEW some \in SUBSET Linkable,
           ReplaceLinks(w, some) \/ AssignLinks(w, some) \/ RemoveLinks(w, some)
    PROVE  HistoryInv'
<1>1. links \in SUBSET Linkable /\ links \cap some \in SUBSET Linkable /\ {} \in SUBSET Linkable
  BY DEF HistoryInv, HistoryTyped
<1>2. CASE ReplaceLinks(w, some)
  BY <1>1, <1>2, EnterLinks DEF ReplaceLinks
<1>3. CASE AssignLinks(w, some)
  BY <1>1, <1>3, EnterLinks DEF AssignLinks
<1>4. CASE RemoveLinks(w, some)
  BY <1>1, <1>4, EnterLinks DEF RemoveLinks
<1> QED
  BY <1>2, <1>3, <1>4

LEMMA WriteLinksStep ==
    ASSUME HistoryInv, NEW w \in Writers, WriteLinks(w)
    PROVE  HistoryInv'
<1> DEFINE job == writer[w]
           gone == CASE job.of = "replace" -> links
                     [] job.of = "assign"  -> {}
                     [] job.of = "remove"  -> job.before \cap links
           done == [job EXCEPT !.step = "written", !.gone = gone,
                                !.misled = (job.of = "replace" /\ job.before # links)]
<1>1. job \in LinkJob /\ job.step = "checked"
  BY KindOfJob DEF WriteLinks, HistoryInv
<1>2. LinksFit(job) /\ job.of \in {"replace", "assign", "remove"}
  BY <1>1 DEF HistoryInv, LinksInv, LinksRead, LinkJob
<1>3. gone \subseteq links /\ links \in SUBSET Linkable /\ gone \in SUBSET Linkable
  BY <1>2 DEF HistoryInv, HistoryTyped
<1>4. writes' \in 0 .. MaxWrites
  BY DEF WriteLinks, HistoryInv, HistoryTyped
<1>5. CASE job.set \cap (links \ gone) # {}
  <2>1. /\ writer' = [writer EXCEPT ![w] = AtRest]
        /\ UNCHANGED <<entity, links, recorded, latest, surprised, backlog>>
    BY <1>5 DEF WriteLinks
  <2>2. /\ writer' \in [Writers -> {AtRest} \cup RowJob \cup LinkJob]
        /\ writer'[w] = AtRest
        /\ \A q \in Writers : q # w => writer'[q] = writer[q]
    BY <2>1, OneGoes DEF HistoryInv
  <2>3. HistoryTyped'
    BY <1>4, <2>1, <2>2 DEF HistoryInv, HistoryTyped, FieldValue
  <2>4. LinksInv' /\ RowsInv'
    BY <2>1, <2>2, KindsOfJobs, LinksKeep, RowsKeep DEF HistoryInv
  <2> QED
    BY <2>3, <2>4 DEF HistoryInv
<1>6. CASE ~(job.set \cap (links \ gone) # {})
  <2>1. /\ writer' = [writer EXCEPT ![w] = done]
        /\ UNCHANGED <<entity, links, recorded, latest, surprised, backlog>>
    BY <1>6 DEF WriteLinks, Becomes
  <2>2. /\ done \in LinkJob /\ done.step = "written" /\ done.gone = gone /\ done.of = job.of
        /\ done.set = job.set /\ done.before = job.before
        /\ done.misled = (job.of = "replace" /\ job.before # links)
    BY <1>1, <1>3 DEF LinkJob
  <2>3. ASSUME NEW q \in Writers, q # w, writer[q] \in LinkJob, Holds(writer[q])
        PROVE  writer[q].set \cap gone = {} /\ job.set \cap writer[q].gone = {}
    <3>1. (writer[q].set \cup writer[q].gone) \cap (links \cup job.set) = {}
      BY <2>3, KindsOfJobs DEF WriteLinks, Holding, Holds
    <3> QED
      BY <1>3, <3>1
  <2>4. LinksFit(done)
    <3>1. job.of = "remove" => gone \subseteq job.before /\ job.set = {}
      BY <1>2 DEF LinksFit
    <3>2. job.of = "assign" => gone = {}
      OBVIOUS
    <3>3. job.of = "replace" => gone = links
      OBVIOUS
    <3> HIDE DEF gone, done
    <3> QED
      BY <1>2, <2>2, <3>1, <3>2, <3>3 DEF LinksFit, Holds
  <2> HIDE DEF done, gone
  <2> QED
    BY <1>4, <2>1, <2>2, <2>3, <2>4, LinksGo
<1> QED
  BY <1>5, <1>6

LEMMA RecordLinksStep ==
    ASSUME HistoryInv, NEW w \in Writers, RecordLinks(w)
    PROVE  HistoryInv'
<1> DEFINE job == writer[w]
           added == job.set \ job.before
           dropped == IF job.of = "assign" THEN {} ELSE job.before \ job.set
           touched == added # {} \/ (dropped # {} /\ latest # NoValue)
<1>1. job \in LinkJob /\ job.step = "written"
  BY KindOfJob DEF RecordLinks, HistoryInv, Holding
<1>2. LinksFit(job) /\ job.of \in {"replace", "assign", "remove"}
  BY <1>1 DEF HistoryInv, LinksInv, LinksRead, LinkJob
<1>3. /\ job.set \in SUBSET Linkable /\ job.before \in SUBSET Linkable
      /\ job.gone \in SUBSET Linkable
  BY <1>1 DEF LinkJob
<1>4. /\ UNCHANGED <<entity, links, recorded, latest, surprised, backlog>>
      /\ writes' \in 0 .. MaxWrites
  BY DEF RecordLinks, HistoryInv, HistoryTyped
<1>5. PICK last \in IF dropped = {} /\ added # {} THEN added ELSE {NoValue} :
        writer' = [writer EXCEPT ![w] =
                      [job EXCEPT !.step = "recorded", !.last = last, !.touched = touched]]
  BY DEF RecordLinks, Becomes
<1> DEFINE done == [job EXCEPT !.step = "recorded", !.last = last, !.touched = touched]
<1>6. last \in job.set \cup {NoValue} /\ last \in Linkable \cup {NoValue}
  BY <1>3
<1>7. /\ done \in LinkJob /\ done.step = "recorded" /\ done.last = last /\ done.touched = touched
      /\ done.of = job.of /\ done.set = job.set /\ done.before = job.before
      /\ done.gone = job.gone /\ done.misled = job.misled
  BY <1>1, <1>6 DEF LinkJob
<1>8. ~touched /\ ~job.misled => latest \notin job.gone \ job.set
  <2>1. SUFFICES ASSUME ~touched, ~job.misled
                 PROVE  latest \notin job.gone \ job.set
    OBVIOUS
  <2>2. job.set \subseteq job.before
    BY <2>1
  <2>3. CASE job.of = "assign"
    BY <1>1, <1>2, <2>3 DEF LinksFit, Holds
  <2>4. CASE job.of # "assign"
    <3>1. job.gone \subseteq job.before
      BY <1>1, <1>2, <2>1, <2>4 DEF LinksFit, Holds
    <3>2. job.before \ job.set = {} \/ latest = NoValue
      BY <2>1, <2>4
    <3> QED
      BY <1>3, <3>1, <3>2, NoValueAssumption
  <2> QED
    BY <2>3, <2>4
<1> HIDE DEF touched
<1>9. LinksFit(done)
  BY <1>1, <1>2, <1>6, <1>7, <1>8 DEF LinksFit, Holds
<1>10. \A q \in Writers : q # w /\ writer[q] \in LinkJob /\ Holds(writer[q]) =>
        writer[q].set \cap done.gone = {} /\ done.set \cap writer[q].gone = {}
  BY <1>1, <1>7 DEF HistoryInv, LinksInv, LinksApart, Holds
<1>11. writer' = [writer EXCEPT ![w] = done]
  BY <1>5
<1> HIDE DEF done
<1> QED
  BY <1>4, <1>7, <1>9, <1>10, <1>11, LinksGo

LEMMA CommitLinksStep ==
    ASSUME HistoryInv, NEW w \in Writers, CommitLinks(w)
    PROVE  HistoryInv'
<1> DEFINE job == writer[w]
<1>1. job \in LinkJob /\ job.step = "recorded"
  BY KindOfJob DEF CommitLinks, HistoryInv, Holding
<1>2. LinksFit(job) /\ job.set \in SUBSET Linkable /\ job.last \in Linkable \cup {NoValue}
  BY <1>1 DEF HistoryInv, LinksInv, LinksRead, LinkJob
<1>3. /\ links' = (links \ job.gone) \cup job.set
      /\ latest' = IF job.touched THEN job.last ELSE latest
      /\ surprised' = IF job.misled THEN surprised \cup {OfLinks}
                      ELSE IF latest' \in links' \cup {NoValue} THEN surprised \ {OfLinks}
                      ELSE surprised
      /\ writer' = [writer EXCEPT ![w] = AtRest]
      /\ UNCHANGED <<entity, recorded, backlog, writes>>
  BY DEF CommitLinks
<1>4. /\ writer' \in [Writers -> {AtRest} \cup RowJob \cup LinkJob]
      /\ writer'[w] = AtRest
      /\ \A q \in Writers : q # w => writer'[q] = writer[q]
  BY <1>3, OneGoes DEF HistoryInv
<1>5. links' \in SUBSET Linkable /\ latest' \in Linkable \cup {NoValue}
  BY <1>2, <1>3 DEF HistoryInv, HistoryTyped
<1>6. HistoryTyped'
  BY <1>3, <1>4, <1>5 DEF HistoryInv, HistoryTyped, FieldValue
<1>7. RowsInv'
  <2>1. \A e \in Entities, field \in Fields : <<e, field>> \in surprised => <<e, field>> \in surprised'
    BY <1>3, FieldsAreNoLinks
  <2> QED
    BY <1>3, <1>4, <2>1, KindsOfJobs, RowsKeep DEF HistoryInv
<1>8. LatestIsLinked'
  <2>1. CASE job.misled
    BY <1>3, <2>1 DEF LatestIsLinked
  <2>2. CASE ~job.misled
    <3>1. SUFFICES ASSUME OfLinks \notin surprised
                   PROVE  latest' \in links' \cup {NoValue}
      BY <1>3, <2>2 DEF LatestIsLinked
    <3>2. latest \in links \cup {NoValue}
      BY <3>1 DEF HistoryInv, LinksInv, LatestIsLinked
    <3>3. CASE job.touched
      BY <1>1, <1>2, <1>3, <3>3 DEF LinksFit
    <3>4. CASE ~job.touched
      BY <1>1, <1>2, <1>3, <2>2, <3>2, <3>4 DEF LinksFit
    <3> QED
      BY <3>3, <3>4
  <2> QED
    BY <2>1, <2>2
<1>9. LinksRead'
  <2>1. ASSUME NEW q \in Writers, writer'[q] \in LinkJob
        PROVE  LinksFit(writer[q])'
    <3>1. q # w /\ writer'[q] = writer[q] /\ writer[q] \in LinkJob
      BY <1>4, <2>1, KindsOfJobs
    <3>2. LinksFit(writer[q])
      BY <3>1 DEF HistoryInv, LinksInv, LinksRead
    <3>3. writer[q].step = "recorded" /\ ~writer[q].touched /\ ~writer[q].misled =>
            latest' \notin writer[q].gone \ writer[q].set
      <4>1. SUFFICES ASSUME writer[q].step = "recorded", ~writer[q].touched, ~writer[q].misled
                     PROVE  latest' \notin writer[q].gone \ writer[q].set
        OBVIOUS
      <4>2. latest \notin writer[q].gone \ writer[q].set
        BY <3>2, <4>1 DEF LinksFit
      <4>3. job.set \cap writer[q].gone = {} /\ writer[q].gone \in SUBSET Linkable
        BY <1>1, <3>1, <4>1 DEF HistoryInv, LinksInv, LinksApart, Holds, LinkJob
      <4>4. job.touched => job.last \in job.set \cup {NoValue}
        BY <1>1, <1>2 DEF LinksFit
      <4> QED
        BY <1>3, <4>2, <4>3, <4>4, NoValueAssumption
    <3> QED
      BY <3>1, <3>2, <3>3 DEF LinksFit, Holds
  <2> QED
    BY <2>1 DEF LinksRead
<1>10. LinksApart'
  BY <1>4, KindsOfJobs DEF HistoryInv, LinksInv, LinksApart
<1> QED
  BY <1>6, <1>7, <1>8, <1>9, <1>10 DEF HistoryInv, LinksInv

LEMMA LinkElsewhereStep ==
    ASSUME HistoryInv, NEW l \in Linkable, LinkElsewhere(l)
    PROVE  HistoryInv'
<1>1. HistoryTyped'
  BY MaxWritesAssumption DEF HistoryInv, HistoryTyped, FieldValue, LinkElsewhere
<1>2. RowsInv'
  BY RowsKeep DEF HistoryInv, LinkElsewhere
<1>3. LinksInv'
  <2>1. LinksRead' /\ LinksApart'
    BY DEF HistoryInv, LinksInv, LinksRead, LinksFit, LinksApart, LinkElsewhere
  <2> QED
    BY <2>1 DEF LinksInv, LatestIsLinked, LinkElsewhere
<1> QED
  BY <1>1, <1>2, <1>3 DEF HistoryInv

-----------------------------------------------------------------------------
LEMMA HistoryInitInv == HistoryInit => HistoryInv
<1> SUFFICES ASSUME HistoryInit PROVE HistoryInv
  OBVIOUS
<1>1. entity \in [Entities -> UsedRow \cup {Unused}]
  <2>1. [state : {"Open"}, value : Values] \subseteq UsedRow
    BY DEF UsedRow
  <2> QED
    BY <2>1 DEF HistoryInit
<1>2. recorded \in [Entities -> NoteRow] /\ \A e \in Entities : recorded[e] = NothingRecorded
  <2>1. NothingRecorded \in NoteRow
    BY DEF NothingRecorded, NoteRow, Fields
  <2> QED
    BY <2>1 DEF HistoryInit
<1>3. writer \in [Writers -> {AtRest}] /\ \A w \in Writers : writer[w] = AtRest
  BY DEF HistoryInit
<1>4. HistoryTyped
  BY <1>1, <1>2, <1>3, MaxWritesAssumption DEF HistoryInit, HistoryTyped
<1>5. FieldsFollowRows /\ LatestIsLinked
  BY DEF HistoryInit, FieldsFollowRows, LatestIsLinked
<1>6. RowsRead /\ RowsApart /\ LinksRead /\ LinksApart
  BY <1>3, KindsOfJobs DEF RowsRead, RowsApart, LinksRead, LinksApart
<1> QED
  BY <1>4, <1>5, <1>6 DEF HistoryInv, RowsInv, LinksInv

LEMMA HistoryNextInv == HistoryInv /\ HistoryNext => HistoryInv'
<1> SUFFICES ASSUME HistoryInv, HistoryNext PROVE HistoryInv'
  OBVIOUS
<1>1. ASSUME NEW w \in Writers, NEW e \in Entities, NEW v \in Values,
             \/ CreateEntity(w, e, v)
             \/ UpdateEntity(w, e, v)
             \/ UpdateAccount(w, e, v)
      PROVE  HistoryInv'
  <2>1. CASE CreateEntity(w, e, v)
    BY <2>1, CreateEntityStep
  <2>2. CASE UpdateEntity(w, e, v)
    BY <2>2, UpdateEntityStep DEF UpdateEntity
  <2>3. CASE UpdateAccount(w, e, v)
    BY <2>3, UpdateEntityStep DEF UpdateAccount
  <2> QED
    BY <1>1, <2>1, <2>2, <2>3
<1>2. ASSUME NEW w \in Writers,
             \/ WriteRow(w)
             \/ OpenRecord(w)
             \/ Record(w)
             \/ CommitRow(w)
             \/ WriteLinks(w)
             \/ RecordLinks(w)
             \/ CommitLinks(w)
             \/ GiveUp(w)
      PROVE  HistoryInv'
  BY <1>2, WriteRowStep, OpenRecordStep, RecordStep, CommitRowStep, WriteLinksStep,
     RecordLinksStep, CommitLinksStep, GiveUpStep
<1>3. ASSUME NEW w \in Writers, NEW some \in SUBSET Linkable,
             ReplaceLinks(w, some) \/ AssignLinks(w, some) \/ RemoveLinks(w, some)
      PROVE  HistoryInv'
  BY <1>3, LinkHandlersEnter
<1> QED
  BY <1>1, <1>2, <1>3, DeleteEntityStep, LinkElsewhereStep, FillInStep, ScriptSteps DEF HistoryNext

LEMMA HistoryStutters == HistoryInv /\ UNCHANGED historyVars => HistoryInv'
<1> SUFFICES ASSUME HistoryInv, UNCHANGED historyVars PROVE HistoryInv'
  OBVIOUS
<1>1. HistoryTyped'
  BY DEF HistoryInv, HistoryTyped, FieldValue, historyVars
<1>2. RowsInv' /\ LinksInv'
  BY RowsKeep, LinksKeep DEF HistoryInv, historyVars
<1> QED
  BY <1>1, <1>2 DEF HistoryInv

LEMMA HistoryInvariant == HistorySpec => []HistoryInv
<1>1. HistoryInv /\ [HistoryNext]_historyVars => HistoryInv'
  BY HistoryNextInv, HistoryStutters
<1> QED
  BY <1>1, HistoryInitInv, PTL DEF HistorySpec

\* Nothing is recorded of a row that never was, and only what rows held.
THEOREM HistoryTypeCorrect == HistorySpec => []HistoryTypeOK
<1>1. HistoryInv => HistoryTypeOK
  BY DEF HistoryInv, HistoryTyped, HistoryTypeOK, UsedRow, NoteRow, Unused
<1> QED
  BY <1>1, HistoryInvariant, PTL

\* What the history says a field or a relation is now is what the rows have,
\* whatever handlers run beside each other or fail, but for the rows, accounts,
\* races and backfilled fields the model names.
THEOREM CurrentValuesTrueHolds == HistorySpec => []CurrentValuesTrue
<1>1. HistoryInv => CurrentValuesTrue
  BY DEF HistoryInv, RowsInv, LinksInv, CurrentValuesTrue
<1> QED
  BY <1>1, HistoryInvariant, PTL
===============================================================================
