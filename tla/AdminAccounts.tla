--------------------------- MODULE AdminAccounts ---------------------------
(***************************************************************************)
(* How an administrator gets in: the account somebody created for a phone  *)
(* number is verified with a code sent to it, registered with a password,  *)
(* logged in and out, and may be deleted; the codes, the token that resets *)
(* a password, the current session and the tokens logged out are kept in   *)
(* redis, each for its time.  When redis does not answer, handlers are not *)
(* told: what they write is not kept, what they read is missing, and they  *)
(* go on.  Every account here has the same number, as codes and most       *)
(* writes go by number.  Handlers run at the same time.                    *)
(***************************************************************************)
EXTENDS Integers, FiniteSets

CONSTANTS
    Accounts,   \* rows of admins, used and unused, with one phone number
    Clients,    \* requests served at the same time
    MaxIds      \* bound: requests ever made; each may draw a code or a token

ASSUME MaxIdsAssumption == MaxIds \in Nat

VARIABLES
    account,    \* rows: state, whether the number is verified, is_active
    code,       \* redis: the codes to verify a number, and to reset a password
    limited,    \* redis: no code may be sent for a minute
    pass,       \* redis: the token to reset a password
    tokens,     \* access tokens issued and not expired, with their accounts
    current,    \* redis: the session of each account; 0: none
    blacklist,  \* redis: tokens logged out
    client,     \* what each request is about to do
    ids,        \* codes and tokens drawn so far
    old,        \* history: codes drawn before an account was opened or deleted
    out,        \* history: tokens whose logout was answered
    unkept,     \* history: those of them that redis was told of in vain
    answers     \* whether redis answers

accountVars ==
    <<account, code, limited, pass, tokens, current, blacklist, client, ids, old, out,
      unkept, answers>>

Idle == [op |-> "idle"]
AccountRow(state, verified) == [state |-> state, verified |-> verified, active |-> state # "Deleted"]

Existing == {x \in Accounts : account[x].state # "absent"}

\* findByPhoneNumber: any row of the number that is not deleted.
Found == {x \in Existing : account[x].state # "Deleted"}

\* checkAdminAccessControl: active and verified.
MayEnter(x) == account[x].active /\ account[x].verified

\* What redis holds once it was told to hold this instead of that.
Kept(this, that) == IF answers THEN this ELSE that

\* The guard of protected routes: a missing session is as good as the token's.
Accepted(t) ==
    /\ t \notin blacklist
    /\ \E x \in Accounts : <<t, x>> \in tokens /\ current[x] \in {0, t}

AccountsInit ==
    /\ account \in [Accounts -> {AccountRow("absent", FALSE), AccountRow("Pending", FALSE), AccountRow("Pending", TRUE),
                                 AccountRow("Open", TRUE), AccountRow("Deleted", TRUE)}]
    /\ Cardinality(Found) <= 1
    /\ code = [verify |-> 0, reset |-> 0] /\ pass = 0
    /\ limited = FALSE
    /\ tokens = {} /\ current = [x \in Accounts |-> 0] /\ blacklist = {}
    /\ client = [c \in Clients |-> Idle]
    /\ ids = 0
    /\ old = {} /\ out = {} /\ unkept = {}
    /\ answers = TRUE

(***************************************************************************)
(* Requests: what is checked first.                                        *)
(***************************************************************************)
Ask(c, request) ==
    /\ client[c] = Idle
    /\ ids < MaxIds /\ ids' = ids + 1
    /\ client' = [client EXCEPT ![c] = request]
    /\ UNCHANGED <<account, code, limited, pass, tokens, current, blacklist, old,
                   out, unkept, answers>>

SendCode(c, type) ==
    (answers => ~limited) /\ Ask(c, [op |-> "keep code", type |-> type, id |-> ids + 1])

\* Mutant of SendVerificationCode: the state of the account is not asked for.
SendVerificationCodeToAny(c) == Found # {} /\ SendCode(c, "verify")

SendVerificationCode(c) ==
    \E x \in Found : account[x].state = "Pending" /\ SendCode(c, "verify")

VerifyCode(c) ==
    answers /\ code.verify # 0 /\ Ask(c, [op |-> "mark verified", id |-> code.verify])

CompleteRegistration(c) ==
    \E x \in Found :
        /\ account[x].state = "Pending" /\ account[x].verified
        /\ Ask(c, [op |-> "open", account |-> x, id |-> ids + 1])

Login(c) ==
    \E x \in Found :
        /\ account[x].state # "Pending" /\ MayEnter(x)
        /\ Ask(c, [op |-> "issue", account |-> x, id |-> ids + 1])

\* The guard lets any token pass while redis does not answer.
Logout(c) ==
    \E t \in tokens :
        /\ answers => Accepted(t[1])
        /\ Ask(c, [op |-> "find session", account |-> t[2], id |-> t[1]])

ForgotPassword(c) ==
    \E x \in Found : MayEnter(x) /\ SendCode(c, "reset")

VerifyForgotPasswordOtp(c) ==
    answers /\ code.reset # 0 /\ Ask(c, [op |-> "grant pass", id |-> ids + 1])

ResetPassword(c) ==
    answers /\ pass # 0 /\ Ask(c, [op |-> "drop pass"])

CreateAdmin(c) ==
    \E x \in Accounts \ Existing :
        Found = {} /\ Ask(c, [op |-> "insert", account |-> x])

DeleteAdmin(c, x) == x \in Found /\ Ask(c, [op |-> "delete", account |-> x])

(***************************************************************************)
(* Requests: what is done next.                                            *)
(***************************************************************************)
Does(c, op) == client[c].op = op
Then(c, request) == client' = [client EXCEPT ![c] = request]
Continue(c, op) == Then(c, [client[c] EXCEPT !.op = op])
Done(c) == Then(c, Idle)

KeepCode(c) ==
    /\ Does(c, "keep code")
    /\ code' = Kept([code EXCEPT ![client[c].type] = client[c].id], code)
    /\ Continue(c, "send")
    /\ UNCHANGED <<account, limited, pass, tokens, current, blacklist, ids, old,
                   out, unkept, answers>>

\* The message was not sent: the code is taken back, whichever it is by now.
SmsFails(c) ==
    /\ Does(c, "send")
    /\ code' = Kept([code EXCEPT ![client[c].type] = 0], code)
    /\ Done(c)
    /\ UNCHANGED <<account, limited, pass, tokens, current, blacklist, ids, old,
                   out, unkept, answers>>

\* It was: and only now the number has to wait.
SmsSent(c) ==
    /\ Does(c, "send")
    /\ limited' = Kept(TRUE, limited)
    /\ Done(c)
    /\ UNCHANGED <<account, code, pass, tokens, current, blacklist, ids, old,
                   out, unkept, answers>>

\* Codes drawn by now, kept or not, are older than what happens to an account.
Leaves(x) == old' = IF account[x].state = "Pending" THEN old \cup (1 .. ids) ELSE old

\* markPhoneVerified: every row of the number.
MarkVerified(c) ==
    /\ Does(c, "mark verified")
    /\ account' = [x \in Accounts |->
           IF x \in Existing THEN [account[x] EXCEPT !.state = "Pending", !.verified = TRUE]
           ELSE account[x]]
    /\ Continue(c, "drop code")
    /\ UNCHANGED <<code, limited, pass, tokens, current, blacklist, ids, old,
                   out, unkept, answers>>

DropCode(c) ==
    /\ Does(c, "drop code")
    /\ code' = Kept([code EXCEPT !.verify = 0], code)
    /\ Done(c)
    /\ UNCHANGED <<account, limited, pass, tokens, current, blacklist, ids, old,
                   out, unkept, answers>>

\* updateAdminByPhone: every row of the number.
OpenAccount(c) ==
    /\ Does(c, "open")
    /\ account' = [x \in Accounts |->
           IF x \in Existing THEN [account[x] EXCEPT !.state = "Open"] ELSE account[x]]
    /\ Leaves(client[c].account)
    /\ Continue(c, "issue")
    /\ UNCHANGED <<code, limited, pass, tokens, current, blacklist, ids,
                   out, unkept, answers>>

\* setAdminSession.
IssueToken(c) ==
    /\ Does(c, "issue")
    /\ tokens' = tokens \cup {<<client[c].id, client[c].account>>}
    /\ current' = Kept([current EXCEPT ![client[c].account] = client[c].id], current)
    /\ Done(c)
    /\ UNCHANGED <<account, code, limited, pass, blacklist, ids, old,
                   out, unkept, answers>>

\* Who has no session is not logged out, nor is anybody while redis is silent.
FindSession(c) ==
    /\ Does(c, "find session")
    /\ IF answers /\ current[client[c].account] # 0 THEN Continue(c, "end session") ELSE Done(c)
    /\ UNCHANGED <<account, code, limited, pass, tokens, current, blacklist, ids, old, out,
                   unkept, answers>>

EndSession(c) ==
    /\ Does(c, "end session")
    /\ current' = Kept([current EXCEPT ![client[c].account] = 0], current)
    /\ Continue(c, "blacklist")
    /\ UNCHANGED <<account, code, limited, pass, tokens, blacklist, ids, old,
                   out, unkept, answers>>

\* The logout is answered whether or not redis has kept the token.
Blacklist(c) ==
    LET token == client[c].id
    IN  /\ Does(c, "blacklist")
        /\ blacklist' = Kept(blacklist \cup {token}, blacklist)
        /\ out' = out \cup {token}
        /\ unkept' = IF token \in blacklist' THEN unkept \ {token} ELSE unkept \cup {token}
        /\ Done(c)
        /\ UNCHANGED <<account, code, limited, pass, tokens, current, ids, old, answers>>

GrantPass(c) ==
    /\ Does(c, "grant pass")
    /\ pass' = Kept(client[c].id, pass)
    /\ Continue(c, "drop reset code")
    /\ UNCHANGED <<account, code, limited, tokens, current, blacklist, ids, old,
                   out, unkept, answers>>

DropResetCode(c) ==
    /\ Does(c, "drop reset code")
    /\ code' = Kept([code EXCEPT !.reset = 0], code)
    /\ Done(c)
    /\ UNCHANGED <<account, limited, pass, tokens, current, blacklist, ids, old,
                   out, unkept, answers>>

\* After the password was written, to every row of the number.
DropPass(c) ==
    /\ Does(c, "drop pass")
    /\ pass' = Kept(0, pass)
    /\ Done(c)
    /\ UNCHANGED <<account, code, limited, tokens, current, blacklist, ids, old,
                   out, unkept, answers>>

InsertAccount(c) ==
    /\ Does(c, "insert") /\ client[c].account \notin Existing
    /\ account' = [account EXCEPT ![client[c].account] = AccountRow("Pending", FALSE)]
    /\ Done(c)
    /\ UNCHANGED <<code, limited, pass, tokens, current, blacklist, ids, old,
                   out, unkept, answers>>

RemoveAccount(c) ==
    /\ Does(c, "delete")
    /\ account' = [account EXCEPT ![client[c].account].state = "Deleted",
                                  ![client[c].account].active = FALSE]
    /\ Leaves(client[c].account)
    /\ Done(c)
    /\ UNCHANGED <<code, limited, pass, tokens, current, blacklist, ids,
                   out, unkept, answers>>

\* The process stops, or the database fails: what was done stays done.
Abandon(c) ==
    /\ client[c] # Idle
    /\ Done(c)
    /\ UNCHANGED <<account, code, limited, pass, tokens, current, blacklist, ids, old,
                   out, unkept, answers>>

\* ensureConnected: the connection is lost, or works again.
RedisTurns ==
    /\ answers' = ~answers
    /\ UNCHANGED <<account, code, limited, pass, tokens, current, blacklist, client, ids, old, out,
                   unkept>>

(***************************************************************************)
(* Times.                                                                  *)
(***************************************************************************)
\* Five minutes for codes, one for the limit, ten for the reset token.
CodeExpires ==
    /\ \E type \in DOMAIN code : code[type] # 0 /\ code' = [code EXCEPT ![type] = 0]
    /\ UNCHANGED <<account, limited, pass, tokens, current, blacklist, client, ids, old,
                   out, unkept, answers>>

LimitExpires ==
    /\ limited /\ limited' = FALSE
    /\ UNCHANGED <<account, code, pass, tokens, current, blacklist, client, ids, old,
                   out, unkept, answers>>

PassExpires ==
    /\ pass # 0 /\ pass' = 0
    /\ UNCHANGED <<account, code, limited, tokens, current, blacklist, client, ids, old,
                   out, unkept, answers>>

\* A day for access tokens.
TokenExpires ==
    /\ \E t \in tokens : tokens' = tokens \ {t}
    /\ UNCHANGED <<account, code, limited, pass, current, blacklist, client, ids, old,
                   out, unkept, answers>>

\* A week for sessions: their token has expired before.
SessionExpires ==
    /\ \E x \in Accounts :
        /\ current[x] # 0 /\ <<current[x], x>> \notin tokens
        /\ current' = [current EXCEPT ![x] = 0]
    /\ UNCHANGED <<account, code, limited, pass, tokens, blacklist, client, ids, old,
                   out, unkept, answers>>

\* Mutant of BlacklistExpires: tokens are remembered for an hour.
BlacklistExpiresSoon ==
    /\ \E t \in blacklist : blacklist' = blacklist \ {t}
    /\ UNCHANGED <<account, code, limited, pass, tokens, current, client, ids, old,
                   out, unkept, answers>>

\* A week for tokens logged out, which expire before.
BlacklistExpires ==
    /\ \E t \in blacklist :
        /\ \A x \in Accounts : <<t, x>> \notin tokens
        /\ blacklist' = blacklist \ {t}
    /\ UNCHANGED <<account, code, limited, pass, tokens, current, client, ids, old,
                   out, unkept, answers>>

AccountsNext ==
    \/ \E c \in Clients :
        \/ SendVerificationCode(c)
        \/ VerifyCode(c)
        \/ CompleteRegistration(c)
        \/ Login(c)
        \/ Logout(c)
        \/ ForgotPassword(c)
        \/ VerifyForgotPasswordOtp(c)
        \/ ResetPassword(c)
        \/ CreateAdmin(c)
    \/ \E c \in Clients, x \in Accounts : DeleteAdmin(c, x)
    \/ \E c \in Clients :
        \/ KeepCode(c)
        \/ SmsFails(c)
        \/ SmsSent(c)
        \/ MarkVerified(c)
        \/ DropCode(c)
        \/ OpenAccount(c)
        \/ IssueToken(c)
        \/ FindSession(c)
        \/ EndSession(c)
        \/ Blacklist(c)
        \/ GrantPass(c)
        \/ DropResetCode(c)
        \/ DropPass(c)
        \/ InsertAccount(c)
        \/ RemoveAccount(c)
        \/ Abandon(c)
    \/ RedisTurns
    \/ CodeExpires
    \/ LimitExpires
    \/ PassExpires
    \/ TokenExpires
    \/ SessionExpires
    \/ BlacklistExpires

AccountsSpec == AccountsInit /\ [][AccountsNext]_accountVars

(***************************************************************************)
(* What must hold.                                                         *)
(***************************************************************************)
\* Types: at most one row holds a session's id, and ids are never reused.
AccountsTypeOK ==
    /\ \A x \in Accounts : account[x].state \in {"absent", "Pending", "Open", "Deleted"}
    /\ code \in [{"verify", "reset"} -> 0 .. ids] /\ pass \in 0 .. ids /\ limited \in BOOLEAN
    /\ tokens \subseteq (1 .. ids) \X Accounts /\ current \in [Accounts -> 0 .. ids]
    /\ blacklist \subseteq 1 .. ids /\ ids \in 0 .. MaxIds
    /\ old \subseteq 1 .. ids /\ out \subseteq 1 .. ids
    /\ unkept \subseteq out /\ answers \in BOOLEAN

\* Once a logout was answered its token is refused for good: also after later
\* logins and logouts removed the session, for a missing session is accepted,
\* and after redis forgot the token.  Excepted are tokens that redis did not take
\* when the logout was answered nevertheless, and the time it does not answer.
LoggedOutStaysOut == \A t \in out \ unkept : answers => ~Accepted(t)

\* A registered account does not go back to Pending, nor does a deleted one
\* come back, but by a code or a registration that began before it left, unless
\* another account has its number too.
BackOnlyByOldRequest ==
    [][\A x \in Accounts :
        \/ account[x].state = "Open" /\ account'[x].state = "Pending"
        \/ account[x].state = "Deleted" /\ account'[x].state # "Deleted"
        => \/ Existing # {x}
           \/ \E c \in Clients :
                /\ client'[c] # client[c] /\ client[c].op \in {"mark verified", "open"}
                /\ client[c].id \in old]_accountVars

=============================================================================
