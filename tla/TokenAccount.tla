----------------------------- MODULE TokenAccount -----------------------------
(***************************************************************************)
(* The tokens of an account: the token commands of src-tauri/src/commands.rs.   *)
(* A balance is kept in memory under the account's identifier and in            *)
(* tokens.json; the identifier is kept in account_id.json.  Commands copy the    *)
(* balance, change the copy, store it and save it: other commands, a failed      *)
(* write or a crash come in between.  The 30 days of a month are Period steps of   *)
(* the clock.                                                                   *)
(***************************************************************************)
EXTENDS Integers, FiniteSets

CONSTANTS TokenClient,        \* commands that may run at the same time
          FREE_TIER_TOKENS, ProTokens,
          TokenRequest,       \* client -> set of [cmd, n, plan]
          Period,             \* 30 days
          MaxTokenCalls, MaxTime

ASSUME TokenAssumption == /\ FREE_TIER_TOKENS \in Nat /\ ProTokens \in Nat /\ Period \in Nat
                          /\ MaxTokenCalls \in Nat /\ MaxTime \in Nat
                          /\ TokenRequest \in [TokenClient -> SUBSET [cmd : {"consume", "purchase", "get"}, n : Int,
                                                                     plan : {"free", "pro", "unlimited"}]]

VARIABLES balances,  \* TOKEN_STORAGE: account -> balance
          tokensFile, \* tokens.json: [account, balance], NoTokens or TornTokens
          accountId, \* ACCOUNT_ID, or NoAccount
          accountFile, \* account_id.json, or NoAccount
          command,   \* client -> its command
          today, tokenCalls,
          mixed,     \* two commands overlapped, or a write failed or was cut
          ledger     \* tokens granted since the balance was last reset

tokenVars == <<balances, tokensFile, accountId, accountFile, command, today, tokenCalls, mixed, ledger>>

Unlimited == -1
NoAccount == "none"
Account == TokenClient          \* each command would make one of its own
ASSUME ClientAssumption == NoAccount \notin TokenClient
Plan == {"free", "pro", "unlimited"}
Balance == [total : Int, used : Int, remaining : Int, reset : Int, plan : Plan]
NoBalance == [total |-> 0, used |-> 0, remaining |-> 0, reset |-> 0, plan |-> "free"]
NoTokens   == [state |-> "absent", account |-> NoAccount, balance |-> NoBalance]
TornTokens == [state |-> "torn", account |-> NoAccount, balance |-> NoBalance]
Saved(a, b) == [state |-> "saved", account |-> a, balance |-> b]

get_token_plans(p) == CASE p = "free" -> FREE_TIER_TOKENS [] p = "pro" -> ProTokens [] p = "unlimited" -> Unlimited
initialize_free_tier_balance ==
    [total |-> FREE_TIER_TOKENS, used |-> 0, remaining |-> FREE_TIER_TOKENS, reset |-> today + Period, plan |-> "free"]
NeedsReset(b) == today >= b.reset
check_and_reset_balance(b) ==
    IF NeedsReset(b) THEN [b EXCEPT !.total = get_token_plans(b.plan), !.used = 0,
                                    !.remaining = get_token_plans(b.plan), !.reset = today + Period]
    ELSE b
Consumed(b, n) == [b EXCEPT !.used = @ + n, !.remaining = @ - n]
\* The used tokens are kept; after a change to a smaller plan less than none may remain.
\* Mutant of Purchased: a new plan starts with nothing used.
PurchasedFresh(b, p) ==
    LET t == get_token_plans(p)
    IN  [b EXCEPT !.plan = p, !.total = t, !.used = 0, !.remaining = t, !.reset = today + Period]
Purchased(b, p) ==
    LET t == get_token_plans(p)
    IN  [b EXCEPT !.plan = p, !.total = t, !.remaining = IF t = Unlimited THEN Unlimited ELSE t - b.used,
                  !.reset = today + Period]

Quiet == [cmd |-> "none", pc |-> "idle", n |-> 0, plan |-> "free", account |-> NoAccount, held |-> NoBalance, fresh |-> FALSE]
\* HashMap::insert.
With(m, a, b) == [x \in DOMAIN m \cup {a} |-> IF x = a THEN b ELSE m[x]]
AllQuiet == \A c \in TokenClient : command[c].cmd = "none"

-----------------------------------------------------------------------------
(* A command begins, ends, moves on. *)
On_(c, pc)   == command[c].pc = pc
Move(c, r)   == command' = [command EXCEPT ![c] = r]
MoveTo(c, p) == Move(c, [command[c] EXCEPT !.pc = p])
Return(c)    == Move(c, Quiet)
Kept         == UNCHANGED <<today, tokenCalls>>

BeginTokens(c) ==
    /\ command[c].cmd = "none" /\ tokenCalls < MaxTokenCalls /\ tokenCalls' = tokenCalls + 1
    /\ \E r \in TokenRequest[c] :
          /\ r.cmd = "consume" => r.n > 0
          /\ Move(c, [Quiet EXCEPT !.cmd = r.cmd, !.n = r.n, !.plan = r.plan, !.pc = "account"])
    /\ mixed' = (mixed \/ ~AllQuiet)
    /\ UNCHANGED <<balances, tokensFile, accountId, accountFile, today, ledger>>

\* From memory, else from the file, else a new one, which is written first.
get_account_id(c) ==
    /\ \/ /\ On_(c, "account") /\ UNCHANGED <<accountFile, mixed>>
          /\ \/ /\ accountId # NoAccount /\ UNCHANGED accountId
                /\ Move(c, [command[c] EXCEPT !.account = accountId, !.pc = "balance"])
             \/ /\ accountId = NoAccount /\ accountFile # NoAccount /\ accountId' = accountFile
                /\ Move(c, [command[c] EXCEPT !.account = accountFile, !.pc = "balance"])
             \/ /\ accountId = NoAccount /\ accountFile = NoAccount /\ UNCHANGED accountId
                /\ MoveTo(c, "newAccount")
       \/ /\ On_(c, "newAccount")
          /\ \/ accountFile' = c /\ MoveTo(c, "setAccount") /\ UNCHANGED <<accountId, mixed>>
             \/ Return(c) /\ mixed' = TRUE /\ UNCHANGED <<accountId, accountFile>>
       \/ /\ On_(c, "setAccount") /\ accountId' = c
          /\ Move(c, [command[c] EXCEPT !.account = c, !.pc = "balance"]) /\ UNCHANGED <<accountFile, mixed>>
    /\ Kept /\ UNCHANGED <<balances, tokensFile, ledger>>

\* A copy of the balance in memory, reset if it is due; the reset is not stored.
Hold(c, b, pc) == Move(c, [command[c] EXCEPT !.held = check_and_reset_balance(b), !.fresh = NeedsReset(b), !.pc = pc])
get_or_init_token_balance(c) ==
    /\ \/ /\ On_(c, "balance") /\ accountId \in DOMAIN balances /\ Hold(c, balances[accountId], "apply")
          /\ UNCHANGED <<balances, ledger>>
       \/ /\ On_(c, "balance") /\ accountId \notin DOMAIN balances /\ UNCHANGED <<balances, ledger>>
          /\ CASE tokensFile.state = "torn" -> Return(c)
               [] tokensFile.state = "saved" /\ tokensFile.account = accountId -> Hold(c, tokensFile.balance, "loaded")
               [] OTHER -> Move(c, [command[c] EXCEPT !.held = initialize_free_tier_balance, !.fresh = TRUE, !.pc = "saveNew"])
       \/ /\ On_(c, "loaded") /\ balances' = With(balances, accountId, command[c].held) /\ MoveTo(c, "saveLoaded")
          /\ ledger' = IF command[c].fresh THEN 0 ELSE ledger
       \/ /\ On_(c, "cacheNew") /\ balances' = With(balances, accountId, command[c].held) /\ MoveTo(c, "apply")
          /\ ledger' = 0
    /\ Kept /\ UNCHANGED <<tokensFile, accountId, accountFile, mixed>>

save_token_balance(c) ==
    /\ command[c].pc \in {"saveLoaded", "saveNew", "save"}
    /\ \/ /\ tokensFile' = Saved(IF On_(c, "save") THEN command[c].account ELSE accountId, command[c].held) /\ UNCHANGED mixed
          /\ CASE On_(c, "saveLoaded") -> MoveTo(c, "apply") [] On_(c, "saveNew") -> MoveTo(c, "cacheNew") [] On_(c, "save") -> Return(c)
       \/ UNCHANGED tokensFile /\ Return(c) /\ mixed' = TRUE
    /\ Kept /\ UNCHANGED <<balances, accountId, accountFile, ledger>>

\* The changed copy replaces whatever is in memory by now, then it is saved.
Store(c, b, granted) ==
    /\ balances' = With(balances, command[c].account, b)
    /\ Move(c, [command[c] EXCEPT !.held = b, !.pc = "save"])
    /\ ledger' = (IF command[c].fresh THEN 0 ELSE ledger) + granted
get_token_balance(c) == On_(c, "apply") /\ command[c].cmd = "get" /\ Return(c) /\ UNCHANGED <<balances, ledger>>
consume_tokens(c) ==
    /\ On_(c, "apply") /\ command[c].cmd = "consume"
    /\ LET b == command[c].held
           n == command[c].n
       IN  IF b.total = Unlimited \/ b.remaining < n THEN Return(c) /\ UNCHANGED <<balances, ledger>>
           ELSE Store(c, Consumed(b, n), n)
purchase_token_plan(c) ==
    /\ On_(c, "apply") /\ command[c].cmd = "purchase"
    /\ Store(c, Purchased(command[c].held, command[c].plan), 0)
Apply(c) == /\ get_token_balance(c) \/ consume_tokens(c) \/ purchase_token_plan(c)
            /\ Kept /\ UNCHANGED <<tokensFile, accountId, accountFile, mixed>>

\* The application stops: memory is lost, and a file being written may be torn.
StopTokens ==
    /\ tokenCalls < MaxTokenCalls /\ tokenCalls' = tokenCalls + 1
    /\ balances' = << >> /\ accountId' = NoAccount /\ command' = [c \in TokenClient |-> Quiet]
    /\ \/ UNCHANGED <<tokensFile, accountFile>>
       \/ /\ \E c \in TokenClient : command[c].pc \in {"saveLoaded", "saveNew", "save"}
          /\ tokensFile' = TornTokens /\ UNCHANGED accountFile
       \/ /\ \E c \in TokenClient : On_(c, "newAccount")
          /\ accountFile' = NoAccount /\ UNCHANGED tokensFile
    /\ mixed' = (mixed \/ ~AllQuiet) /\ UNCHANGED <<today, ledger>>
Tick == /\ today < MaxTime /\ today' = today + 1
        /\ UNCHANGED <<balances, tokensFile, accountId, accountFile, command, tokenCalls, mixed, ledger>>

TokenInit == /\ balances = << >> /\ tokensFile = NoTokens /\ accountId = NoAccount /\ accountFile = NoAccount
             /\ command = [c \in TokenClient |-> Quiet] /\ today = 0 /\ tokenCalls = 0 /\ mixed = FALSE /\ ledger = 0
TokenNext == \/ StopTokens \/ Tick
             \/ \E c \in TokenClient : BeginTokens(c) \/ get_account_id(c) \/ get_or_init_token_balance(c)
                                       \/ save_token_balance(c) \/ Apply(c)
TokenSpec == TokenInit /\ [][TokenNext]_tokenVars

-----------------------------------------------------------------------------
Someone == Account \cup {NoAccount}
TokenCommand == [cmd : {"none", "consume", "purchase", "get"},
                 pc : {"idle", "account", "newAccount", "setAccount", "balance", "loaded", "saveLoaded",
                       "saveNew", "cacheNew", "apply", "save"},
                 n : Int, plan : Plan, account : Someone, held : Balance, fresh : BOOLEAN]
(* Type invariant. *)
TokenTypeOK == /\ DOMAIN balances \subseteq Someone /\ balances \in [DOMAIN balances -> Balance]
               /\ tokensFile \in [state : {"absent", "torn", "saved"}, account : Someone, balance : Balance]
               /\ accountId \in Someone /\ accountFile \in Someone
               /\ command \in [TokenClient -> TokenCommand]
               /\ today \in Nat /\ tokenCalls \in Nat /\ mixed \in BOOLEAN /\ ledger \in Int

Consistent(b) == b.remaining = IF b.total = Unlimited THEN Unlimited ELSE b.total - b.used

\* A balance is never at odds with itself: what remains is the total less what is
\* used (or unlimited), in memory, in the file and in every command's copy, through
\* any interleaving, reset, change of plan, failed write and crash.
BalancesConsistent ==
    /\ TokenTypeOK
    /\ \A a \in DOMAIN balances : Consistent(balances[a])
    /\ tokensFile.state = "saved" => Consistent(tokensFile.balance)
    /\ \A c \in TokenClient : command[c].pc \in {"loaded", "saveLoaded", "saveNew", "cacheNew", "apply", "save"}
                              => Consistent(command[c].held)

\* When commands did not overlap and no write failed, every token granted since the
\* last reset is recorded as used, in memory and in the file: a restart between two
\* commands grants nothing twice, and a change of plan forgives nothing.
EveryGrantCounted ==
    ~mixed /\ AllQuiet =>
        /\ accountId \in DOMAIN balances => balances[accountId].used = ledger
        /\ tokensFile.state = "saved" => /\ tokensFile.balance.used = ledger
                                         /\ tokensFile.account = accountFile

\* Balances are consistent at all times and, while commands do not overlap, right.
AccountSafe == BalancesConsistent /\ EveryGrantCounted
=============================================================================
