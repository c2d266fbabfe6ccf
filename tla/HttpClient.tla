----------------------------- MODULE HttpClient -----------------------------
(* The one HTTP client of the process, in a build with libcurl.             *)
(* src/desktop/src/net/http_client.cpp                                      *)
(*                                                                          *)
(* The port has every subsystem call send() of one client from a worker of  *)
(* its own, while the flag that tells an abort and the form being posted    *)
(* belong to the client: what two sends at once make of them is modelled    *)
(* step by step. libcurl and the server are external: they answer with the  *)
(* lines, the redirects and the end of a transfer that a run enumerates. A  *)
(* header is named by the answer it came in.                                *)
EXTENDS Integers, Sequences

CONSTANTS
    Senders,
    Requests,     \* [scheme, insecure, form]: "none" is the scheme of an empty URL
    MaxRedirects, \* 5
    Failures,     \* how a transfer may fail under way
    MaxHeaders,   \* bound on the headers of an answer
    None

VARIABLES
    at,        \* where each worker is in send()
    request,
    token,     \* the caller has cancelled
    abortFlag, \* abort_flag_
    form,      \* whose form request_post_state_ holds
    answer,    \* [hop, status, headers] of each send
    code,      \* what curl_easy_perform() returned
    result,
    crossed,   \* sends that ran while another did
    torn       \* history: a form was freed by another send than its own, which
               \* is posting it still or frees it a second time
vars == <<at, request, token, abortFlag, form, answer, code, result, crossed, torn>>

NoAnswer == [hop |-> 0, status |-> 0, headers |-> <<>>]
Init ==
    /\ at = [s \in Senders |-> "idle"] /\ request = [s \in Senders |-> None]
    /\ token = [s \in Senders |-> FALSE] /\ abortFlag = FALSE /\ form = None
    /\ answer = [s \in Senders |-> NoAnswer] /\ code = [s \in Senders |-> None]
    /\ result = [s \in Senders |-> None] /\ crossed = {} /\ torn = FALSE

Busy == {s \in Senders : at[s] # "idle"}
Go(s, there) == at' = [at EXCEPT ![s] = there]

-----------------------------------------------------------------------------
(* Before the transfer                                                      *)

\* An empty URL has no scheme to refuse: libcurl refuses it.
Refusal(q) ==
    CASE q.scheme \notin {"none", "http", "https"} -> "InvalidArgument"
      [] q.scheme = "http" /\ ~q.insecure -> "TlsError"
      [] OTHER -> None

Refuse(s, q) ==
    /\ at[s] = "idle" /\ Refusal(q) # None
    /\ request' = [request EXCEPT ![s] = q] /\ result' = [result EXCEPT ![s] = [error |-> Refusal(q)]]
    /\ answer' = [answer EXCEPT ![s] = NoAnswer] /\ code' = [code EXCEPT ![s] = None]
    /\ UNCHANGED <<at, token, abortFlag, form, crossed, torn>>
Send(s, q) ==
    /\ at[s] = "idle" /\ Refusal(q) = None
    /\ Go(s, "armed") /\ request' = [request EXCEPT ![s] = q]
    /\ form' = (IF q.form THEN s ELSE form) /\ token' = [token EXCEPT ![s] = FALSE]
    /\ answer' = [answer EXCEPT ![s] = NoAnswer]
    /\ code' = [code EXCEPT ![s] = None] /\ result' = [result EXCEPT ![s] = None]
    /\ crossed' = IF Busy = {} THEN crossed \ {s} ELSE crossed \cup Busy \cup {s}
    /\ UNCHANGED <<abortFlag, torn>>
Arm(s) ==
    /\ at[s] = "armed" /\ Go(s, "performing") /\ abortFlag' = FALSE
    /\ UNCHANGED <<request, token, form, answer, code, result, crossed, torn>>

\* Each send has a token of its own.
Cancel(s) ==
    /\ at[s] # "idle" /\ ~token[s] /\ token' = [token EXCEPT ![s] = TRUE]
    /\ UNCHANGED <<at, request, abortFlag, form, answer, code, result, crossed, torn>>

-----------------------------------------------------------------------------
(* The transfer                                                             *)

Receive(s, a) ==
    /\ at[s] = "performing" /\ answer' = [answer EXCEPT ![s] = a]
    /\ UNCHANGED <<at, request, token, abortFlag, form, code, result, crossed, torn>>

\* A status line is an answer of its own: the headers before it are another's.
AddStatus(a, status) == [a EXCEPT !.hop = @ + 1, !.status = status]   \* mutant: the headers stay
StatusLine(a, status) == [hop |-> a.hop + 1, status |-> status, headers |-> <<>>]
HeaderLine(s) ==
    /\ answer[s].hop > 0 /\ Len(answer[s].headers) < MaxHeaders
    /\ Receive(s, [answer[s] EXCEPT !.headers = Append(@, answer[s].hop)])
Answers(s, status) ==
    /\ at[s] = "performing" /\ request[s].scheme # "none" /\ (answer[s].hop = 0 \/ (answer[s].status = 301 /\ answer[s].hop <= MaxRedirects))
    /\ Receive(s, StatusLine(answer[s], status))

\* The progress callback, and the end that libcurl makes of an abort.
Poll(s) ==
    /\ at[s] = "performing" /\ token[s]
    /\ Go(s, "over") /\ abortFlag' = TRUE /\ code' = [code EXCEPT ![s] = "AbortedByCallback"]
    /\ UNCHANGED <<request, token, form, answer, result, crossed, torn>>
ResultCodes(s) ==
    IF request[s].scheme = "none" THEN {"UrlMalformat"}
    ELSE Failures
           \cup (IF answer[s].hop = 0 THEN {}
                 ELSE IF answer[s].status # 301 THEN {"Ok"}
                 ELSE IF answer[s].hop > MaxRedirects THEN {"TooManyRedirects"} ELSE {})
Finish(s, rc) ==
    /\ at[s] = "performing" /\ rc \in ResultCodes(s)
    /\ Go(s, "over") /\ code' = [code EXCEPT ![s] = rc]
    /\ UNCHANGED <<request, token, abortFlag, form, answer, result, crossed, torn>>

-----------------------------------------------------------------------------
(* After the transfer                                                       *)

\* The form is looked for, freed and forgotten in three steps, between which
\* another worker may post a form, or free this one.
FindForm(s) ==
    /\ at[s] = "over" /\ Go(s, IF form = None THEN "freed" ELSE "freeing")
    /\ UNCHANGED <<request, token, abortFlag, form, answer, code, result, crossed, torn>>
FreeForm(s) ==
    /\ at[s] = "freeing" /\ Go(s, "clearing") /\ torn' = (torn \/ form \notin {None, s})
    /\ UNCHANGED <<request, token, abortFlag, form, answer, code, result, crossed>>
KeepForm(s) == form' = form   \* mutant: freed and not forgotten
Forget(s) == form' = None
ForgetForm(s) ==
    /\ at[s] = "clearing" /\ Go(s, "freed") /\ Forget(s)
    /\ UNCHANGED <<request, token, abortFlag, answer, code, result, crossed, torn>>

ErrorOf(rc) ==
    CASE rc = "PeerFailedVerification" -> "TlsError"
      [] rc = "OperationTimedOut" -> "Timeout"
      [] rc = "CouldntConnect" -> "NetworkUnreachable"
      [] OTHER -> "HttpError"
OutcomeByAnswer(s) ==   \* mutant: an answer that broke off is an answer
    IF abortFlag THEN [error |-> "Cancelled"]
    ELSE IF code[s] # "Ok" /\ answer[s].hop = 0 THEN [error |-> ErrorOf(code[s])] ELSE [answer |-> answer[s]]
Outcome(s) ==
    IF abortFlag THEN [error |-> "Cancelled"]
    ELSE IF code[s] # "Ok" THEN [error |-> ErrorOf(code[s])] ELSE [answer |-> answer[s]]
Return(s) ==
    /\ at[s] = "freed" /\ Go(s, "idle") /\ result' = [result EXCEPT ![s] = Outcome(s)]
    /\ UNCHANGED <<request, token, abortFlag, form, answer, code, crossed, torn>>

Next ==
    \E s \in Senders :
        \/ \E q \in Requests : Refuse(s, q) \/ Send(s, q)
        \/ Arm(s) \/ Cancel(s) \/ HeaderLine(s) \/ \E status \in {200, 301} : Answers(s, status)
        \/ Poll(s) \/ (at[s] = "performing" /\ \E rc \in ResultCodes(s) : Finish(s, rc))
        \/ FindForm(s) \/ FreeForm(s) \/ ForgetForm(s) \/ Return(s)
Spec == Init /\ [][Next]_vars

-----------------------------------------------------------------------------

\* What a caller is handed is one whole answer, the last one, with the headers
\* of that answer and no other, and comes of a transfer that ended well; this
\* holds of sends that overlap too. A send that ran alone is cancelled exactly
\* when its own token stopped it, and leaves no form behind: no later send posts
\* or frees what it has freed. A request went out in the clear only if that was
\* asked for; a redirect is libcurl's to follow, and may lead there all the same.
\* Nothing is said of which of two overlapping sends is told of an abort, nor of
\* what comes after a send has freed the form of another: both can happen.
RequestsHold ==
    ~torn => \A s \in Senders :
        /\ result[s] # None /\ "answer" \in DOMAIN result[s] =>
              LET a == result[s].answer
              IN  /\ a = answer[s] /\ a.status # 301 /\ code[s] = "Ok"
                  /\ \A i \in DOMAIN a.headers : a.headers[i] = a.hop
        /\ s \notin crossed /\ result[s] # None /\ code[s] # None =>
              (result[s] = [error |-> "Cancelled"] <=> code[s] = "AbortedByCallback")
        /\ Busy = {} => form = None
        /\ answer[s].hop > 0 => request[s].scheme = "https" \/ request[s].insecure

-----------------------------------------------------------------------------
(* The inductive invariant                                                  *)

TypeOK ==
    /\ at \in [Senders -> {"idle", "armed", "performing", "over", "freeing", "clearing", "freed"}]
    /\ request \in [Senders -> Requests \cup {None}]
    /\ token \in [Senders -> BOOLEAN] /\ abortFlag \in BOOLEAN
    /\ form \in Senders \cup {None}
    /\ answer \in [Senders -> [hop : Nat, status : {0, 200, 301}, headers : Seq(Nat)]]
    /\ code \in [Senders -> Failures \cup {"Ok", "AbortedByCallback", "UrlMalformat", "TooManyRedirects", None}]
    /\ DOMAIN result = Senders
    /\ crossed \subseteq Senders /\ torn \in BOOLEAN

\* What a transfer has come to: it has no code before it is over, no result
\* before it returns, and it ends well only with an answer that is the last.
TransferInv ==
    \A s \in Senders :
        /\ at[s] # "idle" => request[s] # None /\ Refusal(request[s]) = None /\ result[s] = None
        /\ at[s] \in {"armed", "performing"} => code[s] = None
        /\ at[s] \in {"over", "freeing", "clearing", "freed"} => code[s] # None
        /\ code[s] = "Ok" => answer[s].hop > 0 /\ answer[s].status # 301
        /\ \A i \in DOMAIN answer[s].headers : answer[s].headers[i] = answer[s].hop
        /\ answer[s].hop > 0 => request[s].scheme = "https" \/ request[s].insecure

\* What is the client's: of two sends neither is alone, the flag is that of a
\* send which is, and the form that of one which has yet to free it.
ClientInv ==
    /\ form # None => at[form] \in {"armed", "performing", "over", "freeing", "clearing"}
    /\ \A s \in Senders : s \notin crossed /\ at[s] # "idle" =>
        /\ Busy = {s}
        /\ at[s] = "performing" => ~abortFlag
        /\ at[s] \in {"over", "freeing", "clearing", "freed"} => (abortFlag <=> code[s] = "AbortedByCallback")
HttpInv == TypeOK /\ TransferInv /\ ClientInv /\ RequestsHold
=============================================================================
