--------------------------------- MODULE Session ---------------------------------
(***************************************************************************)
(* The process around the runs: its settings from the environment and from *)
(* the catalog, its calls to the catalog with a token that lasts (Katalog- *)
(* Client), and its report of the rules it packages with (RulesReporter).  *)
(*                                                                         *)
(* An answer of the token endpoint is how long its token lasts, -1 for an  *)
(* error.  An answer of the catalog is "ok", "401", "unsupported" (404 or  *)
(* 405), "error" or "lost" (the transport's).                              *)
(***************************************************************************)
EXTENDS Integers, Sequences, FiniteSets, SequencesExt

(***************************************************************************)
(* Calls.                                                                  *)
(***************************************************************************)

TOKEN_REFRESH_LEAD_SECONDS == 30
TIMEOUT_SECONDS == 30  \* of a request

\* A client's token: its number, counted from 1 as they are given, how long
\* it is used, and when it ends; NoToken is none.
NoToken == [number |-> 0, until |-> 0, ends |-> 0]

KeptToken(token, now) == token # NoToken /\ now < token.until

\* The client after it made sure of a token: asked counts the tokens asked
\* for; ttl is the endpoint's answer.
EnsureToken(client, now, ttl) ==
  IF KeptToken(client.token, now) THEN [client EXCEPT !.held = TRUE]
  ELSE IF ttl < 0 THEN [client EXCEPT !.held = FALSE]
  ELSE [client EXCEPT !.held = TRUE, !.given = @ + 1,
          !.token = [number |-> client.given + 1, until |-> now + ttl - TOKEN_REFRESH_LEAD_SECONDS,
                     ends |-> now + ttl]]

Sent(client, now, answer) == [token |-> client.token, at |-> now, answer |-> answer]

\* Mutant of Attempt: a refused token is kept.
AttemptWithSame(client, now, ttl, answer) ==
  LET c == EnsureToken(client, now, ttl)
  IN IF ~ c.held THEN [c EXCEPT !.out = "raised", !.again = FALSE]
     ELSE [c EXCEPT !.sent = Append(@, Sent(c, now, answer)), !.out = IF answer = "lost" THEN "raised" ELSE answer,
                    !.again = answer = "401"]

\* One request: a 401 throws the token away and is asked once more.  answers
\* and ttls are what each attempt would be answered.
Attempt(client, now, ttl, answer) ==
  LET c == EnsureToken(client, now, ttl)
  IN IF ~ c.held THEN [c EXCEPT !.out = "raised", !.again = FALSE]
     ELSE [c EXCEPT !.sent = Append(@, Sent(c, now, answer)), !.out = IF answer = "lost" THEN "raised" ELSE answer,
                    !.again = answer = "401",
                    !.token = IF answer = "401" /\ Len(c.sent) = 0 THEN NoToken ELSE @]

Request(client, now, ttls, answers) ==
  LET first == Attempt([client EXCEPT !.sent = <<>>], now, ttls[1], answers[1])
  IN IF first.again THEN Attempt(first, now, ttls[2], answers[2]) ELSE first

NewClient == [token |-> NoToken, held |-> FALSE, given |-> 0, sent |-> <<>>, again |-> FALSE, out |-> "none"]

\* The settings of a run: none wherever they can't be had.
SettingsOf(client, values) == IF client.out = "ok" THEN values ELSE << >>

(***************************************************************************)
(* Settings.                                                               *)
(***************************************************************************)

\* The languages shown and whether a single track of another is too.
ParseSettings(raw) ==
  [whitelist |-> IF "whitelist" \in DOMAIN raw THEN Range(raw.whitelist) \ {""} ELSE {},
   single |-> IF "single" \in DOMAIN raw THEN raw.single \in {"true", "1", "yes"} ELSE TRUE]

SURROUND_CODECS == {"eac3", "ac3", "off"}
Required == {"KATALOG_API_URL", "OIDC_TOKEN_URL", "OIDC_CLIENT_ID", "OIDC_CLIENT_SECRET"}

\* A process starts only with what it can't do without: {} otherwise.
FromEnv(env) ==
  IF env.surround \notin SURROUND_CODECS \/ ~ Required \subseteq env.given THEN {}
  ELSE {[surround |-> env.surround, preferred |-> env.preferred]}

\* What every run packages with; an empty name among the preferred
\* languages is none.
AddPreferred(kept, l) == IF l = "" THEN kept ELSE Append(kept, l)
PackageOptions(config) ==
  [surround |-> config.surround, preferred |-> FoldLeft(AddPreferred, <<>>, config.preferred)]

\* The prefix of the extras' topic ends with one dot.
TopicPrefix(raw) == IF raw = <<>> THEN <<"stube", ".">> ELSE IF Last(raw) = "." THEN raw ELSE Append(raw, ".")

\* What the rules' report says the process packages with.
RulesPayload(options, tools) ==
  [surroundAudio |-> options.surround, preferredLanguages |-> options.preferred,
   imageSubtitles |-> IF {"mkvmerge", "mkvextract"} \subseteq tools THEN {"pgs", "vobsub"} ELSE {"pgs"}]

(***************************************************************************)
(* The report.                                                             *)
(***************************************************************************)

Reporter == [rounds |-> 0, unsupportedSaid |-> FALSE, said |-> 0, reported |-> FALSE, taken |-> FALSE]

\* One report; nothing it is answered ends the reporter.
ReportOnce(reporter, answer) ==
  LET r == [reporter EXCEPT !.rounds = @ + 1, !.taken = answer = "ok"]
  IN CASE answer = "unsupported" -> [r EXCEPT !.unsupportedSaid = TRUE,
                                              !.said = IF reporter.unsupportedSaid THEN @ ELSE @ + 1]
       [] answer = "ok" -> [r EXCEPT !.reported = TRUE]
       [] OTHER -> r

\* The rounds until the process stops, each an interval after the other.
RunReporter(answers) == FoldLeft(ReportOnce, Reporter, answers)
=============================================================================
