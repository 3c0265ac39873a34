-------------------------------- MODULE Settings --------------------------------
(* The configurations the API starts with: the validators of Settings, setting  *)
(* by setting and together. An address is abstracted to what the validators     *)
(* tell apart.                                                                  *)
EXTENDS Naturals

\* plain: http or a database without TLS; tls: https or an sslmode that encrypts;
\* malformed: another scheme, credentials, a path or a query. A name is only
\* compared where the code compares it.
Origins ==
    [scheme : {"plain", "tls", "malformed"}, host : {"loopback", "remote"}]

Secrets == {"none", "short", "long"}

SettingsSpace ==
    [environment : {"development", "test", "production", "other"},
     supabase : Origins,
     jwks : Origins,                    \* the origin supabase_jwks_url is a child of
     resend : Origins \cup {[scheme |-> "tls", host |-> "resend.com"]},
     database : Origins,
     algorithms : {"HS256", "asymmetric", "mixed"},
     jwtSecret : Secrets,
     ticketSecret : Secrets \ {"none"},
     cors : {"https", "local", "any"},
     header : BOOLEAN,                  \* trusted_client_ip_header is set
     proxies : BOOLEAN,                 \* trusted_proxy_cidrs is not empty
     bodyCap : {"roomy", "tight"},      \* more than 10 MiB or not
     workers : {1, 2}]

Production(s) == s.environment = "production"

\* Mutant of ServiceUrlAccepted: one of the two reasons against http is enough.
ServiceUrlAcceptedEither(s, url) ==
    /\ url.scheme # "malformed"
    /\ url.scheme = "plain" => url.host = "loopback" \/ ~Production(s)

\* validate_service_url: an origin, encrypted unless local and not in production.
ServiceUrlAccepted(s, url) ==
    /\ url.scheme # "malformed"
    /\ url.scheme = "plain" => url.host = "loopback" /\ ~Production(s)

DatabaseAccepted(url) ==
    /\ url.scheme # "malformed"
    /\ url.host = "remote" => url.scheme = "tls"

\* The validators that look at one setting.
EachAccepted(s) ==
    /\ s.environment # "other"
    /\ s.cors # "any"
    /\ s.algorithms # "mixed"
    /\ s.ticketSecret = "long"

\* A shared secret for tokens goes with a local Supabase outside production.
SecretAccepted(s) ==
    IF s.algorithms = "HS256"
    THEN ~Production(s) /\ s.supabase.host = "loopback" /\ s.jwtSecret = "long"
    ELSE s.jwtSecret = "none"

\* The validator that looks at the settings together. PUBLIC_API_URL passes the
\* test of the two other service addresses and is left out: nothing is sent to it.
TogetherAccepted(s) ==
    /\ s.workers = 1
    /\ s.bodyCap = "roomy"
    /\ Production(s) => s.cors = "https"
    /\ s.header => s.proxies
    /\ ServiceUrlAccepted(s, s.resend)
    /\ ServiceUrlAccepted(s, s.supabase)
    /\ s.jwks = s.supabase
    /\ Production(s) => s.resend.host = "resend.com"
    /\ DatabaseAccepted(s.database)
    /\ SecretAccepted(s)

AcceptedSettings == {s \in SettingsSpace : EachAccepted(s) /\ TogetherAccepted(s)}

--------------------------------------------------------------------------------
\* Everything that carries a key, a token or a lead, and the document the token
\* keys are read from, is encrypted or stays on the machine, in production it is
\* encrypted even there (but for the database), and a secret that signs tokens
\* never goes with a Supabase project others can reach.
SafeSettings(s) ==
    /\ \A url \in {s.supabase, s.jwks, s.resend, s.database} :
        url.scheme = "tls" \/ url = [scheme |-> "plain", host |-> "loopback"]
    /\ Production(s) => {s.supabase.scheme, s.jwks.scheme, s.resend.scheme} = {"tls"}
    /\ s.jwtSecret # "none" => s.jwks.host = "loopback"
================================================================================
