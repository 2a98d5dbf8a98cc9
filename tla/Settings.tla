------------------------------- MODULE Settings -------------------------------
(***************************************************************************)
(* Where a client's settings and its credential come from: the sources a   *)
(* library client reads (client/settings.rs, client/resolve.rs,            *)
(* auth/discover), and the reading the command line does by itself         *)
(* (aviso-cli config.rs, auth.rs, paths.rs).                               *)
(*                                                                         *)
(* A file is a record: `state` says whether it is there and can be read    *)
(* and parsed, and the rest is what it says.  An environment variable is   *)
(* "unset", "", "not unicode" or a value (for the address, the scheme of a *)
(* URL says so).  What may be unset elsewhere is a sequence of at most one *)
(* element.  Left out: the text of messages, where the files are and how a *)
(* relative path is made absolute.                                         *)
(***************************************************************************)
EXTENDS Integers, FiniteSets, Results

-----------------------------------------------------------------------------
(* Addresses (auth/discover/policy.rs).                                    *)

LoopbackHosts == {"localhost", "name.localhost", "127.0.0.1", "::1", "::ffff:127.0.0.1"}

KeepsCredentialsPrivate(url) ==
  url.scheme = "https" \/ (url.scheme = "http" /\ url.host \in LoopbackHosts)

PublicPlaintext(url) == url.scheme = "http" /\ ~KeepsCredentialsPrivate(url)

-----------------------------------------------------------------------------
(* Credentials.  A credential keeps the file it was read from as `of`.     *)

Bearer(token, of) ==
  IF token = "" THEN Err("config") ELSE Ok([kind |-> "bearer", secret |-> token, of |-> of])

Basic(user, of) ==
  IF user = "" \/ user = "a:b" THEN Err("config")
  ELSE Ok([kind |-> "basic", secret |-> user, of |-> of])

Nothing == [kind |-> "none", secret |-> "none", of |-> "none"]
IsNone(credential) == credential.kind = "none"

(* env::read_env_var, and Env::from_process_env with from_credentials.     *)
NotUnicode(env, names) == \E name \in names : env[name] = "not unicode"
HasValue(value) == value \notin {"unset", ""}
CredentialVars == {"token", "username", "password"}

EnvCredential(env) ==
  CASE env.token = "not unicode" -> Err("config")
    [] HasValue(env.token) /\ env.token # "not unicode" -> Bearer(env.token, "environment")
    [] ~HasValue(env.token) /\ NotUnicode(env, {"username", "password"}) -> Err("config")
    [] ~HasValue(env.token) /\ ~NotUnicode(env, {"username", "password"}) ->
         IF HasValue(env.username) /\ env.password # "unset"
         THEN Basic(env.username, "environment")
         ELSE Err("auth")

(* env_provider: nothing set is no credential, part of one is an error.    *)
EnvProvider(env) ==
  LET found == EnvCredential(env)
  IN IF ~found.ok /\ found.error = "auth" /\ ~\E name \in CredentialVars : HasValue(env[name])
     THEN Ok(Nothing) ELSE found

(* The auth block of a config file (config_content_provider).              *)
AuthBlock(file) ==
  CASE file.state = "unparseable" \/ file.auth = "malformed" -> Err("config")
    [] file.state = "good" /\ file.auth = "both" -> Err("auth")
    [] file.state = "good" /\ file.auth = "bearer" -> Bearer(file.secret, file.version)
    [] file.state = "good" /\ file.auth = "basic" -> Basic(file.secret, file.version)
    [] file.state = "good" /\ file.auth = "none" -> Ok(Nothing)

ConfigFileCredential(file) ==
  CASE file.state = "absent" -> Ok(Nothing)
    [] file.state = "unreadable" -> Err("config")
    [] file.state \in {"good", "unparseable"} -> AuthBlock(file)

(* A credentials file, which must hold exactly one credential.             *)
CredentialsFileCredential(file) ==
  CASE file.state = "absent" -> Ok(Nothing)
    [] file.state \in {"unreadable", "unparseable"} -> Err("config")
    [] file.state = "good" /\ file.auth \in {"both", "none", "malformed"} -> Err("config")
    [] file.state = "good" /\ file.auth \in {"bearer", "basic"} -> AuthBlock(file)

From(source, credential) == [source |-> source, credential |-> credential]
NotFound == From("none", Nothing)

(* discover_with: the first source that has one.  An unusable source is an *)
(* error, and no later one is tried.                                       *)
Discover(env, config, credentials) ==
  Then(EnvProvider(env), LAMBDA e :
    IF ~IsNone(e) THEN Ok(From("environment", e)) ELSE
    Then(ConfigFileCredential(config), LAMBDA c :
      IF ~IsNone(c) THEN Ok(From("config file", c)) ELSE
      Then(CredentialsFileCredential(credentials), LAMBDA f :
        IF ~IsNone(f) THEN Ok(From("credentials file", f)) ELSE Ok(NotFound))))

-----------------------------------------------------------------------------
(* What a library client uses (client/resolve.rs).                         *)

(* ClientSettings::read_default, parse: a file that is not there is empty. *)
LoadSettings(file) ==
  CASE file.state \in {"unreadable", "unparseable"} -> Err("config")
    [] file.state \in {"absent", "good"} -> Ok(file)

Sourced(value, source) == [value |-> value, source |-> source]

(* The first option that is given, of pairs <<option, source>>.            *)
FirstGiven(options, default) ==
  LET i == SelectInSeq(options, LAMBDA option : IsGiven(option[1]))
  IN IF i = 0 THEN Sourced(default, "default") ELSE Sourced(options[i][1], options[i][2])

EnvUrl(env) == IF HasValue(env.baseUrl.scheme) THEN Given(env.baseUrl) ELSE Unset

EnvAddress(inputs, env, readsEnv) ==
  IF IsGiven(inputs.url) \/ ~readsEnv THEN Unset ELSE EnvUrl(env)

(* inputs.auth may give a credential, or Nothing for a client that asks to *)
(* be anonymous.                                                           *)
ResolveAuth(inputs, env, content, credentials) ==
  IF IsGiven(inputs.auth) THEN Ok(From("code", inputs.auth[1]))
  ELSE Discover(env, content, credentials)

Address(inputs, env, readsEnv, file) ==
  FirstGiven(<<<<inputs.url, "code">>, <<EnvAddress(inputs, env, readsEnv), "environment">>,
               <<file.url, "config file">>>>, Unset)

(* A found credential may not be sent in the clear (auth/discover/policy). *)
Refused(source, address) ==
  source \notin {"code", "none"} /\ IsGiven(address) /\ PublicPlaintext(address[1])

(* resolve, once the config file has been read: `file` is what it set, and *)
(* `content` the text that is searched for a credential.                   *)
Resolution(inputs, env, readsEnv, file, auth) ==
  LET url == Address(inputs, env, readsEnv, file)
  IN [url       |-> url,
      timeout   |-> FirstGiven(<<<<inputs.timeout, "code">>, <<file.timeout, "config file">>>>, Unset),
      ca        |-> FirstGiven(<<<<file.ca, "config file">>>>, Given("none")),
      danger    |-> FirstGiven(<<<<inputs.danger, "code">>, <<file.danger, "config file">>>>, Given(FALSE)),
      auth      |-> auth,
      refused   |-> Refused(auth.source, url.value),
      fileReached |-> auth.source \in {"none", "credentials file"}]

Resolve(inputs, env, readsEnv, file, content, credentials) ==
  LET address == EnvAddress(inputs, env, readsEnv)
  IN IF IsGiven(address) /\ address[1].scheme = "not unicode" THEN Err("config")
     ELSE Then(ResolveAuth(inputs, env, content, credentials),
               LAMBDA auth : Ok(Resolution(inputs, env, readsEnv, file, auth)))

-----------------------------------------------------------------------------
(* What the command line uses (aviso-cli config.rs).                       *)

(* auth.rs: provider_from_flags and resolve_provider.                      *)
FlagCredential(flags) ==
  CASE IsGiven(flags.token) -> Bearer(flags.token[1], "flag")
    [] ~IsGiven(flags.token) /\ IsGiven(flags.username) /\ IsGiven(flags.password) ->
         Basic(flags.username[1], "flag")
    [] OTHER -> Ok(Nothing)

ResolveProvider(flags, env, file, credentials) ==
  Then(FlagCredential(flags), LAMBDA named :
    IF ~IsNone(named) THEN Ok(From("flag", named)) ELSE Discover(env, file, credentials))

(* resolve_tls: a tls block in the file is the source of both settings.    *)
HasTls(file) == IsGiven(file.ca) \/ IsGiven(file.danger)
TlsValue(file, option, default) ==
  CASE ~HasTls(file)                   -> Unset
    [] HasTls(file) /\ IsGiven(option) -> option
    [] OTHER                           -> Given(default)

CaBundle(flags, file) ==
  FirstGiven(<<<<flags.ca, "flag">>, <<TlsValue(file, file.ca, "none"), "config file">>>>, Given("none"))
AcceptInvalidCerts(flags, file) ==
  FirstGiven(<<<<flags.danger, "flag">>, <<TlsValue(file, file.danger, FALSE), "config file">>>>,
             Given(FALSE))

(* Mutation: the variable is asked before the flag.                        *)
CliAddressEnvFirst(flags, env, file) ==
  FirstGiven(<<<<EnvUrl(env), "environment">>, <<flags.url, "flag">>,
             <<file.url, "config file">>>>, Unset)
CliAddress(flags, env, file) ==
  FirstGiven(<<<<flags.url, "flag">>, <<EnvUrl(env), "environment">>,
             <<file.url, "config file">>>>, Unset)

CliResolve(flags, env, file, credentials) ==
  LET settings(auth) ==
        [url     |-> CliAddress(flags, env, file),
         timeout |-> FirstGiven(<<<<file.timeout, "config file">>>>, Unset),
         ca      |-> CaBundle(flags, file),
         danger  |-> AcceptInvalidCerts(flags, file),
         auth    |-> auth]
      garbled == NotUnicode(env, {"configFile", "stateFile"}) \/ env.baseUrl.scheme = "not unicode"
      auth    == ResolveProvider(flags, env, file, credentials)
  IN CASE garbled -> Err("usage")
       [] ~garbled /\ ~LoadSettings(file).ok -> Err("config")
       [] ~garbled /\ LoadSettings(file).ok /\ ~auth.ok ->
            Err(IF auth.error = "auth" THEN "usage" ELSE auth.error)
       [] OTHER -> Ok(settings(auth.value))

(* client_builder.rs: whether the command has a client to work with.       *)
CliBuild(settings) ==
  LET url == settings.url.value IN
  CASE ~IsGiven(url) -> Err("usage")
    [] IsGiven(url) /\ settings.auth.source \notin {"flag", "none"} /\ PublicPlaintext(url[1]) ->
         Err("usage")
    [] OTHER ->
  CASE settings.ca.value = Given("not a certificate") -> Err("usage")
    [] settings.ca.value # Given("not a certificate") /\ url[1].scheme \notin {"http", "https"} ->
         Err("config")
    [] OTHER -> Ok(settings)
=============================================================================
