------------------------------ MODULE Settings ------------------------------
(***************************************************************************)
(* How a command finds its settings (src/settings.rs): the command line,   *)
(* the environment, one configuration file and the defaults are merged in  *)
(* this order, and the result is validated once, at the end.               *)
(*                                                                         *)
(* Settings that the code treats alike are represented by a few of their   *)
(* kind.  A path is the sequence of its components.                        *)
(***************************************************************************)
EXTENDS Naturals, Sequences, FiniteSets

CONSTANTS None, Err

Chains == {"mainnet", "regtest", "signet"}
Flags == {"calendar_enabled", "ecash_enabled", "encrypted_only_preference", "open_to_unencrypted", "index_sats"}
Numbers == {"market_contract_amount_sats", "ecash_settlement_threshold_sats", "commit_interval"}
Lists == {"ecash_mint_urls", "ecash_mint_allowlist", "p2p_bootstrap_peers"}
Texts == {"bitcoin_rpc_url", "bitcoin_rpc_username", "bitcoin_rpc_password", "calendar_url"}
Paths == {"config", "config_dir", "data_dir", "bitcoin_data_dir", "cookie_file", "index"}
Optional == {"chain"} \union Numbers \union Lists \union Texts \union Paths
Fields == Flags \union Optional

Default == [f \in Fields |-> IF f \in Flags THEN FALSE ELSE None]

\* The fields that have a command line option.
CliFields ==
  {"chain", "index_sats", "commit_interval", "bitcoin_rpc_url", "bitcoin_rpc_username", "bitcoin_rpc_password"}
  \union Paths

\* A flag that any layer sets stays set; an optional value of the earlier layer wins.
or(self, source) ==
  [f \in Fields |->
    IF f \in Flags THEN self[f] \/ source[f] ELSE IF self[f] # None THEN self[f] ELSE source[f]]

\* --signet, --regtest, ... and --chain form a group of which one may be given.
ChainOption(options) == IF options.chain_flag # None THEN options.chain_flag ELSE options.chain_argument
from_options(options) ==
  [f \in Fields |->
    CASE f = "chain" -> ChainOption(options)
      [] f # "chain" /\ f \in CliFields \intersect DOMAIN options -> options[f]
      [] OTHER -> Default[f]]

\* The value of a variable: a flag is set by any text but the empty one, and
\* only the lists of mints drop empty entries.
Parsed(f, text) ==
  CASE f \in Flags -> text # ""
    [] f \in Numbers -> IF text \in Nat THEN text ELSE Err
    [] f = "chain" -> IF text \in Chains THEN text ELSE Err
    [] f \in {"ecash_mint_urls", "ecash_mint_allowlist"} -> SelectSeq(text, LAMBDA entry : entry # "")
    [] OTHER -> text
from_env(env) ==
  IF \E f \in DOMAIN env : Parsed(f, env[f]) = Err THEN Err
  ELSE [f \in Fields |-> IF f \in DOMAIN env THEN Parsed(f, env[f]) ELSE Default[f]]

-----------------------------------------------------------------------------
\* Paths and defaults

DefaultDataDir == <<"home", "ord">>
DefaultBitcoinDir == <<"home", "bitcoin">>
OrElse(value, default) == IF value # None THEN value ELSE default

join_with_data_dir(chain, dir) == IF chain = "mainnet" THEN dir ELSE Append(dir, chain)
default_rpc_port(chain) == <<"127.0.0.1", chain>>

or_defaults(s) ==
  LET chain == OrElse(s.chain, "mainnet")
      bitcoin == OrElse(s.bitcoin_data_dir, DefaultBitcoinDir)
      data == join_with_data_dir(chain, OrElse(s.data_dir, DefaultDataDir))
  IN [s EXCEPT !.chain = chain,
               !.bitcoin_data_dir = bitcoin,
               !.bitcoin_rpc_url = OrElse(@, default_rpc_port(chain)),
               !.cookie_file = OrElse(@, Append(join_with_data_dir(chain, bitcoin), ".cookie")),
               !.data_dir = data,
               !.index = OrElse(@, Append(data, "index")),
               !.commit_interval = OrElse(@, 5000),
               !.config = None, !.config_dir = None]

\* The file that is read: the one named, or the first of two names in one directory.
config_path(s, files) ==
  LET dir == OrElse(s.config_dir, OrElse(s.data_dir, DefaultDataDir))
      found == SelectSeq(<<Append(dir, "lord.yaml"), Append(dir, "ord.yaml")>>, LAMBDA p : p \in DOMAIN files)
  IN IF s.config # None THEN s.config ELSE IF found # <<>> THEN Head(found) ELSE None

-----------------------------------------------------------------------------
\* Validation

Entries(list) == IF list = None THEN {} ELSE {list[i] : i \in DOMAIN list}

\* Scheme in lower case, no slash at the end; a URL is <<scheme, rest, slashes>>.
normalize_mint_url(url) ==
  <<IF url[1] = "HTTPS" THEN "https" ELSE IF url[1] = "HTTP" THEN "http" ELSE url[1], url[2]>>
validate_mint_allowlist(s) ==
  \/ Entries(s.ecash_mint_allowlist) = {}
  \/ \A url \in Entries(s.ecash_mint_urls) :
       \E allowed \in Entries(s.ecash_mint_allowlist) : normalize_mint_url(allowed) = normalize_mint_url(url)
ecash_settlement_threshold_sats(s) == OrElse(s.ecash_settlement_threshold_sats, 1000)
validate_ecash(s) ==
  /\ s.ecash_enabled => Entries(s.ecash_mint_urls) # {}
  /\ s.ecash_enabled => ecash_settlement_threshold_sats(s) # 0
  /\ validate_mint_allowlist(s)
validate_settlement_pricing(s) == s.market_contract_amount_sats # 0
CredentialsPaired(s) == (s.bitcoin_rpc_username = None) <=> (s.bitcoin_rpc_password = None)
Valid(s) ==
  /\ CredentialsPaired(s)
  /\ ~(s.encrypted_only_preference /\ s.open_to_unencrypted)
  /\ validate_ecash(s)
  /\ validate_settlement_pricing(s)

-----------------------------------------------------------------------------
\* files: what the configuration files hold; Err for one that does not parse.
Config(s, files) ==
  LET path == config_path(s, files)
  IN IF path = None THEN Default ELSE IF path \in DOMAIN files THEN files[path] ELSE Err

Checked(s) == IF Valid(s) THEN s ELSE Err

\* Mutant: the defaults are filled in before the file is read.
merge_defaults_first(options, env, files) ==
  LET e == from_env(env)
      s == or(from_options(options), e)
  IN IF e = Err THEN Err ELSE IF Config(s, files) = Err THEN Err
     ELSE Checked(or(or_defaults(s), Config(s, files)))

merge(options, env, files) ==
  LET e == from_env(env)
      s == or(from_options(options), e)
  IN IF e = Err THEN Err ELSE IF Config(s, files) = Err THEN Err
     ELSE Checked(or_defaults(or(s, Config(s, files))))

\* What the other components take from the settings.
bitcoin_credentials(s) ==
  IF s.bitcoin_rpc_username # None /\ s.bitcoin_rpc_password # None
  THEN <<s.bitcoin_rpc_username, s.bitcoin_rpc_password>> ELSE <<"cookie", s.cookie_file>>

-----------------------------------------------------------------------------
\* Which calendar `lord commit timestamp` and `upgrade` talk to.  A URL is its
\* host followed by the pieces of its path; active is the URL that a running
\* listener wrote to the calendar directory.

ListenUrl == <<"calendar_listen", "/timestamp">>
EMBEDDED_DEFAULT_CALENDAR_URL == <<"127.0.0.1:14788", "/timestamp">>
DEFAULT_CALENDAR_URL == <<"alice.btc.calendar.opentimestamps.org", "/timestamp">>

Embedded(s) == s.calendar_enabled \/ s.chain = "regtest"
calendar_timestamp_url(s, active) ==
  IF s.calendar_url # None THEN s.calendar_url ELSE IF Embedded(s) THEN OrElse(active, ListenUrl) ELSE None
effective_calendar_url(s, settings_url, cli_url) ==
  OrElse(cli_url, OrElse(settings_url,
    IF Embedded(s) THEN EMBEDDED_DEFAULT_CALENDAR_URL ELSE DEFAULT_CALENDAR_URL))

\* One "/timestamp" at the very end is dropped, then every slash at the end.
calendar_upgrade_url_from_timestamp(url) ==
  LET base == IF url[Len(url)] = "/timestamp" THEN SubSeq(url, 1, Len(url) - 1) ELSE url
      kept == CHOOSE n \in 0 .. Len(base) : /\ \A i \in n + 1 .. Len(base) : base[i] = "/"
                                            /\ n > 0 => base[n] # "/"
  IN Append(SubSeq(base, 1, kept), "/upgrade")

effective_calendar_upgrade_url(s, settings_url, cli_url) ==
  calendar_upgrade_url_from_timestamp(effective_calendar_url(s, settings_url, cli_url))

TimestampUrl(s, active, cli_url) == effective_calendar_url(s, calendar_timestamp_url(s, active), cli_url)
UpgradeUrl(s, active, cli_url) == effective_calendar_upgrade_url(s, calendar_timestamp_url(s, active), cli_url)

-----------------------------------------------------------------------------
\* `lord market offer`: a flag of the command line can set a preference but not
\* take one back, and an offer without either preference is public.

InEffect(given, preference) == given \/ preference
MarketNamespace(encrypted_only) == IF encrypted_only THEN "Odd" ELSE "Public"
publish_provider_offer(s, offer) ==
  LET encrypted_only == InEffect(offer.encrypted_only, s.encrypted_only_preference)
      open_to_unencrypted == InEffect(offer.open_to_unencrypted, s.open_to_unencrypted)
  IN IF offer.capacity_gib = 0 \/ (encrypted_only /\ open_to_unencrypted) THEN Err
     ELSE [offer EXCEPT !.encrypted_only = encrypted_only, !.open_to_unencrypted = open_to_unencrypted]
list_offers_in_namespace(offers, namespace) ==
  {o \in offers : MarketNamespace(o.encrypted_only) = namespace}
=============================================================================
