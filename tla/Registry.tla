------------------------------ MODULE Registry ------------------------------
(***************************************************************************)
(* service.py's MethodRegistry: built once from the service configuration, *)
(* rule by rule, then asked for the method of each request.  The rules,    *)
(* then the OPTIONS methods that answer preflight requests for the URLs    *)
(* without one, then the usage rules, then the system parameters.          *)
(*                                                                         *)
(* A URL template is known by the paths it matches (path_regex); the       *)
(* leading slash is stripped from templates and paths alike.  "none"       *)
(* stands for a missing part of a rule.                                    *)
(***************************************************************************)
EXTENDS Integers, Sequences, FiniteSetsExt

CONSTANTS
  Configs,      \* service configurations: [http, auth, usage, params]
  Paths,        \* the paths of requests
  Matches,      \* the paths that the template of a URL matches
  BadUrls,      \* URLs whose template is no regular expression
  Lower,        \* str.lower() on the methods of rules and requests
  Reserved      \* the selectors tried for the OPTIONS methods, in order

\* _detect_pattern_option found a method and a URL, and there is a selector.
Bound(rule) == "none" \notin {rule.method, rule.url, rule.selector}

OPTIONS == "OPTIONS"

\* Rules are in lists, methods have lower case, usage rules allow or not.  The
\* names tried for the OPTIONS methods are as many as it takes, and not "none".
ASSUME RegistryAssumption ==
  /\ OPTIONS \in DOMAIN Lower
  /\ DOMAIN Reserved = 1..Len(Reserved)
  /\ \A k \in DOMAIN Reserved : Reserved[k] # "none"
  /\ \A c \in Configs :
       /\ DOMAIN c.http = 1..Len(c.http) /\ DOMAIN c.auth = 1..Len(c.auth)
       /\ DOMAIN c.usage = 1..Len(c.usage) /\ DOMAIN c.params = 1..Len(c.params)
       /\ \A i \in DOMAIN c.http : Bound(c.http[i]) => c.http[i].method \in DOMAIN Lower
       /\ \A i \in DOMAIN c.usage : c.usage[i].allow \in BOOLEAN
       /\ \E k \in DOMAIN Reserved :
            \A i \in DOMAIN c.http : c.http[i].selector # Reserved[k]

VARIABLES
  config,       \* the service being read
  phase,        \* "rules", "cors", "usage", "params" or "built"
  next,         \* the index of the next rule of the phase
  methods,      \* _extracted_methods: selector to MethodInfo
  templates,    \* _templates_method_infos, whose default is the empty list
  urls,         \* all_urls
  optionUrls,   \* urls_with_options
  cors          \* options_selector, "none" before it is chosen

registryVars ==
  <<config, phase, next, methods, templates, urls, optionUrls, cors>>

LowerMethods == {Lower[m] : m \in DOMAIN Lower}

\* _extract_auth_config: the last rule of a selector.
AuthInfo(selector) ==
  LET own == {i \in DOMAIN config.auth : config.auth[i].selector = selector}
  IN IF own = {} THEN "none" ELSE config.auth[Max(own)].audiences

\* MethodInfo.__init__, through _get_or_create_method_info.
WithMethod(ms, selector) ==
  IF selector \in DOMAIN ms THEN ms
  ELSE [s \in DOMAIN ms \cup {selector} |->
          IF s # selector THEN ms[s]
          ELSE [auth |-> AuthInfo(selector), unregistered |-> FALSE,
                body |-> "none", params |-> {}]]

\* _register: the method in lower case; a bad template is logged and skipped.
Register(ts, method, url, selector) ==
  IF url \in BadUrls THEN ts
  ELSE [ts EXCEPT ![Lower[method]] = Append(@, [url |-> url, selector |-> selector])]

\* A round of _extract_methods.  A custom kind is compared with OPTIONS as
\* it is written, but registered in lower case.
ExtractRule ==
  /\ phase = "rules" /\ next \in DOMAIN config.http
  /\ next' = next + 1
  /\ LET rule == config.http[next] IN
     IF ~Bound(rule) THEN UNCHANGED <<methods, templates, urls, optionUrls>>
     ELSE
       /\ methods' = [WithMethod(methods, rule.selector) EXCEPT
                        ![rule.selector].body =
                          IF rule.body = "none" THEN @ ELSE rule.body]
       /\ templates' = Register(templates, rule.method, rule.url, rule.selector)
       /\ urls' = urls \cup ({rule.url} \ BadUrls)
       /\ optionUrls' = IF rule.method = OPTIONS
                          THEN optionUrls \cup ({rule.url} \ BadUrls)
                          ELSE optionUrls
  /\ UNCHANGED <<config, phase, cors>>

\* Mutant of CorsSelector: the first name is always used.
CorsSelectorFirst(ms) == 1

\* The first of svc.OPTIONS, svc.OPTIONS.1, ... that is not taken.
CorsSelector(ms) == Min({i \in DOMAIN Reserved : Reserved[i] \notin DOMAIN ms})

\* _add_cors_options_selectors, up to its loop: the method of the preflights.
AddCorsOptions ==
  /\ phase = "rules" /\ next > Len(config.http)
  /\ phase' = "cors"
  /\ cors' = Reserved[CorsSelector(methods)]
  /\ methods' = [WithMethod(methods, cors') EXCEPT ![cors'].unregistered = TRUE]
  /\ UNCHANGED <<config, next, templates, urls, optionUrls>>

\* A round of its loop over all_urls - urls_with_options, a set in any order;
\* optionUrls becomes what needs no more.
RegisterOptions ==
  \E url \in urls \ optionUrls :
    /\ phase = "cors"
    /\ templates' = Register(templates, OPTIONS, url, cors)
    /\ optionUrls' = optionUrls \cup {url}
    /\ UNCHANGED <<config, phase, next, methods, urls, cors>>

\* A round of _update_usage: selectors without a method are logged.
UpdateUsage ==
  /\ phase = "usage" /\ next \in DOMAIN config.usage
  /\ next' = next + 1
  /\ LET rule == config.usage[next] IN
     methods' = IF rule.selector \notin DOMAIN methods THEN methods
                ELSE [methods EXCEPT ![rule.selector].unregistered = rule.allow]
  /\ UNCHANGED <<config, phase, templates, urls, optionUrls, cors>>

\* A round of _update_system_parameters: the named parameters.
UpdateSystemParameters ==
  /\ phase = "params" /\ next \in DOMAIN config.params
  /\ next' = next + 1
  /\ LET rule == config.params[next] IN
     methods' = IF rule.selector \notin DOMAIN methods THEN methods
                ELSE [methods EXCEPT ![rule.selector].params =
                        @ \cup (rule.names \ {"none"})]
  /\ UNCHANGED <<config, phase, templates, urls, optionUrls, cors>>

\* A loop has ended, and the next one begins.
NextPhase ==
  /\ \/ phase = "cors" /\ urls \subseteq optionUrls /\ phase' = "usage"
     \/ phase = "usage" /\ next > Len(config.usage) /\ phase' = "params"
     \/ phase = "params" /\ next > Len(config.params) /\ phase' = "built"
  /\ next' = 1
  /\ UNCHANGED <<config, methods, templates, urls, optionUrls, cors>>

RegistryInit ==
  /\ config \in Configs
  /\ phase = "rules" /\ next = 1
  /\ methods = [s \in {} |-> "none"] /\ templates = [m \in LowerMethods |-> <<>>]
  /\ urls = {} /\ optionUrls = {} /\ cors = "none"

RegistryNext ==
  \/ ExtractRule \/ AddCorsOptions \/ RegisterOptions
  \/ UpdateUsage \/ UpdateSystemParameters \/ NextPhase

RegistrySpec == RegistryInit /\ [][RegistryNext]_registryVars

\* lookup: the selector of the first template that matches, or "none".
Matching(method, path) ==
  {i \in DOMAIN templates[Lower[method]] :
     path \in Matches[templates[Lower[method]][i].url]}
Lookup(method, path) ==
  IF Matching(method, path) = {} THEN "none"
  ELSE templates[Lower[method]][Min(Matching(method, path))].selector

-----------------------------------------------------------------------------
(* Reference: what the configuration says of a request. *)

\* The rules that can be used, those that match a path, and those of them that
\* are for a method.
UsableRules ==
  {i \in DOMAIN config.http :
     Bound(config.http[i]) /\ config.http[i].url \notin BadUrls}
Declaring(path) == {i \in UsableRules : path \in Matches[config.http[i].url]}
DeclaredFor(method, path) ==
  {i \in Declaring(path) : Lower[config.http[i].method] = Lower[method]}

\* Whether a usage rule names a selector, and whether the last one to do so
\* admits callers without a key.
UsageNames(selector) ==
  \E i \in DOMAIN config.usage : config.usage[i].selector = selector
LastAllows(selector) ==
  \E i \in DOMAIN config.usage :
    /\ config.usage[i].selector = selector /\ config.usage[i].allow
    /\ \A j \in DOMAIN config.usage : j > i => config.usage[j].selector # selector

\* A built registry answers a request with the first rule that declares its
\* method and path.  A preflight request for any declared path is answered,
\* and if no rule declares it, by a method that no rule uses and that admits
\* callers without a key, unless a usage rule guesses its name; every other
\* method has the audiences and the admission of the last rules naming it.
\* The four passes over the configuration never disagree.
LookupAnswers ==
  phase = "built" =>
    \A path \in Paths, method \in DOMAIN Lower :
      LET rules == DeclaredFor(method, path)
          found == Lookup(method, path)
      IN /\ rules # {} =>
              /\ found = config.http[Min(rules)].selector
              /\ methods[found].auth = AuthInfo(found)
              /\ methods[found].unregistered <=> LastAllows(found)
         /\ rules = {} /\ Lower[method] # Lower[OPTIONS] => found = "none"
         /\ rules = {} /\ Lower[method] = Lower[OPTIONS] =>
              IF Declaring(path) = {} THEN found = "none"
              ELSE /\ found # "none"
                   /\ \A i \in UsableRules : found # config.http[i].selector
                   /\ methods[found].unregistered <=>
                        (UsageNames(found) => LastAllows(found))
=============================================================================
