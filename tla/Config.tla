------------------------------- MODULE Config -------------------------------
(***************************************************************************)
(* internal/config/config.go: defaults and validation of the configuration *)
(* file; internal/httpapi/server.go: the profile a slug stands for.        *)
(*                                                                         *)
(* A configuration is [refresh, profiles], a profile [name, slug, url,     *)
(* template], where "" and 0 are what YAML leaves unset.  Of a template it *)
(* matters whether it contains {node}; one that does is "{node}".          *)
(***************************************************************************)
EXTENDS Integers, Sequences

DefaultRefreshIntervalSeconds == 5
DefaultNodeHostnameTemplate == "{node}"

EffectiveSlug(p) == IF p.slug # "" THEN p.slug ELSE p.name

ApplyDefaults(config) ==
  [refresh  |-> IF config.refresh = 0 THEN DefaultRefreshIntervalSeconds
                                      ELSE config.refresh,
   profiles |-> [i \in DOMAIN config.profiles |->
     LET p == config.profiles[i]
     IN  [p EXCEPT
           !.template = IF @ = "" THEN DefaultNodeHostnameTemplate ELSE @,
           !.slug = EffectiveSlug(p)]]]

(* Mutant: names are unique, and so are the slugs that are set. *)
ValidNamesOnly(config) ==
  /\ config.profiles # <<>>
  /\ \A i \in DOMAIN config.profiles :
       LET p == config.profiles[i]
       IN  /\ p.name # "" /\ p.url # "" /\ p.template = "{node}"
           /\ \A j \in 1 .. (i - 1) :
                /\ config.profiles[j].name # p.name
                /\ p.slug = p.name \/ config.profiles[j].slug # p.slug

Valid(config) ==
  /\ config.profiles # <<>>
  /\ \A i \in DOMAIN config.profiles :
       LET p == config.profiles[i]
       IN  /\ p.name # "" /\ p.url # "" /\ p.template = "{node}"
           /\ \A j \in 1 .. (i - 1) :
                /\ config.profiles[j].name # p.name
                /\ EffectiveSlug(config.profiles[j]) # EffectiveSlug(p)

-----------------------------------------------------------------------------
(* Server.profile: the first profile with the slug. *)
ProfilesAt(config, slug) ==
  {i \in DOMAIN config.profiles : EffectiveSlug(config.profiles[i]) = slug}

ProfileAt(config, slug) ==
  config.profiles[CHOOSE i \in ProfilesAt(config, slug) :
                    \A j \in ProfilesAt(config, slug) : i <= j]

(* handleListProfiles *)
ListProfiles(config) ==
  [refresh  |-> config.refresh,
   profiles |-> [i \in DOMAIN config.profiles |->
                   [name |-> config.profiles[i].name,
                    slug |-> EffectiveSlug(config.profiles[i])]]]
=============================================================================
