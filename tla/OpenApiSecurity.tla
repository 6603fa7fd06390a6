-------------------------- MODULE OpenApiSecurity --------------------------
(* Security requirements.  A list of requirements is a sequence of          *)
(* functions from scheme names to sets of scopes; the registry and the      *)
(* credentials are functions from scheme names.  A scheme is                *)
(* [type, scheme, declared], where declared are the scopes of its flows.    *)
(*                                                                          *)
(* A credential is [present, value, scheme, scopes, bare]: present is what  *)
(* the caller says outright (Null when it does not), value whether there is *)
(* text that is not blank, scheme the HTTP scheme that text or the object   *)
(* names (Null when there is none), scopes a set or Null, and bare marks a  *)
(* plain list of scopes, which is no credential outside OAuth.              *)
EXTENDS OpenApiParameters

CONSTANT Invalid    \* a value that is no list of requirements

(* A document has schemes of these types only; for any other the code throws. *)
SecuritySchemeTypes == {"apiKey", "http", "mutualTLS", "oauth2", "openIdConnect"}
KnownSchemes(registry) ==
    \A name \in DOMAIN registry : registry[name].type \in SecuritySchemeTypes

NoCredential == [present |-> FALSE, value |-> FALSE, scheme |-> Null,
                 scopes |-> Null, bare |-> FALSE]
Told(present) == [NoCredential EXCEPT !.present = present]
HttpCredential(scheme) == [NoCredential EXCEPT !.present = Null, !.value = TRUE, !.scheme = scheme]
ScopeList(scopes) == [NoCredential EXCEPT !.present = Null, !.scopes = scopes, !.bare = TRUE]
AccessToken(scopes) == [NoCredential EXCEPT !.present = Null, !.value = TRUE, !.scopes = scopes]

(* present, where it is said, is believed. *)
Believed(credential, otherwise) ==
    IF credential.present # Null THEN credential.present ELSE otherwise

HasPlainCredential(credential) ==
    ~credential.bare /\ Believed(credential, credential.value)
HasHttpCredential(credential) ==
    ~credential.bare /\ Believed(credential, credential.value \/ credential.scheme # Null)
HasScopedCredential(credential) ==
    Believed(credential, credential.value \/ credential.scopes \notin {Null, {}})

ExtractCredentialScopes(credential) ==
    IF credential.scopes = Null THEN {} ELSE credential.scopes

(* A credential whose scheme cannot be told passes for any HTTP scheme. *)
HttpSchemeFits(scheme, credential) ==
    credential.scheme \in {Null, scheme.scheme}

SchemeSatisfied(scheme, requiredScopes, credential) ==
    CASE scheme.type \in {"apiKey", "mutualTLS"} -> HasPlainCredential(credential)
      [] scheme.type = "http" ->
            HasHttpCredential(credential) /\ HttpSchemeFits(scheme, credential)
      [] scheme.type \in {"oauth2", "openIdConnect"} ->
            /\ HasScopedCredential(credential)
            /\ requiredScopes \subseteq ExtractCredentialScopes(credential)

----------------------------------------------------------------------------
(* Options are [mode, unknownSchemes, enforceScopeDeclarations].            *)

IsStrictMode(options) == options.mode = "strict"
ResolveUnknownSchemeHandling(options) ==
    IF options.unknownSchemes # Null THEN options.unknownSchemes
    ELSE IF IsStrictMode(options) THEN "error" ELSE "ignore"

(* parseOpenApiSecurityRequirements refuses anything but an array. *)
IsRequirementList(value) == value # Invalid

(* An operation's list stands for the document's even when it is empty. *)
ResolveEffectiveSecurity(rootSecurity, operationSecurity) ==
    CASE operationSecurity # Null -> operationSecurity
      [] operationSecurity = Null /\ rootSecurity # Null -> rootSecurity
      [] OTHER -> <<>>

CollectRequirementDiagnostics(requirements, registry, options) ==
    UNION {{<<i, name>> : name \in {n \in DOMAIN requirements[i] :
                IF n \notin DOMAIN registry
                THEN ResolveUnknownSchemeHandling(options) = "error"
                ELSE /\ options.enforceScopeDeclarations
                     /\ registry[n].type \in {"oauth2", "openIdConnect"}
                     /\ ~(requirements[i][n] \subseteq registry[n].declared)}}
           : i \in DOMAIN requirements}

(* validateOpenApiSecurityRequirements and normalizeOpenApiSecurityRequire- *)
(* ments throw for the same lists; scopes are sets here, so that to         *)
(* normalize (sort, drop repeats) changes nothing.                          *)
ValidationThrows(value, registry, options) ==
    \/ ~IsRequirementList(value)
    \/ /\ IsStrictMode(options)
       /\ CollectRequirementDiagnostics(value, registry, options) # {}

CredentialFor(credentials, name) ==
    IF name \in DOMAIN credentials THEN credentials[name] ELSE NoCredential

(* Mutant: {} admits only a caller without credentials. *)
AnonymousNeedsNone(requirement, registry, credentials, options) ==
    /\ requirement = <<>> => credentials = <<>>
    /\ \A name \in DOMAIN requirement :
        IF name \notin DOMAIN registry
        THEN ResolveUnknownSchemeHandling(options) = "ignore"
        ELSE SchemeSatisfied(registry[name], requirement[name],
                             CredentialFor(credentials, name))
(* The requirement {} is satisfied by anybody. *)
RequirementSatisfied(requirement, registry, credentials, options) ==
    \A name \in DOMAIN requirement :
        IF name \notin DOMAIN registry
        THEN ResolveUnknownSchemeHandling(options) = "ignore"
        ELSE SchemeSatisfied(registry[name], requirement[name],
                             CredentialFor(credentials, name))

Verdict(allowed, anonymous, index) ==
    [allowed |-> allowed, anonymous |-> anonymous, matchedRequirementIndex |-> index,
     throws |-> FALSE]
Denied == Verdict(FALSE, FALSE, Null)

(* The first requirement that is satisfied decides. *)
EvaluateSecurity(value, registry, credentials, options) ==
    LET first == SelectInSeq(value, LAMBDA requirement :
                    RequirementSatisfied(requirement, registry, credentials, options))
    IN  IF IsStrictMode(options) /\ ValidationThrows(value, registry, options)
        THEN [Denied EXCEPT !.throws = TRUE]
        ELSE IF ~IsRequirementList(value) THEN Denied
        ELSE IF value = <<>> THEN Verdict(TRUE, TRUE, Null)
        ELSE IF first = 0 THEN Denied
        ELSE Verdict(TRUE, value[first] = <<>>, first)
=============================================================================
