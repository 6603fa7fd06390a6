---------------------------- MODULE MessagePath -----------------------------
(* A signed message on its way: the sender writes a digest of the body and  *)
(* signs, intermediaries write its fields anew, add to the trace and to the *)
(* fields in which they name themselves, and may alter it; the receiver     *)
(* checks the signatures and, asynchronously, the digest.                   *)
(*                                                                          *)
(* The library's functions are the steps.  Signing itself is the            *)
(* application's: a signature is a name that stands for the base it was     *)
(* made over, so that nobody else makes one for another base.               *)
EXTENDS MessageIntegrity, Forwarding

CONSTANTS
    IsScenario(_),    \* a message with what may happen to it
    MaxHops           \* hops of a message (bound)

VARIABLES
    scenario,     \* the message as it was composed, and what may happen to it
    phase,
    message,      \* what is in flight
    body,
    signed,       \* the base each signature was made over
    meant,        \* the values of the components when they were signed
    rewritten,    \* fields whose lines were joined or folded
    altered,      \* something was changed that was not to be changed
    hops,         \* hops made
    trace,        \* [id, entries]: the trace and its entries, newest first
    path,         \* elements of Forwarded, or of the status field
    verdicts,     \* the receiver's verdict on each signature, by label
    hashing,      \* a digest being checked: [content, expected]
    intact        \* the verdict on the digest

vars == <<scenario, phase, message, body, signed, meant, rewritten, altered,
          hops, trace, path, verdicts, hashing, intact>>

----------------------------------------------------------------------------
(* Fields.                                                                  *)

ContentDigest == <<"content-digest">>
SignatureInputField == <<"signature-input">>
SignatureField == <<"signature">>
TraceparentField == <<"traceparent">>
TracestateField == <<"tracestate">>
ForwardedField == <<"forwarded">>
ProxyStatusField == <<"proxy-status">>
CacheStatusField == <<"cache-status">>

LinesOf(msg, name) == IF name \in DOMAIN msg.headers THEN msg.headers[name] ELSE <<>>
(* What a reader of the field gets: its lines, without the blanks around    *)
(* them, in one.                                                            *)
Trimmed(lines) == [i \in DOMAIN lines |-> IF lines[i] = Null THEN Null ELSE Trim(lines[i])]
ValueOf(msg, name) ==
    IF LinesOf(msg, name) = <<>> THEN Null
    ELSE Separated(Trimmed(msg.headers[name]), <<",", " ">>)
WithField(msg, name, lines) == [msg EXCEPT !.headers = (name :> lines) @@ @]
Added(msg, name, line) == WithField(msg, name, Append(LinesOf(msg, name), line))

IfNull(value, Otherwise) == IF value = Null THEN Otherwise ELSE value

Init ==
    /\ IsScenario(scenario)
    /\ message = scenario.message /\ body = scenario.body
    /\ phase = "compose"
    /\ signed = <<>> /\ meant = <<>> /\ rewritten = {} /\ altered = FALSE
    /\ hops = 0 /\ verdicts = <<>> /\ hashing = Null /\ intact = Null
    /\ trace = [id |-> IfNull(ParseTraceparent(IfNull(ValueOf(scenario.message, TraceparentField), <<>>)),
                              [traceId |-> Null]).traceId,
                entries |-> IfNull(EntriesIn(ValueOf(scenario.message, TracestateField)), <<>>)]
    /\ path = IF scenario.message.status = Null
              THEN ParseForwarded(IfNull(ValueOf(scenario.message, ForwardedField), <<>>))
              ELSE <<>>

----------------------------------------------------------------------------
(* The sender.                                                              *)

(* The sender gives a digest the receiver wants, as it reads it in the      *)
(* field in which the receiver says so.                                     *)
Wanted(wants) ==
    LET read == ParseWantDigestField(FormatWantDigestField(wants))
        able == {i \in DOMAIN read : read[i].weight # <<"0">> /\ IsActiveAlgorithm(read[i].algorithm)}
    IN  IF able = {} THEN {Null} ELSE {read[i].algorithm : i \in able}

WithDigest(msg, content, algorithm) ==
    IF algorithm = Null THEN msg
    ELSE WithField(msg, ContentDigest, <<FormatDigestField(<<GenerateDigest(content, algorithm)>>)>>)

Meaning(msg, components) ==
    [i \in DOMAIN components |-> DeriveComponentValue(msg, components[i])]

(* A signer adds its input and its signature as lines of their own. *)
SignWith(msg, input, signature) ==
    Added(Added(msg, SignatureInputField, FormatSignatureInput(<<input>>)),
          SignatureField, FormatSignature(<<Signature(input.label, signature)>>))

Sign(msg, input, signature) ==
    LET base == CreateSignatureBase(msg, input.components, input.params)
    IN  /\ base # Null /\ FormatSignatureInput(<<input>>) # Null
        /\ message' = SignWith(msg, input, signature)
        /\ signed' = (signature :> base) @@ signed
        /\ meant' = (input.label :> [input |-> input, values |-> Meaning(msg, input.components)]) @@ meant

Signable(msg, input) ==
    /\ CreateSignatureBase(msg, input.components, input.params) # Null
    /\ FormatSignatureInput(<<input>>) # Null

Compose ==
    /\ phase = "compose"
    /\ \E algorithm \in Wanted(scenario.wants) : \E msg \in {WithDigest(message, body, algorithm)} :
          IF scenario.input = Null
          THEN /\ message' = msg
               /\ phase' = "travel"
               /\ UNCHANGED <<signed, meant>>
          ELSE IF Signable(msg, scenario.input)
          THEN /\ Sign(msg, scenario.input, <<"s1">>)
               /\ phase' = "travel"
          ELSE phase' = "refused" /\ UNCHANGED <<message, signed, meant>>
    /\ UNCHANGED <<scenario, body, rewritten, altered, hops, trace, path, verdicts, hashing, intact>>

----------------------------------------------------------------------------
(* On the way.                                                              *)

Hop == phase = "travel" /\ hops < MaxHops /\ hops' = hops + 1

Rewrite(name, lines) ==
    /\ message' = WithField(message, name, lines)
    /\ UNCHANGED <<scenario, phase, body, signed, meant, altered, trace, path,
                   verdicts, hashing, intact>>

(* The lines of a field in one. *)
Combine(name) ==
    /\ Hop /\ scenario.reformats
    /\ Len(LinesOf(message, name)) > 1
    /\ Rewrite(name, <<ValueOf(message, name)>>)
    /\ rewritten' = rewritten \cup {name}

Pad(name, i) ==
    /\ Hop /\ scenario.reformats
    /\ Rewrite(name, [message.headers[name] EXCEPT ![i] = <<" ">> \o @ \o <<"\t">>])
    /\ UNCHANGED rewritten

(* A line is folded at a blank; fields that are read as structured values   *)
(* have been unfolded before.                                               *)
PlainFields == {name \in DOMAIN message.headers :
                   name \notin {SignatureInputField, SignatureField, ContentDigest}}
Fold(name, i, at) ==
    /\ Hop /\ scenario.reformats
    /\ name \in PlainFields
    /\ message.headers[name][i][at] = " "
    /\ at > 1 => message.headers[name][i][at - 1] # "\n"
    /\ Rewrite(name, [message.headers[name] EXCEPT ![i] =
                        SubSeq(@, 1, at - 1) \o <<"\n", " ", "\t">> \o From(@, at + 1)])
    /\ rewritten' = rewritten \cup {name}

Reformat ==
    \E name \in DOMAIN message.headers :
        \/ Combine(name)
        \/ \E i \in DOMAIN message.headers[name] :
              \/ Pad(name, i)
              \/ \E at \in DOMAIN message.headers[name][i] : Fold(name, i, at)

(* Another message under the same signature fields, another body with or    *)
(* without its digest, or an input that was read, changed and written back. *)
SignatureFields(msg) ==
    [name \in DOMAIN msg.headers \cap {SignatureInputField, SignatureField} |-> msg.headers[name]]
Transplanted(other) ==
    [other EXCEPT !.headers = SignatureFields(message) @@
        [name \in DOMAIN message.headers \cap {ContentDigest} |-> message.headers[name]] @@ @]

ReplaceMessage ==
    /\ \E other \in scenario.others : message' = Transplanted(other)
    /\ UNCHANGED body

ReplaceBody ==
    \E content \in scenario.bodies, honest \in BOOLEAN, algorithm \in ActiveAlgorithms :
        /\ body' = content
        /\ message' = IF honest THEN WithDigest(message, content, algorithm) ELSE message

ReplaceInput ==
    LET inputs == ParseSignatureInput(ValueOf(message, SignatureInputField))
    IN  /\ inputs # Null
        /\ \E i \in DOMAIN inputs, changed \in scenario.inputs :
              message' = WithField(message, SignatureInputField,
                            <<FormatSignatureInput([inputs EXCEPT ![i] =
                                  [changed EXCEPT !.label = inputs[i].label]])>>)
        /\ UNCHANGED body

Alter ==
    /\ Hop /\ scenario.alters
    /\ ReplaceMessage \/ ReplaceBody \/ ReplaceInput
    /\ altered' = TRUE
    /\ UNCHANGED <<scenario, phase, signed, meant, rewritten, trace, path,
                   verdicts, hashing, intact>>

(* An intermediary signs what it has received, with the sender's signature. *)
Countersign ==
    /\ Hop /\ scenario.counter # Null
    /\ Signable(message, scenario.counter)
    /\ Sign(message, scenario.counter, <<"s2">>)
    /\ UNCHANGED <<scenario, phase, body, rewritten, altered, trace, path,
                   verdicts, hashing, intact>>

(* The trace: a valid parent is taken over or the trace started anew; state *)
(* that cannot be read is dropped.                                          *)
NextTraceparent(current, hop, restart, traceId, parentId) ==
    IF current = Null \/ restart THEN RestartTraceparent(current, traceId, parentId, hop.sampled)
    ELSE UpdateTraceparentParent(current, parentId, hop.sampled)

OwnEntry(hop) == AddOrUpdateTracestate(Null, hop.key, hop.value, TRUE)
NextTracestate(hop, fresh) ==
    IF fresh THEN OwnEntry(hop)
    ELSE IfNull(AddOrUpdateTracestate(ValueOf(message, TracestateField), hop.key, hop.value, TRUE),
                OwnEntry(hop))
WithoutEntry(hop, fresh) ==
    IfNull(RemoveTracestateKey(ValueOf(message, TracestateField), hop.key, ~fresh), <<>>)

(* An element is added as a line, or to the elements that were read. *)
WithElement(msg, element, asLine) ==
    IF asLine THEN Added(msg, ForwardedField, FormatForwarded(<<element>>))
    ELSE WithField(msg, ForwardedField,
            <<FormatForwarded(Append(ParseForwarded(IfNull(ValueOf(msg, ForwardedField), <<>>)),
                                     element))>>)

Relayed(msg, parent, entries, hop, asLine) ==
    WithElement(WithField(WithField(msg, TraceparentField, <<FormatTraceparent(parent)>>),
                          TracestateField, <<FormatTracestate(entries)>>),
                hop.element, asLine)

Relay ==
    /\ Hop /\ message.status = Null
    /\ \E hop \in scenario.hops, restart, asLine \in BOOLEAN,
          traceId \in RandomNonZeroHex(scenario.traceIds),
          parentId \in RandomNonZeroHex(scenario.parentIds) :
          LET current == ParseTraceparent(IfNull(ValueOf(message, TraceparentField), <<>>))
              fresh == restart \/ current = Null
              kept == IF fresh THEN <<>> ELSE WithoutKey(trace.entries, hop.key)
              unreadable == EntriesIn(ValueOf(message, TracestateField)) = Null
              entries == IF hop.value = Null THEN WithoutEntry(hop, fresh) ELSE NextTracestate(hop, fresh)
          IN  /\ message' = Relayed(message, NextTraceparent(current, hop, restart, traceId, parentId),
                                    entries, hop, asLine)
              /\ trace' = [id |-> IF fresh THEN traceId ELSE trace.id,
                           entries |-> IF hop.value = Null THEN entries
                                       ELSE <<Entry(hop.key, hop.value)>>
                                            \o (IF unreadable THEN <<>> ELSE kept)]
              /\ path' = Append(path, hop.element)
    /\ UNCHANGED <<scenario, phase, body, signed, meant, rewritten, altered,
                   verdicts, hashing, intact>>

(* On the way back an intermediary adds to what it has read. *)
StatusOf(field, text) ==
    IF field = ProxyStatusField THEN ParseProxyStatus(text) ELSE ParseCacheStatus(text)
FormatStatusOf(field, entries) ==
    IF field = ProxyStatusField THEN FormatProxyStatus(entries) ELSE FormatCacheStatus(entries)
RelayBack ==
    /\ Hop /\ message.status # Null
    /\ \E entry \in scenario.entries :
          LET field == scenario.statusField
              read == StatusOf(field, IfNull(ValueOf(message, field), <<>>))
          IN  /\ read # Null
              /\ FormatStatusOf(field, Append(read, entry)) # Null
              /\ message' = WithField(message, field, <<FormatStatusOf(field, Append(read, entry))>>)
              /\ path' = Append(path, entry)
    /\ UNCHANGED <<scenario, phase, body, signed, meant, rewritten, altered,
                   trace, verdicts, hashing, intact>>

Arrive ==
    /\ phase = "travel"
    /\ phase' = "arrived"
    /\ UNCHANGED <<scenario, message, body, signed, meant, rewritten, altered,
                   hops, trace, path, verdicts, hashing, intact>>

----------------------------------------------------------------------------
(* The receiver.                                                            *)

(* A label is verified when the base made from the message is the one its   *)
(* signature was made over.                                                 *)
Verified(input, signatures) ==
    LET i == SelectInSeq(signatures, LAMBDA s : s.label = input.label)
        base == CreateSignatureBase(message, input.components, input.params)
    IN  /\ i # 0
        /\ signatures[i].value \in DOMAIN signed
        /\ base # Null /\ base = signed[signatures[i].value]

VerdictsOn(inputs, signatures) ==
    IF inputs = Null \/ signatures = Null THEN <<>>
    ELSE [label \in {inputs[i].label : i \in DOMAIN inputs} |->
            LET input == inputs[SelectInSeq(inputs, LAMBDA n : n.label = label)]
            IN  [input |-> input, verified |-> Verified(input, signatures)]]

CheckSignatures ==
    /\ phase = "arrived"
    /\ verdicts' = VerdictsOn(ParseSignatureInput(IfNull(ValueOf(message, SignatureInputField), <<>>)),
                              ParseSignature(IfNull(ValueOf(message, SignatureField), <<>>)))
    /\ phase' = "checked"
    /\ UNCHANGED <<scenario, message, body, signed, meant, rewritten, altered,
                   hops, trace, path, hashing, intact>>

(* verifyDigest is asked about the body and the digest in the field; the    *)
(* hash is computed while the caller goes on.                               *)
Announced == IfNull(ParseDigestField(IfNull(ValueOf(message, ContentDigest), <<>>)), <<>>)
StartDigest ==
    /\ phase = "checked" /\ Announced # <<>>
    /\ IF IsActiveAlgorithm(Announced[1].algorithm)
       THEN hashing' = [content |-> body, given |-> body, expected |-> Announced[1]]
            /\ phase' = "hashing" /\ UNCHANGED intact
       ELSE intact' = FALSE /\ phase' = "done" /\ UNCHANGED hashing
    /\ UNCHANGED <<scenario, message, body, signed, meant, rewritten, altered,
                   hops, trace, path, verdicts>>

NoDigest ==
    /\ phase = "checked" /\ Announced = <<>>
    /\ phase' = "done"
    /\ UNCHANGED <<scenario, message, body, signed, meant, rewritten, altered,
                   hops, trace, path, verdicts, hashing, intact>>

(* The buffer that held the body is used for the next one. *)
ReuseBuffer ==
    /\ phase = "hashing"
    /\ \E content \in scenario.bodies : body' = content
    /\ UNCHANGED <<scenario, phase, message, signed, meant, rewritten, altered,
                   hops, trace, path, verdicts, hashing, intact>>

(* Mutant: the data is not copied before the wait. *)
LiveContent(copy, buffer) == buffer
(* What is hashed: a copy of the data as it was at the call. *)
HashedContent(copy, buffer) ==
    copy

FinishDigest ==
    /\ phase = "hashing"
    /\ LET computed == GenerateDigest(HashedContent(hashing.content, body),
                                      hashing.expected.algorithm)
       IN  intact' = (/\ computed # Null
                      /\ ConstantTimeEqualBytes(computed.value, hashing.expected.value))
    /\ phase' = "done"
    /\ UNCHANGED <<scenario, message, body, signed, meant, rewritten, altered,
                   hops, trace, path, verdicts, hashing>>

Next == \/ Compose \/ Reformat \/ Alter \/ Countersign \/ Relay \/ RelayBack
        \/ Arrive \/ CheckSignatures \/ StartDigest \/ NoDigest
        \/ ReuseBuffer \/ FinishDigest

Spec == Init /\ [][Next]_vars

----------------------------------------------------------------------------
(* What the receiver may rely on.                                           *)

Judged == phase \in {"checked", "hashing", "done"}

(* What does not survive another way of writing the field: binary-wrapped   *)
(* components, which is what they are for, and a line at either end that is *)
(* blank, whose separator is trimmed once the lines are one.                *)
BlankEdge(lines) == lines # <<>> /\ <<>> \in {Trim(Head(lines)), Trim(Last(lines))}
Fragile(input) ==
    \E i \in DOMAIN input.components :
        LET component == input.components[i]
        IN  /\ component.name \in rewritten
            /\ component.params.bs \/ BlankEdge(LinesOf(scenario.message, component.name))

(* A message that was only written in another way, its lines joined, padded *)
(* or folded, keeps every signature: canonicalizeFieldValue undoes what a   *)
(* hop may do, and the inputs read back are those that were signed.         *)
SignedIsVerified ==
    Judged /\ ~altered =>
        \A label \in DOMAIN meant :
            \/ Fragile(meant[label].input)
            \/ label \in DOMAIN verdicts /\ verdicts[label].verified

(* A line of the base names its component, to the other parser too. *)
ReadBack(components) ==
    \A i \in DOMAIN components :
        ParseComponentIdentifier(FormatComponentIdentifier(components[i])) = components[i]

(* What is accepted was signed: the components under the label are the ones *)
(* that were meant, with the values they had, whatever was altered on the   *)
(* way.  No two sets of values make one base.                               *)
AcceptedIsWhatWasSigned ==
    Judged =>
        \A label \in DOMAIN verdicts :
            verdicts[label].verified =>
                \E signer \in DOMAIN meant :
                    /\ verdicts[label].input.components = meant[signer].input.components
                    /\ verdicts[label].input.params = meant[signer].input.params
                    /\ ReadBack(meant[signer].input.components)
                    /\ Meaning(message, meant[signer].input.components) = meant[signer].values

(* A body that is found intact, under a verified signature that covers its  *)
(* digest, is the sender's: verifyDigest answers about the bytes it was     *)
(* given, even when their buffer is used again before the answer.           *)
CoversDigest(input) ==
    \E i \in DOMAIN input.components :
        input.components[i] = Component(ContentDigest, NoParams)
AcceptedBodyIsTheSignedBody ==
    (intact = TRUE) =>
        \A label \in DOMAIN verdicts :
            verdicts[label].verified /\ CoversDigest(verdicts[label].input) =>
                hashing.given = scenario.body

(* After every hop the next one can read the trace: the id is the one the   *)
(* trace was started with, and the state holds the latest entries, newest   *)
(* first, none of a key that was updated or removed, and at least the last. *)
TraceIsHandedOn ==
    hops > 0 /\ TraceparentField \in DOMAIN message.headers /\ message.status = Null
             /\ trace.entries # <<>> =>
        LET parent == ParseTraceparent(IfNull(ValueOf(message, TraceparentField), <<>>))
            entries == EntriesIn(ValueOf(message, TracestateField))
        IN  /\ parent # Null /\ parent.traceId = trace.id
            /\ entries \notin {Null, <<>>} /\ IsPrefix(entries, trace.entries)

(* The receiver reads the intermediaries in the order in which the message  *)
(* passed them, each with what it said, whether they added a line or wrote  *)
(* the field anew.                                                          *)
ChainIsWhole ==
    /\ ForwardedField \in DOMAIN message.headers /\ message.status = Null =>
          ParseForwarded(ValueOf(message, ForwardedField)) = path
    /\ message.status # Null /\ path # <<>> =>
          StatusOf(scenario.statusField, ValueOf(message, scenario.statusField)) = path
=============================================================================
