------------------------------ MODULE RawBody -------------------------------
(***************************************************************************)
(* The JSON object of a request as src/body.rs keeps it: top-level keys in *)
(* order, each with the raw slice of its value, and what src/proxy.rs      *)
(* prepare_body writes into it.  A body is a sequence of fields; as the    *)
(* client wrote it, a key may occur more than once.                        *)
(***************************************************************************)
EXTENDS Integers, Sequences, SequencesExt, TLC

\* A raw value: a literal, or an object of labels.
Raw(lit)   == [lit |-> lit, labels |-> <<>>]
Object(ls) == [lit |-> "object", labels |-> ls]
Field(k, v) == [key |-> k, val |-> v]

Keys(body) == {body[n].key : n \in DOMAIN body}
Vals(body) == {body[n].val : n \in DOMAIN body}
FieldsOf(body) == [key : Keys(body), val : Vals(body)]

\* The first and the last place of a key that occurs.
First(body, k) == CHOOSE n \in DOMAIN body :
  body[n].key = k /\ \A p \in DOMAIN body : body[p].key = k => n <= p
LastAt(body, k) == CHOOSE n \in DOMAIN body :
  body[n].key = k /\ \A p \in DOMAIN body : body[p].key = k => p <= n

Value(body, k) == body[First(body, k)].val

\* RawBody::set, and the loop of visit_map: a key that is there keeps its
\* place and takes the new value.
SetField(body, k, v) ==
  IF k \in Keys(body) THEN [body EXCEPT ![First(body, k)].val = v]
  ELSE Append(body, Field(k, v))

\* `get_as::<bool>("stream").unwrap_or(false)`
IsStreaming(body) == "stream" \in Keys(body) /\ Value(body, "stream") = Raw("true")

\* A slip: the client's labels win.
ClientWins(client, sidecar) ==
  [l \in DOMAIN client \cup DOMAIN sidecar |-> IF l \in DOMAIN client THEN client[l] ELSE sidecar[l]]

\* The sidecar's labels over the client's.
Merge(client, sidecar) ==
  [l \in DOMAIN client \cup DOMAIN sidecar |-> IF l \in DOMAIN sidecar THEN sidecar[l] ELSE client[l]]

\* Labels of another shape than an object count as none.
ClientLabels(body) ==
  IF "labels" \in Keys(body) THEN Value(body, "labels").labels ELSE <<>>

\* prepare_body; a provider that did not opt in has no labels (optIn).
PrepareBody(body, model, optIn, sidecar) ==
  LET b == SetField(body, "model", Raw(model))
  IN  IF optIn THEN SetField(b, "labels", Object(Merge(ClientLabels(b), sidecar))) ELSE b

-----------------------------------------------------------------------------
(* What the upstream should get: the last of each key's values, in the     *)
(* order in which the keys first came, the rewritten fields in their place *)
(* or at the end.                                                          *)

Expected(input, model, optIn, sidecar, k) ==
  IF k = "model" THEN Raw(model)
  ELSE IF k = "labels" /\ optIn
  THEN LET client == IF "labels" \in Keys(input)
                     THEN input[LastAt(input, "labels")].val.labels ELSE <<>>
       IN  Object([l \in DOMAIN sidecar \cup (DOMAIN client \ DOMAIN sidecar) |->
                     IF l \in DOMAIN sidecar THEN sidecar[l] ELSE client[l]])
  ELSE input[LastAt(input, k)].val

IsRewrite(input, out, model, optIn, sidecar) ==
  /\ Keys(out) = Keys(input) \cup {"model"} \cup (IF optIn THEN {"labels"} ELSE {})
  /\ \A p, q \in DOMAIN out : p < q =>
       /\ out[p].key # out[q].key
       /\ out[q].key \in Keys(input) =>
            /\ out[p].key \in Keys(input)
            /\ First(input, out[p].key) < First(input, out[q].key)
  /\ \A p \in DOMAIN out : out[p].val = Expected(input, model, optIn, sidecar, out[p].key)
=============================================================================
