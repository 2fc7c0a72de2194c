------------------------------- MODULE ApiDocs -------------------------------
(***************************************************************************)
(* pkg/docs: the OpenAPI document a service serves is the generated one,   *)
(* with a security scheme spliced in and its servers list pointed at the   *)
(* origin of whoever asks.  A document is the sequence of its lines, and a *)
(* line its indentation, key and value, a sequence of words.               *)
(***************************************************************************)
EXTENDS Integers, Sequences, SequencesExt

Line(depth, key, value) == [depth |-> depth, key |-> key, value |-> value]

\* What the regular expressions componentsLine and openapiLine match, and the
\* two parts of serversBlock.
ComponentsLine(l) == l = Line(0, "components", <<>>)
OpenapiLine(l) == l.depth = 0 /\ l.key = "openapi"
ServersLine(l) == l = Line(0, "servers", <<>>)
UrlLine(l) == l.depth > 0 /\ l.key = "url"

securitySchemesBlock ==
    <<Line(1, "securitySchemes", <<>>), Line(2, "bearerAuth", <<"http", "bearer", "JWT">>)>>

securityBlock == <<Line(0, "security", <<>>), Line(1, "bearerAuth", <<>>)>>

\* ReplaceAllFunc with a function that puts a block after the line matched.
InsertAfter(Matches(_), block, doc) ==
    FlattenSeq([i \in DOMAIN doc |-> IF Matches(doc[i]) THEN <<doc[i]>> \o block
                                     ELSE <<doc[i]>>])

\* Mutant: a document without a components key is left without the scheme.
withSecuritySchemeIfComponents(doc) ==
    InsertAfter(OpenapiLine, securityBlock,
                InsertAfter(ComponentsLine, securitySchemesBlock, doc))

withSecurityScheme(doc) ==
    LET out == InsertAfter(ComponentsLine, securitySchemesBlock, doc)
        all == IF out = doc
               THEN out \o <<Line(0, "components", <<>>)>> \o securitySchemesBlock
               ELSE out
    IN  InsertAfter(OpenapiLine, securityBlock, all)

\* r has the request's Host and TLS, and the headers of a proxy, or "".
origin(r) ==
    <<IF r.forwardedProto # "" THEN r.forwardedProto
      ELSE IF r.tls THEN "https" ELSE "http",
      IF r.forwardedHost # "" THEN r.forwardedHost ELSE r.host>>

\* A line of the list below a servers line.
InServers(doc, i) ==
    \E s \in 1 .. i - 1 : ServersLine(doc[s]) /\ \A j \in s + 1 .. i : UrlLine(doc[j])

handleSpec(doc, r) ==
    FlattenSeq([i \in DOMAIN doc |->
        IF ServersLine(doc[i]) /\ i < Len(doc) /\ UrlLine(doc[i + 1])
        THEN <<doc[i], Line(1, "url", origin(r))>>
        ELSE IF InServers(doc, i) THEN <<>>
        ELSE <<doc[i]>>])

-----------------------------------------------------------------------------
(* What is expected of the generator, and what of the document served.     *)

Top(doc, key) == {i \in DOMAIN doc : doc[i] = Line(0, key, <<>>)}

\* docs.go:71-73 and 112-122: protoc-gen-openapi writes the openapi key, once and
\* before components, which it writes once at most; it writes no security scheme,
\* and urls of servers in the one list of them only.
Document(doc) ==
    /\ doc \in Seq([depth : Nat, key : STRING, value : Seq(STRING)])
    /\ \E i \in DOMAIN doc :
         /\ OpenapiLine(doc[i])
         /\ \A j \in DOMAIN doc : OpenapiLine(doc[j]) => j = i
         /\ \A j \in DOMAIN doc : ComponentsLine(doc[j]) => j > i
    /\ \A i, j \in Top(doc, "components") : i = j
    /\ Top(doc, "security") = {}
    /\ \A i \in DOMAIN doc : doc[i].key # "securitySchemes"
    /\ \A i \in DOMAIN doc : doc[i].key = "url" => InServers(doc, i)

\* A document without what the two functions above put into it or rewrite.
Inserted == {"security", "securitySchemes", "bearerAuth", "components", "url"}
Rest(doc) ==
    FlattenSeq([i \in DOMAIN doc |-> IF doc[i].key \in Inserted THEN <<>> ELSE <<doc[i]>>])

\* What a reader r is to get for a generated document.
Sound(doc, generated, r) ==
    /\ \E i \in DOMAIN doc :
         Top(doc, "security") = {i} /\ i > 1 /\ doc[i - 1].key = "openapi"
    /\ \E i \in DOMAIN doc :
         Top(doc, "components") = {i} /\ i < Len(doc) /\ doc[i + 1].key = "securitySchemes"
    /\ \E i \in DOMAIN doc : {j \in DOMAIN doc : doc[j].key = "securitySchemes"} = {i}
    /\ \A i \in DOMAIN doc : doc[i].key = "url" => doc[i].value = origin(r)
    /\ Rest(doc) = Rest(generated)

=============================================================================
