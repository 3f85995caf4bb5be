------------------------------ MODULE MCStartup ------------------------------
(***************************************************************************)
(* Every way to list two providers' models under two aliases; every        *)
(* provider section; names no header likes; every memory limit; and every  *)
(* body of up to three fields.                                             *)
(***************************************************************************)
EXTENDS Startup

Name(parts, chars) == [parts |-> parts, chars |-> chars]
a   == Name(<<"a">>, "visible")
ab  == Name(<<"a", "b">>, "visible")
m   == Name(<<"m">>, "visible")
bm  == Name(<<"b", "m">>, "visible")
odd == {Name(<<"m">>, "opaque"), Name(<<"m">>, "control")}

SeqsUpTo(S, n) == UNION {[1 .. k -> S] : k \in 0 .. n}

Cand(p, x) == [provider |-> p, model |-> x]
Pairs == {Cand(p, x) : p \in {a, ab}, x \in {m, bm}}

Section(short, base, key, attribution, headers) ==
  [shorthands |-> short, base |-> base, key |-> key,
   attribution |-> attribution, headers |-> headers]
Plain == Section({}, "http", TRUE, FALSE, <<>>)

Team == [team |-> "t", env |-> "prod"]

Start(providers, models, attribution, metrics, routing, buffered, maxBody, h) ==
  [config |-> [provider |-> providers, model |-> models, attribution |-> attribution,
               metrics |-> metrics, routing |-> routing, buffered |-> buffered, maxBody |-> maxBody],
   host |-> h]

Host(version, limit) == [version |-> version, limit |-> limit]
Bare == Host("none", NoLimit)

Two == (a :> Plain) @@ (ab :> Plain)
Chat(cs) == [chat |-> cs]

Listings == {Start(Two, [chat |-> x, fast |-> y], <<>>, "none", TRUE, NoLimit, 4, Bare) :
               x \in SeqsUpTo(Pairs, 2), y \in SeqsUpTo(Pairs, 1)}

\* Provider and model names with slashes in them, and nothing else unusual.
MCListings == Listings

Shorthands == {{}, {"vertex_ai"}, {"azure_openai"}, {"google_ai"}, {"anthropic"},
               {"vertex_ai", "anthropic"}}
HeaderLists == {<<>>, <<"x">>, <<"x", "x">>, <<"authorization">>}
Sections ==
  {Start(a :> Section(s, base, key, attr, hs), Chat(<<Cand(a, m)>>), labels,
         "other", TRUE, NoLimit, 4, Bare) :
     s \in Shorthands, base \in {"none", "http", "other"}, key \in BOOLEAN,
     attr \in BOOLEAN, hs \in HeaderLists, labels \in {<<>>, Team}}

Odds ==
  {Start(a :> Plain, Chat(<<Cand(p, x)>>), <<>>, metrics, routing, NoLimit, 4, Bare) :
     p \in {a, ab}, x \in {m} \cup odd, metrics \in {"none", "same"}, routing \in BOOLEAN}

Memories ==
  {Start(a :> Plain, Chat(<<Cand(a, m)>>), <<>>, "none", TRUE, buffered, maxBody, h) :
     buffered \in {NoLimit, 0, 20}, maxBody \in {4, 20},
     h \in {Host(v, n) : v \in {"v1", "v2"}, n \in {NoLimit, 0, 9, 99, 100}}}

MCStarts == Listings \cup Sections \cup Odds \cup Memories

Fields == {Field("model", Raw("chat")), Field("model", Raw("fast")),
           Field("stream", Raw("true")), Field("stream", Raw("1")),
           Field("labels", Object([team |-> "client", run |-> "7"])),
           Field("labels", Raw("3")), Field("messages", Raw("x"))}

MCInputs == SeqsUpTo(Fields, 3)
=============================================================================
