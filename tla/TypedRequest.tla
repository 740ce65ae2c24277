---------------------------- MODULE TypedRequest ----------------------------
(***************************************************************************)
(* A request declared at compile time: HttpRequest::make() puts arguments  *)
(* into the groups of its parameters, sendRequest converts them to a URL,  *)
(* headers and a body, and the terminus sends that once for every attempt. *)
(* A multipart's form is only converted by the terminus, which keeps the   *)
(* instance for it.                                                        *)
(*                                                                         *)
(* A text is a sequence of tokens, each a run of characters that matters   *)
(* as a whole: the placeholder of a key, a delimiter, anything else.       *)
(* A value of type TypeString is a view of a text of the caller's, who may *)
(* free it once sendRequest has returned.                                  *)
(***************************************************************************)
EXTENDS Naturals, Sequences, FiniteSets, SequencesExt, FiniteSetsExt

CONSTANTS
    Declarations,   \* sequences of parameters [tag, key, type]
    Template,       \* the path: tokens
    Holder,         \* key -> its placeholder in the path
    Values,         \* type -> the texts an argument of it may have
    Limit,          \* the tokens STR() keeps of a literal
    MaxAttempts

Text == Seq(STRING)
Tags == {"path", "query", "form", "header", "body"}
Count(d, tag) == Cardinality({i \in DOMAIN d : d[i].tag = tag})

\* The static_asserts of HttpRequest.
ASSUME TypedRequestAssumption ==
    /\ \A d \in Declarations :
          /\ d \in Seq([tag : Tags, key : STRING, type : DOMAIN Values])
          /\ \A i \in DOMAIN d : d[i].tag = "path" => d[i].key \in DOMAIN Holder
          /\ Count(d, "body") <= 1
          /\ Count(d, "body") = 0 \/ Count(d, "form") = 0
    /\ Template \in Text /\ \A type \in DOMAIN Values : Values[type] \subseteq Text
    /\ Limit \in Nat /\ MaxAttempts \in Nat

VARIABLES
    decl, args, multipart,  \* the declaration, the arguments, the kind of request
    freed,      \* the caller's texts are gone
    inst,       \* the instance: for each tag its parameters with their values
    request,    \* the converted request
    got         \* what the server got, attempt by attempt

typedVars == <<decl, args, multipart, freed, inst, request, got>>

\* Nothing made or converted yet.
None == [none |-> TRUE]

---------------------------------------------------------------------------
(* HttpRequest.h: declaring and making.                                    *)

\* Mutant: the literal's last character is taken for its terminator.
StrShort(literal) == SubSeq(literal, 1, IF Len(literal) < Limit THEN Len(literal) ELSE Limit - 1)

\* STR(): what is beyond the last place is not there.
Str(literal) == SubSeq(literal, 1, IF Len(literal) < Limit THEN Len(literal) ELSE Limit)

Group(tag, d, values) ==
    FlattenSeq([i \in DOMAIN d |->
        IF d[i].tag = tag THEN <<[tag |-> d[i].tag, key |-> d[i].key,
                                  type |-> d[i].type, value |-> values[i]]>>
        ELSE <<>>])

\* Mutant: the arguments are dealt out group by group.
MakeByGroup(d, values) ==
    LET order == <<"path", "query", "form", "header", "body">>
        before(t) == FoldLeft(LAMBDA n, u : n + Count(d, u), 0,
                              SelectSeq(order, LAMBDA u :
                                  \E i, j \in 1..5 : order[i] = u /\ order[j] = t /\ i < j))
    IN  [t \in Tags |-> [i \in 1..Count(d, t) |->
            [Group(t, d, values)[i] EXCEPT !.value = values[before(t) + i]]]]

\* FilterHttpRequestParams, make() and fillAll: argument i belongs to parameter i.
Make(d, values) == [t \in Tags |-> Group(t, d, values)]

---------------------------------------------------------------------------
(* RequestConverter.h: converting.                                         *)

\* ValueConverter::toString: a double is written with six digits.
TextOf(p) == IF p.type = "float" /\ p.value = <<"1.2345678">> THEN <<"1.23457">> ELSE p.value

ReplaceEach(text, token, by) ==
    FlattenSeq([i \in DOMAIN text |-> IF text[i] = token THEN by ELSE <<text[i]>>])

\* Mutant: only one occurrence of the placeholder is replaced.
FilledOnce(path, params) ==
    LET First(text, token) == {i \in DOMAIN text : text[i] = token
                                   /\ \A j \in 1..(i - 1) : text[j] # token}
    IN  FoldLeft(LAMBDA text, p :
                     FlattenSeq([i \in DOMAIN text |->
                         IF i \in First(text, Holder[p.key]) THEN TextOf(p)
                         ELSE <<text[i]>>]), path, params)

\* The placeholders are replaced parameter by parameter, in the path as it is by then.
Filled(path, params) ==
    LET upTo[n \in 0..Len(params)] ==
            IF n = 0 THEN path
            ELSE ReplaceEach(upTo[n - 1], Holder[params[n].key], TextOf(params[n]))
    IN  upTo[Len(params)]

Items(params) == [i \in DOMAIN params |-> <<params[i].key, TextOf(params[i])>>]

\* Mutant: a header that is there already stays.
HeadersFirst(items) ==
    {items[n] : n \in {n \in DOMAIN items : \A m \in 1..(n - 1) : items[m][1] # items[n][1]}}

\* setRawHeader replaces a header of the same name.
Headers(items) ==
    {items[n] : n \in {n \in DOMAIN items :
                          \A m \in DOMAIN items : m > n => items[m][1] # items[n][1]}}

\* buildBody: the argument of Body, or the form unless the request is a multipart.
Body(i) == IF i["body"] # <<>> THEN TextOf(i["body"][1])
           ELSE IF multipart THEN <<>> ELSE Items(i["form"])

\* convertToQNetworkRequest.
Convert(i) == [path |-> Filled(Str(Template), i["path"]), query |-> Items(i["query"]),
               headers |-> Headers(Items(i["header"])), body |-> Body(i)]

---------------------------------------------------------------------------
(* The server's side: what it makes of a text.                             *)

\* A query or a form item: a plus is a space, and what looks percent-encoded was.
FormDecoded(items) ==
    [i \in DOMAIN items |->
        <<items[i][1], ReplaceEach(ReplaceEach(items[i][2], "+", <<"space">>), "%41", <<"A">>)>>]

\* The URL is parsed after the values are in it: at a question mark the path ends
\* and a query begins, which the declared one replaces.
Cut(text) == Min({i \in DOMAIN text : text[i] = "?"} \cup {Len(text) + 1})
PathOf(text) == ReplaceEach(SubSeq(text, 1, Cut(text) - 1), "%41", <<"A">>)
QueryOf(r) ==
    IF r.query # <<>> \/ Cut(r.path) > Len(r.path) THEN FormDecoded(r.query)
    ELSE <<<<"", SubSeq(r.path, Cut(r.path) + 1, Len(r.path))>>>>

Arrives(r, form) ==
    [path |-> PathOf(r.path), query |-> QueryOf(r), headers |-> r.headers,
     body |-> IF multipart THEN form     \* sendMultipartRawRequest reads no other body
              ELSE IF inst["body"] # <<>> THEN r.body ELSE FormDecoded(r.body)]

---------------------------------------------------------------------------
TypedInit ==
    /\ decl \in Declarations
    /\ args \in {f \in [DOMAIN decl -> UNION {Values[t] : t \in DOMAIN Values}] :
                    \A i \in DOMAIN decl : f[i] \in Values[decl[i].type]}
    /\ multipart \in BOOLEAN
    /\ freed = FALSE /\ inst = None /\ request = None /\ got = <<>>

\* make() and sendRequest, up to the call of the interceptors.
Send ==
    /\ inst = None
    /\ inst' = Make(decl, args)
    /\ request' = Convert(inst')
    /\ UNCHANGED <<decl, args, multipart, freed, got>>

\* The caller's strings go out of scope.
Return ==
    /\ inst # None /\ ~freed
    /\ freed' = TRUE
    /\ UNCHANGED <<decl, args, multipart, inst, request, got>>

\* What a parameter of the kept instance reads as by now.
Now(p) == IF freed /\ p.type = "string" THEN <<"garbage">> ELSE TextOf(p)

\* Mutant: every request is converted by its terminus.
AttemptConverts ==
    /\ inst # None /\ Len(got) < MaxAttempts
    /\ LET late == [t \in Tags |-> [i \in DOMAIN inst[t] |->
                                       [inst[t][i] EXCEPT !.value = Now(inst[t][i])]]]
       IN  got' = Append(got, Arrives(Convert(late), Items(late["form"])))
    /\ UNCHANGED <<decl, args, multipart, freed, inst, request>>

\* The terminus, called at once, late or again: the request as it was converted,
\* with a form built now.
Attempt ==
    /\ inst # None /\ Len(got) < MaxAttempts
    /\ LET form == [i \in DOMAIN inst["form"] |->
                       <<inst["form"][i].key, Now(inst["form"][i])>>]
       IN  got' = Append(got, Arrives(request, form))
    /\ UNCHANGED <<decl, args, multipart, freed, inst, request>>

TypedNext == Send \/ Return \/ Attempt

TypedSpec == TypedInit /\ [][TypedNext]_typedVars

---------------------------------------------------------------------------
\* The parameters with a tag, in the order declared, each with its own argument.
Passed(tag) ==
    FlattenSeq([i \in DOMAIN decl |->
        IF decl[i].tag = tag THEN <<<<decl[i].key, args[i]>>>> ELSE <<>>])

\* Every placeholder with its parameter's argument (the first one's, if several
\* parameters have one key), all at once.
AtOnce ==
    FlattenSeq([n \in DOMAIN Template |->
        LET named == {i \in DOMAIN decl : /\ decl[i].tag = "path"
                                          /\ Holder[decl[i].key] = Template[n]}
        IN  IF named = {} THEN <<Template[n]>> ELSE args[Min(named)]])

Mentions(text, tokens) == \E n \in DOMAIN text : text[n] \in tokens
Plain(i) == ~Mentions(args[i], {"?", "+", "%41", "1.2345678"}
                               \cup {Holder[k] : k \in DOMAIN Holder})

\* Views of texts that were freed before the terminus read them, which only a
\* multipart's form may have.
Viewed == multipart /\ freed /\ \E i \in DOMAIN decl : decl[i].tag = "form" /\ decl[i].type = "string"

\* The headers with the arguments of the last parameter declared for each name.
LastHeaders ==
    {<<decl[i].key, args[i]>> : i \in
        {i \in DOMAIN decl : /\ decl[i].tag = "header"
                             /\ \A j \in DOMAIN decl :
                                   j > i /\ decl[j].tag = "header" => decl[j].key # decl[i].key}}

\* Whatever the order of the declaration, the arguments of make() reach the server
\* under their keys and in their places, the same in every attempt, if they hold no
\* character that a URL or a form gives a meaning.  Two kinds are lost, though their
\* declarations compile: of headers with one name all but the last, and the Body of a
\* multipart, whose server gets the form and nothing else.
ArgumentsArrive ==
    /\ \A i \in DOMAIN decl : Plain(i)
    /\ Len(Template) <= Limit /\ ~Mentions(Template, {"?", "%41"})
    => \A n \in DOMAIN got :
            /\ got[n].path = AtOnce
            /\ got[n].query = Passed("query") /\ got[n].headers = LastHeaders
            /\ (multipart \/ Count(decl, "body") = 0) /\ ~Viewed
                  => got[n].body = Passed("form")
            /\ ~multipart /\ Count(decl, "body") = 1
                  => got[n].body = Passed("body")[1][2]

\* RequestConverter.h:162: replacing one placeholder after the other comes to the
\* same as replacing all at once, as long as no value holds the placeholder of a
\* parameter declared after its own.  (No value is a double.)
ReplacedAsIfAtOnce ==
    /\ request # None /\ Len(Template) <= Limit
    /\ \A i \in DOMAIN decl : decl[i].tag = "path" => decl[i].type # "float"
    /\ \A i, j \in DOMAIN decl :
          decl[i].tag = "path" /\ decl[j].tag = "path" /\ i < j =>
              ~Mentions(args[i], {Holder[decl[j].key]})
    => request.path = AtOnce

\* NetworkClient.h:69: of a request that is no multipart nothing is read after
\* sendRequest has returned, whenever and however often it is sent; of a multipart
\* only the views in its form.
AttemptsAlike ==
    \A m, n \in DOMAIN got :
        /\ [got[m] EXCEPT !.body = <<>>] = [got[n] EXCEPT !.body = <<>>]
        /\ got[m].body # got[n].body => Viewed
=============================================================================
