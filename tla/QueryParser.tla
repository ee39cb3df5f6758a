------------------------------ MODULE QueryParser ------------------------------
(***************************************************************************)
(* HttpConnection::PreParseGetParam: how the target of a GET request       *)
(* becomes _get_url and _get_params.  Each pass through its loop is a step.*)
(***************************************************************************)
EXTENDS UrlCodec

CONSTANTS
    Targets,    \* request targets, as sequences of bytes
    Forms,      \* forms a client may send: sequences of <<key, value>>
    Path        \* the path they are sent to

ASSUME TargetsAreText == Targets \subseteq Seq(Byte)
ASSUME FormsAreText == Forms \subseteq Seq(Seq(Byte) \X Seq(Byte))
ASSUME PathPlain == Path \in Seq(Byte \ {Question})

VARIABLES
    target,
    form,           \* the form that target encodes, <<>> for any other target
    step,           \* "find", "pairs", "done", or "aborted" by an assert
    _get_url, query_string, _get_params

vars == <<target, form, step, _get_url, query_string, _get_params>>

\* A client encodes a form with UrlEncode.
EncodeField(field) == UrlEncode(field[1]) \o <<Eq>> \o UrlEncode(field[2])

Encode(f) == FlattenSeq([i \in DOMAIN f |-> (IF i = 1 THEN <<>> ELSE <<Amp>>) \o EncodeField(f[i])])

Init ==
    /\ \/ target \in Targets /\ form = <<>>
       \/ form \in Forms /\ target = Path \o <<Question>> \o Encode(form)
    /\ step = "find"
    /\ _get_url = <<>> /\ query_string = <<>> /\ _get_params = <<>>

\* find: the first position of a byte, 0 for npos.
Find(str, b) == SelectInSeq(str, LAMBDA x : x = b)

Prefix(str, pos) == SubSeq(str, 1, pos - 1)
Suffix(str, pos) == SubSeq(str, pos + 1, Len(str))

FindQuery ==
    /\ step = "find"
    /\ LET query_pos == Find(target, Question) IN
       IF query_pos = 0
         THEN step' = "done" /\ _get_url' = target /\ UNCHANGED query_string
         ELSE /\ step' = "pairs"
              /\ _get_url' = Prefix(target, query_pos)
              /\ query_string' = Suffix(target, query_pos)
    /\ UNCHANGED <<target, form, _get_params>>

\* Mutated form of Split: the value begins at the last '='.
SplitAtLast(pair) == SelectLastInSeq(pair, LAMBDA x : x = Eq)

\* Where a pair is split into key and value.
Split(pair) == Find(pair, Eq)

\* Mutated form of Store: a key keeps the first value it was given.
StoreFirst(key, value) ==
    [k \in DOMAIN _get_params \cup {key} |-> IF k \in DOMAIN _get_params THEN _get_params[k] ELSE value]

\* _get_params[key] = value
Store(key, value) ==
    [k \in DOMAIN _get_params \cup {key} |-> IF k = key THEN value ELSE _get_params[k]]

\* A pair without '=' is skipped; key and value are decoded, or the program
\* stops in one of the two.
Put(pair, next) ==
    LET eq_pos == Split(pair) IN
    IF eq_pos = 0
      THEN step' = next /\ UNCHANGED _get_params
      ELSE LET keys == UrlDecode(Prefix(pair, eq_pos))
               values == UrlDecode(Suffix(pair, eq_pos)) IN
           IF keys = {} \/ values = {}
             THEN step' = "aborted" /\ UNCHANGED _get_params
             ELSE /\ step' = next
                  /\ \E key \in keys, value \in values : _get_params' = Store(key, value)

NextPair ==
    /\ step = "pairs"
    /\ LET pos == Find(query_string, Amp) IN
       /\ pos # 0
       /\ Put(Prefix(query_string, pos), "pairs")
       /\ query_string' = Suffix(query_string, pos)
    /\ UNCHANGED <<target, form, _get_url>>

LastPair ==
    /\ step = "pairs"
    /\ Find(query_string, Amp) = 0
    /\ Put(query_string, "done")
    /\ UNCHANGED <<target, form, _get_url, query_string>>

Ended == step \in {"done", "aborted"} /\ UNCHANGED vars

Next == FindQuery \/ NextPair \/ LastPair \/ Ended

Spec == Init /\ [][Next]_vars
-------------------------------------------------------------------------------
(* Properties                                                              *)

\* Decoding yields bytes, whatever letters follow a percent sign.
TypeOK ==
    /\ step \in {"find", "pairs", "done", "aborted"}
    /\ _get_url \in Seq(Byte) /\ query_string \in Seq(Byte)
    /\ DOMAIN _get_params \subseteq Seq(Byte)
    /\ \A k \in DOMAIN _get_params : _get_params[k] \in Seq(Byte)

\* A reference definition without a loop.  The fields of a query are its
\* longest parts without '&' that hold an '='; first comes the field's
\* start, then its decoded key and value, if it can be decoded.
Query == LET at == Find(target, Question) IN IF at = 0 THEN <<>> ELSE Suffix(target, at)

Fields ==
    {f \in (1..Len(Query)) \X (1..Len(Query)) :
        /\ \A k \in f[1]..f[2] : Query[k] # Amp
        /\ f[1] = 1 \/ Query[f[1] - 1] = Amp
        /\ f[2] = Len(Query) \/ Query[f[2] + 1] = Amp
        /\ \E k \in f[1]..f[2] : Query[k] = Eq}

Decoded(field) ==
    LET e == CHOOSE e \in field[1]..field[2] :
                Query[e] = Eq /\ \A k \in field[1]..e - 1 : Query[k] # Eq
    IN UrlDecode(SubSeq(Query, field[1], e - 1)) \X UrlDecode(SubSeq(Query, e + 1, field[2]))

\* Every field of the query is a parameter with its own value, the last of
\* those with its key, and nothing else is; the program stops exactly when
\* one of the fields has a malformed escape.
ParsesEveryField ==
    /\ step = "aborted" => \E f \in Fields : Decoded(f) = {}
    /\ step = "done" =>
        /\ \A f \in Fields : Decoded(f) # {}
        /\ {<<k, _get_params[k]>> : k \in DOMAIN _get_params} =
             UNION {Decoded(f) : f \in {f \in Fields :
                \A g \in Fields : g[1] > f[1] => \A d \in Decoded(f), x \in Decoded(g) : x[1] # d[1]}}

\* A form that UrlEncode encoded arrives as it was, whatever bytes it holds,
\* and never stops the program.
FormsSurvive ==
    form # <<>> =>
        /\ step # "aborted"
        /\ step = "done" =>
            /\ _get_url = Path
            /\ \A i \in DOMAIN form :
                  (\A j \in DOMAIN form : j > i => form[j][1] # form[i][1]) =>
                      form[i][1] \in DOMAIN _get_params /\ _get_params[form[i][1]] = form[i][2]
===============================================================================
