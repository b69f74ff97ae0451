------------------------------ MODULE MCTexts ------------------------------
(* The questions that are asked.                                           *)
EXTENDS Texts, FiniteSets

MCHost == <<"m", "e">>

UpTo(n, set) == UNION {[1 .. k -> set] : k \in 0 .. n}

MCPatterns ==
    [about : {"pattern"}, text : UpTo(4, {"a", "b"}) \cup UpTo(3, {"a", "*"}), pattern : UpTo(4, {"a", "b", "*"})]

-----------------------------------------------------------------------------
Cond(field, op, value) == [field |-> field, name |-> "h", op |-> op, value |-> value, cs |-> FALSE]

Conditions ==
    {Cond("from_user", "equals", <<"b">>), Cond("from_domain", "ends_with", <<"a">>),
     Cond("body", "contains", <<"b", "b">>), Cond("body", "not_contains", <<"b", "b">>),
     Cond("body", "not_empty", <<>>), Cond("body", "ends_with", <<" ", "b">>),
     Cond("body", "starts_with", <<"A">>), Cond("rcpt", "not_equals", <<"a">>),
     Cond("rcpt", "contains", <<"b">>), Cond("rcpt", "empty", <<>>), Cond("rcpt", "not_empty", <<>>),
     Cond("header", "not_empty", <<>>), Cond("from", "matches", <<"a", "*", "@", "*">>)}

Matchers ==
    {[conditions |-> <<>>, logic |-> "all"]}
    \cup {[conditions |-> <<c>>, logic |-> "all"] : c \in Conditions}
    \cup {[conditions |-> <<Cond("from_user", "not_equals", <<"b">>), Cond("rcpt", "contains", <<"a">>)>>,
           logic |-> l] : l \in {"all", "any"}}

Mail(sender, text, rcpt, headers) ==
    [header_from |-> sender, envelope_from |-> <<"b">>, from_name |-> <<>>, subject |-> <<>>, text |-> text,
     rcpt |-> rcpt, peer |-> <<"a">>, auth_user |-> <<>>, headers |-> headers]

Headed == [h |-> <<"a">>]
Mails ==
    {Mail(s, t, r, h) : s \in {<<>>, <<"A", "b", "@", "a">>, <<"a", "@", "b", "@", "a">>},
                        t \in {<<>>, <<"a", "b", "b">>, <<"a", "a", "b", "B">>},
                        r \in {<<>>, <<<<"a">>, <<"b">>>>}, h \in {Headed, [x |-> <<>>]}}
    \cup {Mail(<<>>, t, <<>>, Headed) : t \in {<<" ", "\n">>, <<"b", "\n", "b">>, <<" ", "b", "B">>,
                                             <<"\n", "\n", "b", " ", "b">>}}

Group(n, matcher, on) == [id |-> n, matcher |-> matcher, enabled |-> on]

MCSortings ==
    {[about |-> "sorting", mail |-> mail, groups |-> <<Group(1, a, on), Group(2, b, TRUE)>>] :
        mail \in Mails, a \in Matchers, b \in Matchers, on \in BOOLEAN}

-----------------------------------------------------------------------------
Message(n) ==
    [id |-> n, ts |-> 2 * ((n + 1) \div 2), group |-> n % 2, attachments |-> IF n = 3 THEN 1 ELSE 0,
     subject |-> {}, from |-> {}, preview |-> {}, text |-> IF n # 2 THEN {"w"} ELSE {}, html |-> {}]

Stored(from, to) == {Message(n) : n \in from .. to}

Filters ==
    LET all == [start |-> {}, end |-> {}, group |-> {}, attached |-> {}, subject |-> {},
                text |-> {}, body |-> {}, sort |-> "desc", limit |-> 0]
    IN  {all, [all EXCEPT !.group = {1}], [all EXCEPT !.start = {2}, !.end = {4}], [all EXCEPT !.body = {"w"}],
         [all EXCEPT !.attached = {FALSE}]}

(* The store between two pages: some of the oldest go, some come in.       *)
Histories ==
    {[k \in 1 .. 5 |-> Stored(1 + (IF k >= at THEN gone ELSE 0), 5 + (IF k >= at THEN new ELSE 0))] :
        at \in 2 .. 5, gone \in 0 .. 2, new \in 0 .. 2}

MCPagings ==
    {[about |-> "paging", query |-> [f EXCEPT !.sort = sort, !.limit = limit], indexes |-> h] :
        f \in Filters, sort \in {"asc", "desc"}, limit \in {0, 1, 9}, h \in Histories}

-----------------------------------------------------------------------------
Line(key, rest) == [key |-> key, rest |-> rest]

Files ==
    {<<>>,
     <<Line("", <<"#">>), Line("stmp_user", <<" ", "a", " ", "#", "x">>), Line("max_days", <<"1">>),
       Line("max_days", <<"2", ";">>)>>,
     <<Line("stmp_maxsize", <<"2", "k">>), Line("web_url", <<"'", "u", "/", "'">>),
       Line("stmp_tls_listen", <<"7">>), Line("stmp_listen", <<"4", ":", "6">>), Line("other", <<"1">>)>>,
     <<Line("keep_raw", <<"o", "n">>), Line("max_entries", <<"0">>), Line("web_pass", <<"p", "#">>),
       Line("stmp_hostname", <<>>), Line("", <<>>)>>,
     <<Line("push_url", <<"u", "/", ";">>), Line("stmp_maxsize", <<"0">>), Line("data", <<>>),
       Line("web_listen", <<"8">>), Line("retry_queue", <<"x">>)>>}

Patches ==
    {[max_days |-> 10], [max_entries |-> 0], [keep_raw |-> TRUE], [retry_queue |-> 3],
     [web_url |-> <<" ", "u", "/", "/">>], [web_url |-> <<"u", "#", "x">>], [push_url |-> <<"'", "u", "'">>],
     [stmp_hostname |-> <<" ">>], [stmp_hostname |-> <<"h", " ", "h">>], [stmp_user |-> <<"u", "=", "u">>],
     [stmp_pass |-> <<"p", ";">>], [stmp_pass |-> <<" ", "p">>], [stmp_maxsize |-> <<"3", " ", "m", "b">>],
     [stmp_maxsize |-> <<"6", "4", "g">>], [stmp_maxsize |-> <<"1", "2", "k">>],
     [stmp_user |-> <<>>, max_entries |-> 12]}

MCChanges == [about : {"change"}, file : Files, patches : [1 .. 2 -> Patches]]

-----------------------------------------------------------------------------
Silent == [comes |-> "connect"]
Reply(status, fields, chunked, pieces, ends, blanks) ==
    [comes |-> "reply", status |-> status, location |-> Nowhere, fields |-> fields, chunked |-> chunked,
     pieces |-> pieces, ends |-> ends, blanks |-> blanks]

Fields == {[x |-> 0], [errcode |-> 0, code |-> 0, Code |-> "OK"], [code |-> 7, errcode |-> 7, Code |-> "E"]}

Firsts ==
    {Silent}
    \cup {Reply(st, f, ch, n, "closed", 0) : st \in {200, 400, 429, 503}, f \in Fields, ch \in BOOLEAN,
                                            n \in {0, 3, 6, 7}}
    \cup {Reply(200, f, ch, n, e, b) : f \in Fields, ch \in BOOLEAN, n \in {0, 5, 12},
                                      e \in {"abrupt", "open"}, b \in {0, 3}}
    \cup {Reply(400, f, FALSE, 12, "open", 0) : f \in Fields}

Seconds ==
    {Silent} \cup {Reply(st, f, ch, n, "closed", 0) : st \in {200, 404}, f \in Fields, ch \in BOOLEAN, n \in {3, 7}}
             \cup {Reply(200, f, FALSE, 7, "open", 0) : f \in Fields}

Redirects ==
    {[Reply(st, [x |-> 0], FALSE, 4, "closed", 0) EXCEPT !.location = l] :
        st \in {302, 304, 307},
        l \in {[kind |-> "absolute", url |-> [host |-> "h", path |-> <<"p">>]],
               [kind |-> "absolute", url |-> BadUrl],
               [kind |-> "rooted", path |-> <<"r">>], [kind |-> "relative", path |-> "s"]}}

Scripts ==
    {<<a, b>> : a \in Firsts, b \in Seconds} \cup {<<r, a>> : r \in Redirects, a \in Seconds}
    \cup {<<Silent, r, a>> : r \in Redirects, a \in Seconds} \cup {<<r>> : r \in Redirects}

MCDeliveries ==
    {[about |-> "delivery", kind |-> k, payload |-> [title |-> <<"a", "b", "c">>, body |-> b], script |-> s] :
        k \in {"ntfy", "wecom", "feishu", "aliyunsms"}, b \in {<<"d">>}, s \in Scripts}

-----------------------------------------------------------------------------
Wide == <<195, 169>>
Titles ==
    UpTo(4, {<<97>>, <<32>>, Wide, <<13>>}) \cup {<<<<61>>, <<63>>, <<97>>, <<63>>, <<81>>, <<63>>, <<98>>,
                                                   <<63>>, <<61>>>>}

MCNotes ==
    [about : {"note"}, title : Titles, body : {<<>>, <<46>>, <<97, 13, 10, 46, 10, 98>>, <<195, 169, 97, 32>>}]

-----------------------------------------------------------------------------
Part(mime, data, encoding, called, name) ==
    [mime |-> mime, data |-> data, encoding |-> encoding, called |-> called, name |-> name, words |-> <<>>]

HtmlPart(data, words) == [Part(Mime!Html, data, Mime!QuotedPrintable, <<>>, <<>>) EXCEPT !.words = words]
Tag(name) == <<Mime!Lt>> \o name \o <<Mime!Gt>>
End(name) == Tag(<<Mime!Slash>> \o name)
Br == <<Mime!Br>>
Td == <<Mime!Td>>
Script == <<Mime!Script>>

Named(called) == <<59, Mime!Filename, 61>> \o called

Parts ==
    {Part(Mime!Plain, <<46, 97>>, Mime!Base64, <<>>, <<>>),
     Part(Mime!Plain, <<46, 97, 13, 10, 46>>, Mime!Octets, <<>>, <<>>),
     Part(Mime!Plain, <<32, 13, 10>>, Mime!Octets, <<>>, <<>>),
     HtmlPart(Tag(Script) \o <<97, 60, 98>> \o End(Script) \o Tag(Br) \o <<97>> \o End(Br) \o Tag(Br) \o Tag(<<98>>)
          \o <<98, 32, 10, 10, 32, 10, 99, Mime!LtSign>> \o End(<<98>>) \o End(Br),
          <<<<97>>, <<98>>, <<99, 60>>>>),
     HtmlPart(Tag(Td) \o <<Mime!AndSign>> \o End(Td) \o Tag(Td \o <<32, 97>>) \o <<97, Mime!Nbsp, 195, 169>> \o End(Td)
          \o End(Br), <<<<38>>, <<97>>, <<195, 169>>>>),
     Part(Mime!Octets, <<0, 255, 61, 13>>, Mime!Base64, <<97>>, Named(<<97>>)),
     Part(Mime!Octets, <<97>>, Mime!Base64, <<>>, <<59, Mime!Filename, 42, 61, Mime!Utf8, 39, 39, 37, 97, 195, 169>>),
     Part(Mime!Plain, <<>>, Mime!Base64, <<97, 195, 169>>,
          <<59, Mime!Filename, 42, 49, 42, 61, 37, 65, 57, 59, Mime!Filename, 42, 48, 42, 61, Mime!Utf8, 39, 39,
            97, 37, 67, 51>>)}

Node(boundary, parts) == [boundary |-> boundary, parts |-> parts]

MCTrees ==
    {[about |-> "tree", tree |-> t] :
        t \in {Node(<<98>>, <<a>>) : a \in Parts} \cup {Node(<<98>>, <<a, b>>) : a \in Parts, b \in Parts}
              \cup {Node(<<98>>, <<Node(<<99>>, <<a, b>>), c>>) :
                        a \in Parts, b \in Parts, c \in {p \in Parts : p.name = <<>> /\ p.encoding # Mime!Base64}}
              \cup {Node(<<98>>, <<a, Node(<<98, 99>>, <<a>>), b>>) : a \in Parts, b \in Parts}
              \cup {Node(<<98>>, <<Node(<<99>>, <<Node(<<100>>, <<a>>), b>>)>>) : a \in Parts, b \in Parts}}

MCAttachments == [about : {"attachment"}, letters : UpTo(6, {81, 61, 10})]
=============================================================================
