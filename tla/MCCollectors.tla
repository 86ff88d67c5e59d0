---------------------------- MODULE MCCollectors ----------------------------
(***************************************************************************)
(* The forms of the kernel files that are checked: as many lines and       *)
(* columns as it takes for every limit of a parser, one of them defective. *)
(***************************************************************************)
EXTENDS Collectors

MCName == <<"a", "b", "c">>

\* Files of lines of the same length.
Table(names, n) == [l \in DOMAIN names |-> Line(names[l], n, {})]

Tables(names, ns) == {Table(s, n) : s \in names, n \in ns}

\* One line is too short or has a malformed column.
Defective(files) ==
    UNION {{[f EXCEPT ![l] = Line(f[l].of, k, b \intersect 1..k)] :
                l \in DOMAIN f,
                k \in UNION {{f[i].n, f[i].n - 1} : i \in DOMAIN f} \ {-1},
                b \in {{}} \union {{c} : c \in {1, 2, 3, 4, 6, 7, 8, 9, 10, 11, 12}}} : f \in files}

Forms(names, ns) == Tables(names, ns) \union Defective(Tables(names, ns))

Rearranged(keys) == {SubSeq(p, 1, k) : p \in SetToSeqs(keys), k \in {0, Cardinality(keys) - 1, Cardinality(keys)}}

NetstatGroups ==
    {<<Line("TcpExt", n, 1..n), Line("TcpExt", m, bad \intersect 1..m)>> :
        n \in 1..2, m \in 0..2, bad \in {{}, {1}, {2}}}

NetstatFiles ==
    LET next == <<Line("IpExt", 1, {1}), Line("IpExt", 1, {})>>
        blank == <<Line("", 0, {}), Line("", 0, {})>>
    IN  UNION {{g, SubSeq(g, 1, 1), g \o next, g \o blank \o next, next \o g} : g \in NetstatGroups}

MdArrays ==
    {MdLine("array", <<"word", "raid", "sd", "sd">>, <<>>, "none", FALSE),
     MdLine("array", <<"word", "sd(S)">>, <<>>, "none", FALSE)}

MdLines ==
    MdArrays \union
    {MdLine("blocks", <<>>, <<2, 1>>, "none", FALSE), MdLine("blocks", <<>>, <<>>, "none", FALSE),
     MdLine("progress", <<>>, <<>>, "recovery", TRUE), MdLine("other", <<>>, <<>>, "none", FALSE)}

MdFiles ==
    BoundedSeq(MdLines, 4) \union
    {<<MdLine("array", t, <<>>, "none", FALSE)>> : t \in BoundedSeq({"word"} \union Level \union Member, 4)}

PressureLines ==
    {<<>>, <<Line("some", 4, {})>>, <<Line("full", 4, {})>>, <<Line("some", 2, {})>>,
     <<Line("some", 4, {}), Line("full", 4, {})>>, <<Line("some", 4, {}), Line("full", 4, {3})>>,
     <<Line("some", 4, {}), Line("full", 2, {})>>, <<Line("full", 4, {}), Line("some", 2, {})>>}

FilesOf(lines) ==
    [state : {"absent", "unreadable"}, lines : {<<>>}] \union [state : {"there"}, lines : lines]

Numbers == FilesOf({<<>>, <<Line("", 1, {})>>, <<Line("", 1, {1})>>, <<Line("", 2, {})>>})

MCFiles(collector) ==
    CASE collector = "cpu" -> Forms({<<>>, <<"other">>, <<"cpu">>, <<"cpu", "cpu0", "other">>, <<"other", "cpu", "other">>},
                  {7, 8, 9, 10, 11})
      [] collector = "disk" -> Forms({<<>>, <<"sda">>, <<"other", "sda">>, <<"sda", "sdb", "other">>}, {11, 15})
      [] collector = "network" -> Forms({<<"other", "other">>, <<"other", "other", "lo", "other", "eth0">>}, {12, 16})
      [] collector = "softnet" -> Forms({<<>>, <<"0", "1">>, <<"0", "2">>, <<"1">>}, {2, 3, 10, 11, 13})
      [] collector = "schedstat" -> Forms({<<"other">>, <<"other", "0", "other", "1">>}, {8, 9, 10})
      [] collector = "ipvs" -> Forms({<<>>, <<"other", "other">>, <<"other", "other", "totals">>}, {5, 6})
      [] collector = "load_average" -> Forms({<<>>, <<"averages">>}, {4, 5})
      [] collector = "filefd" -> Forms({<<>>, <<"files">>}, {3})
      [] collector = "uptime" -> Forms({<<>>, <<"times">>}, {2})
      [] collector = "stat" -> Forms(Rearranged(StatKeys \union {"other"}), {1, 2})
      [] collector = "processes" -> Forms(Rearranged(ProcessKeys), {1})
      [] collector = "ram" -> Forms(Rearranged({"MemTotal", "SwapFree", "other"}), {1, 2})
      [] collector = "netstat" -> NetstatFiles
      [] collector = "sockstat" -> Forms({<<>>, <<"TCP">>, <<"TCP", "UDP">>}, {0, 1, 2, 3, 4, 5})
      [] collector = "vmstat" -> Forms({<<>>, <<"nr_free", "nr_dirty">>}, {0, 1, 2})
      [] collector = "arp" -> Forms({<<>>, <<"other">>, <<"other", "ip", "ip">>}, {5, 6})
      [] collector = "systemd" -> Forms({<<>>, <<"a.service", "b.service">>}, {0, 2, 3, 4})
      [] collector = "mdraid" -> MdFiles
      [] collector = "pressure" -> [1..3 -> FilesOf(PressureLines)]
      [] collector = "entropy" -> Numbers
      [] collector = "conntrack" -> [1..2 -> Numbers]
      [] collector = "filesystem" -> BoundedSeq({32, 47, 48, 52, Backslash}, 5)
      [] collector = "ntp" -> [state : -1..5, flags : SUBSET {"nano", "unsync"}, offset : -1..1]

=============================================================================
