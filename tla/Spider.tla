------------------------------- MODULE Spider -------------------------------
(***************************************************************************)
(* The spider (-S http: http.c, httpserver.c): a list of addresses to      *)
(* retrieve, a table of those met, and the robots.txt of the server.       *)
(*                                                                         *)
(* An address is met, and marked, when a link or redirect to it is added   *)
(* to the list; what is refused (other server, too deep, robots.txt) is    *)
(* not marked.  Two addresses are the same page if their uri is and their  *)
(* servers are listed as equivalent.  The program swishspider retrieves a  *)
(* page; the web is constant while it runs.                                *)
(***************************************************************************)
EXTENDS Naturals, Sequences, SequencesExt, FiniteSets

CONSTANTS
  Pages,        \* addresses
  Server,       \* Server[p]: an address's server ...
  Uri,          \* Uri[p]: ... and the rest of it
  Equivalent,   \* EquivalentServer: sets of servers
  Below,        \* Below[v]: uris that begin with v
  Inputs        \* the web, the robots.txt files, IndexDir, MaxDepth

(* A robots.txt is a sequence of its User-agent and Disallow lines.        *)
ASSUME RobotsAssumption ==
  \A x \in Inputs : \A server \in DOMAIN x.robots :
    /\ Len(x.robots[server]) \in Nat
    /\ \A i \in 1..Len(x.robots[server]) :
          x.robots[server][i].field \in {"agent", "disallow"}

(* EquivalentServer directives do not overlap.                             *)
ASSUME EquivalentAssumption ==
  \A v, w \in Equivalent : v = w \/ v \cap w = {}

VARIABLES
  input,     \* a member of Inputs
  next,      \* number of the address in IndexDir being indexed
  servers,   \* servers whose robots.txt was read, the last one first
  urllist,   \* addresses to retrieve, with their depths
  met,       \* url_hash
  got        \* addresses whose documents were indexed, in order

spiderVars == <<input, next, servers, urllist, met, got>>

(* What retrieving a page gives: its kind, and its links in their order or *)
(* the address it moved to; a server's robots.txt as a sequence of lines.  *)
Kind(p) == input.web[p].kind
Links(p) == input.web[p].links
Robots(server) == input.robots[server]

-----------------------------------------------------------------------------
(* httpserver.c                                                            *)

(* equivalentserver.                                                       *)
SameServer(v, w) == v = w \/ \E list \in Equivalent : {v, w} \subseteq list
EquivalentServer(p, q) == SameServer(Server[p], Server[q])

(* Slip: a new record does not end the one before.                         *)
AgentLineKeepingRecord(s, agent) ==
  IF s.of # "specific" /\ agent = "swishspider"
  THEN [state |-> "agent", of |-> "specific", rules |-> {}]
  ELSE [state |-> "agent",
        of |-> IF s.of # "specific" /\ agent = "*" THEN "generic" ELSE s.of,
        rules |-> s.rules]

(* A User-agent line in parserobotstxt.  Of a record's agents the specific *)
(* one stays in force, and drops the rules collected for others.           *)
AgentLine(s, agent) ==
  LET of == IF s.state = "disallow" THEN "skipping" ELSE s.of
  IN  IF of # "specific" /\ agent = "swishspider"
      THEN [state |-> "agent", of |-> "specific", rules |-> {}]
      ELSE [state |-> "agent",
            of |-> IF of # "specific" /\ agent = "*" THEN "generic" ELSE of,
            rules |-> s.rules]

(* A Disallow line; its value may be empty.                                *)
NoValue == ""
DisallowLine(s, value) ==
  [state |-> "disallow", of |-> s.of,
   rules |-> IF s.of = "skipping" \/ value = NoValue THEN s.rules
             ELSE s.rules \cup {value}]

(* One line.  A User-agent line after the specific record ends the parse.  *)
RobotsLine(s, line) ==
  IF s.state = "done" THEN s
  ELSE IF line.field = "disallow" THEN DisallowLine(s, line.value)
  ELSE IF s.state = "disallow" /\ s.of = "specific"
       THEN [state |-> "done", of |-> s.of, rules |-> s.rules]
  ELSE AgentLine(s, line.value)

(* parserobotstxt: the values disallowed.                                  *)
RobotsStart == [state |-> "start", of |-> "skipping", rules |-> {}]
RobotRules(file) ==
  LET parsed[i \in 0..Len(file)] ==
        IF i = 0 THEN RobotsStart ELSE RobotsLine(parsed[i - 1], file[i])
  IN  parsed[Len(file)].rules

(* getserverinfo: the servers known after a look at p's, and which of them *)
(* stands for it.                                                          *)
Knows(known, p) ==
  \E i \in 1..Len(known) : SameServer(known[i], Server[p])
GetServerInfo(known, p) ==
  IF Knows(known, p) THEN known ELSE <<Server[p]>> \o known
ServerInfo(known, p) ==
  LET list == GetServerInfo(known, p)
      fits == {i \in 1..Len(list) : SameServer(list[i], Server[p])}
  IN  list[CHOOSE i \in fits : \A j \in fits : i <= j]

(* urldisallowed, by the robots.txt of that server.                        *)
UrlDisallowed(known, p) ==
  \E v \in RobotRules(Robots(ServerInfo(known, p))) : Uri[p] \in Below[v]

-----------------------------------------------------------------------------
(* http.c                                                                  *)

(* The comparison in http_already_indexed.                                 *)
SamePage(p, q) == p = q \/ (EquivalentServer(p, q) /\ Uri[p] = Uri[q])

TooDeep(depth) == input.maxdepth # 0 /\ depth >= input.maxdepth

(* The addresses of one page, and equivalent servers, give the same; a page *)
(* that has no links has none.                                             *)
ASSUME WebAssumption ==
  /\ IsFiniteSet(Pages)
  /\ \A x \in Inputs :
       /\ x.maxdepth \in Nat
       /\ x.starts \in Seq(Pages)
       /\ \A p \in Pages :
            /\ x.web[p].links \in Seq(Pages)
            /\ x.web[p].kind \in {"html", "moved"} \/ x.web[p].links = <<>>
            /\ Server[p] \in DOMAIN x.robots
            /\ \A q \in Pages :
                 /\ EquivalentServer(p, q) => x.robots[Server[p]] = x.robots[Server[q]]
                 /\ SamePage(p, q) => x.web[p] = x.web[q]

(* What add_url asks first.  What is refused is not marked.  NoContents    *)
(* suffixes are left out.                                                  *)
Permitted(known, p, depth, start) ==
  /\ EquivalentServer(p, start)
  /\ ~TooDeep(depth)
  /\ ~UrlDisallowed(known, p)

(* add_url for each of some links: those that join the list.  The others   *)
(* are not permitted, or the same as an address met or as one before them. *)
AddUrl(list, p, depth, start) ==
  IF /\ Permitted(servers, p, depth, start)
     /\ \A q \in met \cup ToSet(list) : ~SamePage(p, q)
  THEN Append(list, p) ELSE list
Joining(links, depth, start) ==
  LET joined[i \in 0..Len(links)] ==
        IF i = 0 THEN <<>> ELSE AddUrl(joined[i - 1], links[i], depth, start)
  IN  joined[Len(links)]

(* New items go to the end: breadth first.                                 *)
Queued(list, items) == list \o items

(* Slip: nothing is marked.                                                *)
MarkedNone(pages) == met

(* New entries of url_hash.                                                *)
Marked(pages) == met \cup pages

SpiderInit ==
  /\ input \in Inputs
  /\ next = 0 /\ servers = <<>> /\ urllist = <<>> /\ met = {} /\ got = <<>>

(* http_indexpath is called with the next address of IndexDir.             *)
NextStart ==
  /\ urllist = <<>> /\ next < Len(input.starts)
  /\ next' = next + 1
  /\ LET p == input.starts[next + 1]
         known == GetServerInfo(servers, p)
     IN  /\ servers' = known
         /\ IF \/ ~Permitted(known, p, 0, p)
               \/ \E q \in met : SamePage(p, q)
            THEN UNCHANGED <<urllist, met>>
            ELSE /\ urllist' = Queued(<<>>, <<[url |-> p, depth |-> 0]>>)
                 /\ met' = Marked({p})
  /\ UNCHANGED <<input, got>>

(* The first address of the list is retrieved.  "html" and "text" pages    *)
(* are indexed, others ("moved", "gone") not.  The links of an html page   *)
(* are one deeper, the address a page moved to is not.                     *)
Retrieve ==
  /\ urllist # <<>>
  /\ LET page == Head(urllist).url
         links == Links(page)
         depth == Head(urllist).depth + (IF Kind(page) = "html" THEN 1 ELSE 0)
         new == Joining(links, depth, input.starts[next])
         items == [i \in 1..Len(new) |-> [url |-> new[i], depth |-> depth]]
     IN  /\ urllist' = Queued(Tail(urllist), items)
         /\ met' = Marked(ToSet(new))
         /\ got' = IF Kind(page) \in {"html", "text"}
                   THEN Append(got, page) ELSE got
  /\ UNCHANGED <<input, next, servers>>

SpiderNext == NextStart \/ Retrieve

SpiderDone == urllist = <<>> /\ next = Len(input.starts)

-----------------------------------------------------------------------------
(* Properties.                                                             *)

(* robots.txt as its records have it: the agents named above line i and    *)
(* not separated from it by a new record.                                  *)
Field(file, name) == {i \in 1..Len(file) : file[i].field = name}
NewRecord(file, i, j) ==
  \E k \in Field(file, "disallow"), l \in Field(file, "agent") :
     i < k /\ k < l /\ l < j
AgentsOf(file, i) ==
  {file[j].value : j \in {k \in Field(file, "agent") :
                            k < i /\ ~NewRecord(file, k, i)}}
Specific(file) ==
  {i \in Field(file, "agent") : file[i].value = "swishspider"}
RulesOf(file) ==
  {file[i].value :
     i \in {k \in Field(file, "disallow") :
              IF Specific(file) = {} THEN "*" \in AgentsOf(file, k)
              ELSE LET first == CHOOSE f \in Specific(file) :
                                  \A g \in Specific(file) : f <= g
                   IN  first < k /\ ~NewRecord(file, first, k)}} \ {NoValue}

(* The rules obeyed are those of the record for swishspider, which may be  *)
(* empty, or else of the records for *, in whatever order records, agents  *)
(* and rules stand.                                                        *)
RobotsObeyed ==
  \A server \in DOMAIN input.robots :
    RobotRules(Robots(server)) = RulesOf(Robots(server))

(* The pages asked for, of an input x: those that may be followed from an  *)
(* address of IndexDir.                                                    *)
MayFollow(x, p, start) ==
  /\ EquivalentServer(p, start)
  /\ \A v \in RulesOf(x.robots[Server[p]]) : Uri[p] \notin Below[v]

(* The addresses within so many links of start.  A redirect is no link: an *)
(* address that another one near moved to is as near.                      *)
Onward(x, S, kind, start) ==
  S \cup {p \in UNION {ToSet(x.web[q].links) : q \in {r \in S : x.web[r].kind = kind}} :
            MayFollow(x, p, start)}
MovedTo(x, S, start) ==
  LET moves[n \in 0..Cardinality(Pages)] ==
        IF n = 0 THEN S ELSE Onward(x, moves[n - 1], "moved", start)
  IN  moves[Cardinality(Pages)]
Nearest(x, start) == MovedTo(x, {p \in {start} : MayFollow(x, p, start)}, start)
Farther(x, S, start) == MovedTo(x, Onward(x, S, "html", start), start)
Within(x, start, distance) ==
  LET near[n \in 0..distance] ==
        IF n = 0 THEN Nearest(x, start) ELSE Farther(x, near[n - 1], start)
  IN  near[distance]

(* The pages an address of IndexDir asks for.                              *)
Reach(x) == IF x.maxdepth = 0 THEN Cardinality(Pages) ELSE x.maxdepth - 1
Asked(x, start) ==
  {p \in Within(x, start, Reach(x)) : x.web[p].kind \in {"html", "text"}}

(* MaxDepth counts links from an address of IndexDir, but an address is    *)
(* marked with the depth it is first met at.  That is the least one if     *)
(* there are no redirects, which join the end of the list, and one start.  *)
NearestFirst ==
  \/ input.maxdepth = 0
  \/ Len(input.starts) = 1 /\ \A p \in Pages : Kind(p) # "moved"

(* When the list is empty every page asked for has been indexed, under its *)
(* own address or an equivalent one.                                       *)
SpiderComplete ==
  SpiderDone /\ NearestFirst =>
    \A p \in UNION {Asked(input, start) : start \in ToSet(input.starts)} :
      \E q \in ToSet(got) : SamePage(p, q)

(* No page is indexed that none asked for, or twice, also under another    *)
(* server's name, however links and redirects run in circles.              *)
AskedOnce ==
  \A i \in 1..Len(got) :
    /\ \E start \in ToSet(input.starts) : got[i] \in Asked(input, start)
    /\ \A j \in 1..(i - 1) : ~SamePage(got[i], got[j])

(* Every page asked for is indexed, and indexed once.                      *)
EveryPageOnce == SpiderComplete /\ AskedOnce

=============================================================================
