----------------------------- MODULE MCPageApp -----------------------------
EXTENDS PageApp

PageSource(args, content) ==
  [fns |-> <<Fn("page", TRUE, "ores_page")>>, args |-> args, content |-> content]
Generator == [fns |-> <<Fn("generate_static_params", TRUE, "ores_generate")>>,
              args |-> <<>>, content |-> "g1"]

Plain(auth) == <<StrArg("renderer", "mash"), StrArg("delivery", "ssr_only"), StrArg("auth", auth)>>
Hydrated == <<StrArg("renderer", "leptos"), StrArg("delivery", "ssr_hydrate"),
              StrArg("client", "client.rs")>>
StaticOnly == Append(Plain("optional_session"), StrArg("render", "static_only"))
Sourced == Append(Append(Plain("public"), ListArg("data_sources", <<<<"orm", "users">>>>)),
                  IntArg("revalidate_secs", 0))

Page(args, content) ==
  [page |-> PageSource(args, content), gen |-> <<>>, css |-> NoFile, client |-> NoFile]

NoFiles == [f \in SegmentFiles |-> NoFile]
Files(names) == [f \in SegmentFiles |-> IF f \in names THEN "s1" ELSE NoFile]

Home == <<>>
User == <<Static("u"), Dynamic("id")>>
UserTree == <<Static("u"), CatchAll("rest")>>
UserDirs == {<<>>, <<Static("u")>>, User, UserTree}

Site(home, user, root, mid, leaf) ==
  [pages |-> [r \in {Home, User} |-> IF r = Home THEN home ELSE user],
   dirs |-> [d \in UserDirs |-> IF d = <<>> THEN root ELSE IF d = User THEN leaf
                                ELSE IF d = UserTree THEN NoFiles ELSE mid],
   links |-> {}]

HydratedHome == [Page(Hydrated, "h1") EXCEPT !.css = "c1", !.client = "w1"]
UserPage == [Page(StaticOnly, "u1") EXCEPT !.gen = <<Generator>>]

Base == Site(HydratedHome, UserPage, Files({"layout", "error"}), NoFiles, Files({"layout", "not_found"}))
WithRest(site, files) ==
  [site EXCEPT !.pages = [r \in {Home, User, UserTree} |-> IF r = UserTree THEN files ELSE site.pages[r]]]

MCRepos ==
  {Base,
   Site(HydratedHome, [UserPage EXCEPT !.gen = <<>>], NoFiles, NoFiles, NoFiles),
   Site([HydratedHome EXCEPT !.client = NoFile], UserPage, NoFiles, NoFiles, NoFiles),
   Site(Page(Plain("public"), "h2"), Page(Plain("session"), "u2"),
        Files({"not_found", "template", "loading"}), Files({"error"}), Files({"error", "layout"})),
   Site(Page(Plain("public"), "h2"), Page(Sourced, "u3"), NoFiles, NoFiles, NoFiles),
   WithRest(Site(Page(Plain("public"), "h1"), Page(Plain("public"), "u1"), NoFiles, NoFiles, NoFiles),
            Page(Plain("public"), "r1")),
   WithRest(Site(Page(Plain("public"), "h1"), Page(Plain("admin"), "u1"), NoFiles, NoFiles, NoFiles),
            Page(Plain("public"), "r1")),
   [Base EXCEPT !.links = {User}],
   [Base EXCEPT !.dirs[<<>>].layout = Symlink]}

Req(path, method) == [path |-> path, method |-> method, bad |-> FALSE, have |-> {}, dev |-> "none"]

MCRequests ==
  {Req(<<>>, "GET"), [Req(<<>>, "GET") EXCEPT !.have = {<<"wasm", "w1">>}, !.dev = "loopback"],
   Req(<<<<"u">>, <<"7">>>>, "GET"), [Req(<<<<"u">>, <<"7">>>>, "GET") EXCEPT !.bad = TRUE],
   Req(<<<<"u">>, <<"7">>>>, "POST"), Req(<<<<"u">>>>, "POST"), Req(<<<<"u">>>>, "GET"),
   Req(<<<<"u">>, <<"7">>, <<"x">>>>, "POST"), Req(<<<<"static">>, <<"x">>>>, "GET"),
   Req(<<<<"_">>, <<"docs">>>>, "HEAD"), Req(<<<<"_">>, <<"x">>>>, "GET"),
   Req(<<<<"u">>, <<"7">>, EmptySegment>>, "GET")}

MCHooks == {[admits |-> TRUE, rejection |-> TextRejection(0)],
            [admits |-> FALSE, rejection |-> TextRejection(403)],
            [admits |-> FALSE, rejection |-> [status |-> 302, header |-> "bad"]]}
=============================================================================
