--------------------------- MODULE MCServerProcess ---------------------------
(* Environments and files that are complete, incomplete or contradictory in *)
(* one place or two, and a server with two connections.                     *)
EXTENDS ServerProcess

With(values, v, x) == [values EXCEPT ![v] = x]

Nothing == [v \in Variables |-> Absent]
GitHubOnly == [v \in Variables |-> IF v[1] = "GITHUB" THEN "good" ELSE Absent]

MCEnvironments == {
  Nothing,
  GitHubOnly,
  With(GitHubOnly, <<"GITHUB", "CLIENT_SECRET">>, Absent),
  With(GitHubOnly, <<"GITHUB", "CLIENT_SECRET">>, "blank"),
  With(GitHubOnly, <<"GITHUB", "REDIRECT_URL">>, "bad"),
  With(GitHubOnly, <<"GITHUB", "REDIRECT_URL">>, "false"),
  With(GitHubOnly, Cookie, "false"),
  With(GitHubOnly, Certificate, "good")}

Secret(x) == Declaration(<<"GITHUB", "CLIENT_SECRET">>, x)
Google == <<Declaration(<<"GOOGLE", "CLIENT_ID">>, "good"),
            Declaration(<<"GOOGLE", "CLIENT_SECRET">>, "good"),
            Declaration(<<"GOOGLE", "REDIRECT_URL">>, "good")>>

MCFiles == {
  NoFile,
  Unreadable,
  <<Other("comment"), Secret("good"), Secret("blank")>>,
  <<Secret("blank"), Secret("good")>>,
  <<Secret("good"), Declaration(Cookie, "unsettable")>>,
  <<Declaration(Key, "good"), Declaration(Cookie, "good")>>,
  <<Declaration(Cookie, "bad")>>,
  Google,
  Google \o <<Secret("good"), Other("malformed")>>,
  Google \o <<Declaration(<<"GOOGLE", "CLIENT_SECRET">>, "blank")>>}
=============================================================================
