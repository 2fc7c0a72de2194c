------------------------------- MODULE UserApi -------------------------------
(***************************************************************************)
(* api/user/v1: the operations of the user centre as the generated code    *)
(* has them: how a client addresses one over HTTP and over gRPC, how a     *)
(* server finds it, and what its request must hold.  A text field is its   *)
(* length, and whether it reads as an email address.                       *)
(***************************************************************************)
EXTENDS Integers

AuthOperation == {"Register", "Login", "Logout", "RefreshToken", "ChangePassword"}
UserOperation == {"GetProfile", "UpdateProfile"}
Operation == AuthOperation \cup UserOperation

-----------------------------------------------------------------------------
(* Addresses.                                                              *)

\* What the generated HTTP clients invoke.
AuthHTTPClient ==
    [Register       |-> [method |-> "POST", path |-> "/v1/auth/register"],
     Login          |-> [method |-> "POST", path |-> "/v1/auth/login"],
     Logout         |-> [method |-> "POST", path |-> "/v1/auth/logout"],
     RefreshToken   |-> [method |-> "POST", path |-> "/v1/auth/refresh"],
     ChangePassword |-> [method |-> "POST", path |-> "/v1/auth/change-password"]]

UserHTTPClient ==
    [GetProfile    |-> [method |-> "GET", path |-> "/v1/users/profile"],
     UpdateProfile |-> [method |-> "PATCH", path |-> "/v1/users/profile"]]

\* RegisterAuthServiceHTTPServer, RegisterUserServiceHTTPServer: the handler of
\* a method and a path.
AuthHTTPRoutes ==
    {[method |-> "POST", path |-> "/v1/auth/register", op |-> "Register"],
     [method |-> "POST", path |-> "/v1/auth/login", op |-> "Login"],
     [method |-> "POST", path |-> "/v1/auth/logout", op |-> "Logout"],
     [method |-> "POST", path |-> "/v1/auth/refresh", op |-> "RefreshToken"],
     [method |-> "POST", path |-> "/v1/auth/change-password", op |-> "ChangePassword"]}

UserHTTPRoutes ==
    {[method |-> "GET", path |-> "/v1/users/profile", op |-> "GetProfile"],
     [method |-> "PATCH", path |-> "/v1/users/profile", op |-> "UpdateProfile"]}

\* The full method names of the gRPC clients and of the service descriptors.
AuthMethod == [op \in AuthOperation |-> <<"user.v1.AuthService", op>>]
UserMethod == [op \in UserOperation |-> <<"user.v1.UserService", op>>]

AuthServiceDesc == {[name |-> <<"user.v1.AuthService", op>>, op |-> op] : op \in AuthOperation}
UserServiceDesc == {[name |-> <<"user.v1.UserService", op>>, op |-> op] : op \in UserOperation}

\* Where a client sends its call of op, and the operations served there.
Address(t, op) ==
    IF op \in AuthOperation
    THEN IF t = "http" THEN AuthHTTPClient[op] ELSE AuthMethod[op]
    ELSE IF t = "http" THEN UserHTTPClient[op] ELSE UserMethod[op]

ServedAt(t, address) ==
    IF t = "http"
    THEN {r.op : r \in {s \in AuthHTTPRoutes \cup UserHTTPRoutes :
                          [method |-> s.method, path |-> s.path] = address}}
    ELSE {d.op : d \in {e \in AuthServiceDesc \cup UserServiceDesc : e.name = address}}

\* The HTTP handlers that bind the body, and those that bind the query.
AuthBinds == [op \in AuthOperation |-> "body"]
UserBinds == [GetProfile |-> "query", UpdateProfile |-> "body"]
Binds == [op \in Operation |-> IF op \in AuthOperation THEN AuthBinds[op] ELSE UserBinds[op]]

-----------------------------------------------------------------------------
(* Requests and their rules.                                               *)

Text == [len : Nat, email : BOOLEAN]
FieldMask == [set : BOOLEAN, paths : SUBSET {"phone", "nickname", "avatar", "email"}]

RegisterRequest == [username : Text, email : Text, password : Text, nickname : Text, phone : Text]
LoginRequest == [username : Text, password : Text]
LogoutRequest == [access_token : Text]
RefreshTokenRequest == [refresh_token : Text]
ChangePasswordRequest == [old_password : Text, new_password : Text]
GetProfileRequest == [{} -> Text]
UpdateProfileRequest == [phone : Text, nickname : Text, avatar : Text, update_mask : FieldMask]

Message(op) ==
    CASE op = "Register" -> RegisterRequest
      [] op = "Login" -> LoginRequest
      [] op = "Logout" -> LogoutRequest
      [] op = "RefreshToken" -> RefreshTokenRequest
      [] op = "ChangePassword" -> ChangePasswordRequest
      [] op = "GetProfile" -> GetProfileRequest
      [] op = "UpdateProfile" -> UpdateProfileRequest

ZeroText == [len |-> 0, email |-> FALSE]
NoMask == [set |-> FALSE, paths |-> {}]

Field(op) ==
    CASE op = "Register" -> {"username", "email", "password", "nickname", "phone"}
      [] op = "Login" -> {"username", "password"}
      [] op = "Logout" -> {"access_token"}
      [] op = "RefreshToken" -> {"refresh_token"}
      [] op = "ChangePassword" -> {"old_password", "new_password"}
      [] op = "GetProfile" -> {}
      [] op = "UpdateProfile" -> {"phone", "nickname", "avatar", "update_mask"}

\* A message nothing was decoded into.
Zero(op) == [f \in Field(op) |-> IF f = "update_mask" THEN NoMask ELSE ZeroText]

\* buf.validate: a required text is not empty; any other is checked when not
\* empty, as no rule here has a least length for a text that may be empty.
Fits(text, min, max) == text.len = 0 \/ text.len \in min .. max
Given(text) == text.len # 0

RegisterRules(m) ==
    {f \in {"username", "email", "password"} : ~Given(m[f])}
    \cup {f \in {"username"} : ~Fits(m[f], 3, 64)}
    \cup {f \in {"email"} : Given(m[f]) /\ ~(m[f].email /\ Fits(m[f], 0, 255))}
    \cup {f \in {"password"} : ~Fits(m[f], 8, 72)}
    \cup {f \in {"nickname"} : ~Fits(m[f], 0, 64)}
    \cup {f \in {"phone"} : ~Fits(m[f], 0, 32)}

LoginRules(m) == {f \in {"username", "password"} : ~Given(m[f])}
RefreshTokenRules(m) == {f \in {"refresh_token"} : ~Given(m[f])}

ChangePasswordRules(m) ==
    {f \in {"old_password", "new_password"} : ~Given(m[f])}
    \cup {f \in {"new_password"} : ~Fits(m[f], 8, 72)}

\* A mask that is set is one of two CEL rules' concern.
UpdateProfileRules(m) ==
    {f \in {"phone"} : ~Fits(m[f], 0, 32)}
    \cup {f \in {"nickname"} : ~Fits(m[f], 0, 64)}
    \cup {f \in {"avatar"} : ~Fits(m[f], 0, 512)}
    \cup {f \in {"update_mask"} : ~m[f].set \/ m[f].paths = {}
                                  \/ ~(m[f].paths \subseteq {"phone", "nickname", "avatar"})}

\* The fields in violation.
Violations(op, m) ==
    CASE op = "Register" -> RegisterRules(m)
      [] op = "Login" -> LoginRules(m)
      [] op = "RefreshToken" -> RefreshTokenRules(m)
      [] op = "ChangePassword" -> ChangePasswordRules(m)
      [] op = "UpdateProfile" -> UpdateProfileRules(m)
      [] op \in {"Logout", "GetProfile"} -> {}

=============================================================================
