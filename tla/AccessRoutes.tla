---------------------------- MODULE AccessRoutes ----------------------------
(***************************************************************************)
(* The routes of the API and who the seed lets use them: a controller is a *)
(* record with one field for each of its handlers, and a handler is what   *)
(* its decorators, and the first check of its service, ask of a request.   *)
(***************************************************************************)
EXTENDS Sequences

\* guards: @UseGuards of the class, then of the method.  scope: @BranchScope.
\* all and any: @Permissions and @AnyPermissions of both.  asked: permissions
\* that the service asks for itself.  audience: whom the service serves.
Route(guards, write, scope, codes) ==
    [guards |-> guards, write |-> write, scope |-> scope, super |-> FALSE,
     all |-> codes, any |-> {}, asked |-> {}, audience |-> "ANY"]

Read(guards, scope, codes) == Route(guards, FALSE, scope, codes)
Write(guards, scope, codes) == Route(guards, TRUE, scope, codes)

SuperAdminOnly(route) == [route EXCEPT !.super = TRUE]
AnyPermissions(route, codes) == [route EXCEPT !.any = codes]
Asks(route, codes) == [route EXCEPT !.asked = codes]
Serves(audience, route) == [route EXCEPT !.audience = audience]
AllServe(audience, table) == [h \in DOMAIN table |-> Serves(audience, table[h])]

\* The usual guards.
Signed == <<"JWT">>
SignedCsrf == <<"JWT", "CSRF">>
Management == <<"JWT", "SUPER", "CSRF", "BRANCH", "PERMISSIONS">>
Permitted == <<"JWT", "CSRF", "PERMISSIONS">>
Scoped == <<"JWT", "BRANCH", "PERMISSIONS">>
ScopedCsrf == Scoped \o <<"CSRF">>
Public == <<>>

-----------------------------------------------------------------------------
(* Accounts, sessions and passwords. *)

AuthController ==
    [register |-> Write(<<"THROTTLE", "CSRF">>, "NONE", {}),
     login    |-> Write(<<"THROTTLE", "CSRF">>, "NONE", {}),
     logout   |-> Write(<<"THROTTLE", "CSRF">>, "NONE", {}),
     refresh  |-> Write(<<"THROTTLE", "CSRF">>, "NONE", {})]

AuthReads ==
    [me             |-> Read(<<"THROTTLE", "JWT">>, "NONE", {}),
     csrfToken      |-> Read(<<"THROTTLE">>, "NONE", {}),
     googleCallback |-> Read(<<"THROTTLE", "GOOGLE">>, "NONE", {})]

PasswordRecoveryController ==
    [forgotPassword |-> Write(<<"THROTTLE", "CSRF">>, "NONE", {}),
     validateToken  |-> Write(<<"THROTTLE", "CSRF">>, "NONE", {}),
     resetPassword  |-> Write(<<"THROTTLE", "CSRF">>, "NONE", {})]

UsersController ==
    AllServe("SUPER_ADMIN",
        [create   |-> Write(Permitted, "NONE", {"users.create"}),
         findAll  |-> Read(Permitted, "NONE", {"users.read"}),
         findOne  |-> Read(Permitted, "NONE", {"users.read"}),
         activate |-> Write(Permitted, "NONE", {"users.update"}),
         update   |-> Write(Permitted, "NONE", {"users.update"}),
         remove   |-> Write(Permitted, "NONE", {"users.delete"})])

(* Roles, permissions, branches and those who work there. *)

RolesController ==
    [list             |-> Read(Management, "OPTIONAL", {"roles.read"}),
     get              |-> Read(Management, "OPTIONAL", {"roles.read"}),
     create           |-> Serves("SUPER_ADMIN", Write(Management, "NONE", {"roles.create"})),
     update           |-> Serves("SUPER_ADMIN", Write(Management, "NONE", {"roles.update"})),
     deactivate       |-> Serves("SUPER_ADMIN", Write(Management, "NONE", {"roles.delete"})),
     permissions      |-> Read(Management, "NONE", {"roles.read"}),
     assignPermission |-> Write(Management, "NONE", {"roles.assign_permission"}),
     removePermission |-> Write(Management, "NONE", {"roles.assign_permission"})]

PermissionsController ==
    [list   |-> Read(Management, "OPTIONAL", {"permissions.read"}),
     get    |-> Read(Management, "OPTIONAL", {"permissions.read"}),
     create |-> Serves("SUPER_ADMIN", Write(Management, "NONE", {"permissions.create"})),
     update |-> Serves("SUPER_ADMIN", Write(Management, "NONE", {"permissions.update"})),
     remove |-> Serves("SUPER_ADMIN", Write(Management, "NONE", {"permissions.delete"}))]

BranchesController ==
    [list       |-> Read(Management, "OPTIONAL", {"branches.read"}),
     get        |-> Read(Management, "OPTIONAL", {"branches.read"}),
     create     |-> Serves("SUPER_ADMIN", Write(Management, "NONE", {"branches.create"})),
     update     |-> Serves("SUPER_ADMIN", Write(Management, "OPTIONAL", {"branches.update"})),
     deactivate |-> Serves("SUPER_ADMIN", Write(Management, "OPTIONAL", {"branches.delete"}))]

BranchAdminsController ==
    LET reads == Read(Management, "NONE", {"users.read", "branches.read"})
        writes == Write(Management, "NONE", {"branch_admin.assign", "branches.assign"})
    IN  AllServe("SUPER_ADMIN",
            [list |-> reads, get |-> reads, create |-> writes, convert |-> writes,
             assignBranch |-> writes, activateBranch |-> writes, deactivateBranch |-> writes,
             removeBranch |-> writes, primary |-> writes])

\* One field for each permission that assignableRoles asks for.
StaffCatalogs ==
    LET offered == Read(Management, "REQUIRED", {})
    IN  [assignablePermissions   |-> Asks(offered, {"staff.assign_permission"}),
         assignableRolesToCreate |-> Asks(offered, {"staff.create"}),
         assignableRoles         |-> Asks(offered, {"staff.assign_role"}),
         list        |-> Read(Management, "REQUIRED", {"staff.read"}),
         candidates  |-> Serves("SUPER_ADMIN", SuperAdminOnly(
                             Read(Management, "REQUIRED", {"staff.create"}))),
         assignments |-> Serves("SUPER_ADMIN", Read(Management, "NONE", {"staff.read"}))]

StaffAccounts ==
    [get            |-> Read(Management, "REQUIRED", {"staff.read"}),
     create         |-> Write(Management, "REQUIRED", {"staff.create"}),
     assignExisting |-> Serves("SUPER_ADMIN", SuperAdminOnly(
                            Write(Management, "REQUIRED", {"staff.create"}))),
     convert        |-> Serves("SUPER_ADMIN",
                            Write(Management, "NONE", {"staff.create", "branches.assign"})),
     transferBranch |-> Serves("SUPER_ADMIN",
                            Write(Management, "NONE", {"staff.assign_branch"})),
     update         |-> Write(Management, "REQUIRED", {"staff.update"}),
     disable        |-> Write(Management, "REQUIRED", {"staff.delete"})]

StaffGrants ==
    [assignRole       |-> Write(Management, "REQUIRED", {"staff.assign_role"}),
     removeRole       |-> Write(Management, "REQUIRED", {"staff.assign_role"}),
     permission       |-> Write(Management, "REQUIRED", {"staff.assign_permission"}),
     removePermission |-> Write(Management, "REQUIRED", {"staff.assign_permission"})]

StaffPlacement ==
    LET places == Serves("SUPER_ADMIN", Write(Management, "NONE", {"staff.assign_branch"}))
    IN  [assignBranch |-> places, activateBranch |-> places, deactivateBranch |-> places,
         removeBranch |-> places, primary |-> places]

(* The catalog and the stock. *)

\* The registers that no branch scope is declared for.
Register(read, create, update, delete) ==
    [list   |-> Read(Permitted, "NONE", {read}),
     get    |-> Read(Permitted, "NONE", {read}),
     create |-> Write(Permitted, "NONE", {create}),
     update |-> Write(Permitted, "NONE", {update}),
     remove |-> Write(Permitted, "NONE", {delete})]

AuthorsController ==
    Register("authors.read", "authors.create", "authors.update", "authors.delete")
PublishersController ==
    Register("publishers.read", "publishers.create", "publishers.update", "publishers.delete")
ProductAttributesController ==
    Register("product_attributes.read", "product_attributes.create",
             "product_attributes.update", "product_attributes.delete")

CategoriesController ==
    [tree        |-> Read(Permitted, "NONE", {"categories.read"}),
     get         |-> Read(Permitted, "NONE", {"categories.read"}),
     create      |-> Write(Permitted, "NONE", {"categories.create"}),
     update      |-> Write(Permitted, "NONE", {"categories.update"}),
     uploadImage |-> Write(Permitted, "NONE", {"categories.update"}),
     removeImage |-> Write(Permitted, "NONE", {"categories.update"}),
     remove      |-> Write(Permitted, "NONE", {"categories.delete"})]

SuppliersController ==
    LET guards == <<"JWT", "CSRF", "BRANCH", "PERMISSIONS">>
    IN  [list   |-> AnyPermissions(Read(guards, "OPTIONAL", {}),
                        {"suppliers.read", "stock_receipts.create", "stock_receipts.update"}),
         get    |-> Read(guards, "OPTIONAL", {"suppliers.read"}),
         create |-> Write(guards, "OPTIONAL", {"suppliers.create"}),
         update |-> Write(guards, "OPTIONAL", {"suppliers.update"}),
         remove |-> Write(guards, "OPTIONAL", {"suppliers.delete"})]

ProductReads == Read(Scoped, "OPTIONAL", {"products.read"})
ProductWrites == Write(ScopedCsrf, "OPTIONAL", {"products.update"})

ProductsController ==
    [list         |-> ProductReads,
     create       |-> Write(ScopedCsrf, "OPTIONAL", {"products.create"}),
     get          |-> ProductReads,
     update       |-> ProductWrites,
     updateStatus |-> Write(ScopedCsrf, "OPTIONAL", {"products.publish"}),
     remove       |-> Write(ScopedCsrf, "OPTIONAL", {"products.delete"})]

ProductOptions ==
    [listOptions |-> ProductReads, createOption |-> ProductWrites,
     updateOption |-> ProductWrites, removeOption |-> ProductWrites,
     createOptionValue |-> ProductWrites, updateOptionValue |-> ProductWrites,
     removeOptionValue |-> ProductWrites]

ProductVariants ==
    [listVariants |-> ProductReads, generatePreview |-> ProductWrites,
     bulkCreateVariants |-> ProductWrites, createVariant |-> ProductWrites,
     getVariant |-> ProductReads, setDefaultVariant |-> ProductWrites,
     updateVariant |-> ProductWrites, removeVariant |-> ProductWrites]

ProductMediaController ==
    [list |-> ProductReads, upload |-> ProductWrites, update |-> ProductWrites,
     setPrimary |-> ProductWrites, reorder |-> ProductWrites, remove |-> ProductWrites]

OptionValueImages ==
    [uploadOptionValueImage |-> ProductWrites, removeOptionValueImage |-> ProductWrites]

InventoryController ==
    [variantOptions  |-> AnyPermissions(Read(Scoped, "OPTIONAL", {}),
                             {"products.read", "stock_receipts.create", "stock_receipts.update"}),
     stocks          |-> Read(Scoped, "REQUIRED", {"inventory.read"}),
     groupedStocks   |-> Read(Scoped, "REQUIRED", {"inventory.read"}),
     movements       |-> Read(Scoped, "REQUIRED", {"inventory.movements.read"}),
     adjustQuantity  |-> Write(ScopedCsrf, "REQUIRED", {"inventory.adjust_quantity"}),
     updateThreshold |-> Write(ScopedCsrf, "REQUIRED", {"inventory.update_threshold"})]

StockReceiptsController ==
    [list    |-> Read(Scoped, "REQUIRED", {"stock_receipts.read"}),
     create  |-> Write(ScopedCsrf, "REQUIRED", {"stock_receipts.create"}),
     get     |-> Read(Scoped, "REQUIRED", {"stock_receipts.read"}),
     update  |-> Write(ScopedCsrf, "REQUIRED", {"stock_receipts.update"}),
     cancel  |-> Write(ScopedCsrf, "REQUIRED", {"stock_receipts.cancel"}),
     confirm |-> Write(ScopedCsrf, "REQUIRED", {"stock_receipts.confirm"})]

(* Orders and figures. *)

\* A Super Admin reads the orders of a branch and changes none of them.
OrderWrite(code) == Serves("STAFF", Asks(Write(ScopedCsrf, "REQUIRED", {code}), {code}))

AdminOrdersController ==
    [list               |-> Read(Scoped, "REQUIRED", {"orders.read"}),
     detail             |-> Read(Scoped, "REQUIRED", {"orders.read"}),
     transition         |-> OrderWrite("orders.update_status"),
     cancel             |-> OrderWrite("orders.cancel"),
     updateInternalNote |-> OrderWrite("orders.update_note")]

DashboardController == [overview |-> Read(Scoped, "OPTIONAL", {"dashboard.read"})]

RevenueReportsController ==
    LET reports == Read(Scoped, "OPTIONAL", {"reports.revenue.read"})
    IN  [summary |-> reports, trend |-> reports, branches |-> reports, table |-> reports,
         export |-> [reports EXCEPT !.all = @ \cup {"reports.export"}]]

VietMapController ==
    LET finds == Read(<<"JWT", "PERMISSIONS">>, "NONE", {"branches.read"})
    IN  [reverse |-> finds, autocomplete |-> finds, place |-> finds]

AdminReviewsController ==
    [list       |-> SuperAdminOnly(Read(<<"JWT", "SUPER">>, "NONE", {})),
     visibility |-> SuperAdminOnly(Write(<<"JWT", "SUPER", "CSRF">>, "NONE", {}))]

(* Customers. *)

CustomerReads == Serves("CUSTOMER", Read(SignedCsrf, "NONE", {}))
CustomerWrites == Serves("CUSTOMER", Write(SignedCsrf, "NONE", {}))

CartController ==
    [get |-> CustomerReads, add |-> CustomerWrites, update |-> CustomerWrites,
     remove |-> CustomerWrites, changeBranch |-> CustomerWrites]

CheckoutController ==
    [preview |-> CustomerWrites, resolveCurrentLocation |-> CustomerWrites,
     reverseCurrentLocation |->
         Serves("CUSTOMER", Read(SignedCsrf \o <<"THROTTLE">>, "NONE", {})),
     placeCod |-> CustomerWrites, placeVnpay |-> CustomerWrites]

CustomerAccountController ==
    [profile |-> CustomerReads, updateProfile |-> CustomerWrites,
     uploadAvatar |-> CustomerWrites, removeAvatar |-> CustomerWrites,
     changePassword |-> CustomerWrites]

CustomerAddressesController ==
    [list |-> CustomerReads, create |-> CustomerWrites, update |-> CustomerWrites,
     setDefault |-> CustomerWrites, remove |-> CustomerWrites]

CustomerReviewsController ==
    [mine |-> CustomerReads, pending |-> CustomerReads, create |-> CustomerWrites,
     update |-> CustomerWrites, remove |-> CustomerWrites]

WishlistsController ==
    [list |-> CustomerReads, status |-> CustomerReads, add |-> CustomerWrites,
     remove |-> CustomerWrites]

AccountDashboardController == [get |-> Serves("CUSTOMER", Read(Signed, "NONE", {}))]

\* These find only rows of the caller, whoever calls.
CustomerOrdersController ==
    [list |-> Read(Signed, "NONE", {}), detail |-> Read(Signed, "NONE", {}),
     cancel |-> Write(SignedCsrf, "NONE", {}), confirmReceived |-> Write(SignedCsrf, "NONE", {})]

\* The provider calls ipn and returnUrl without a cookie: the signature in the
\* query stands for the caller.
PaymentsController ==
    [ipn |-> Read(Public, "NONE", {}), returnUrl |-> Read(Public, "NONE", {}),
     status |-> Read(Signed, "NONE", {}), retry |-> Write(SignedCsrf, "NONE", {}),
     queryProvider |-> Write(SignedCsrf, "NONE", {})]

PaymentTransactionsController == [query |-> Write(SignedCsrf, "NONE", {})]

(* Everybody. *)

StorefrontCatalogController ==
    [h \in {"categories", "home", "products", "searchSuggestions", "productSummaries",
            "relatedProducts", "availability", "detail"} |-> Read(Public, "NONE", {})]
StorefrontBranchesController == [list |-> Read(Public, "NONE", {})]
PublicReviewsController == [list |-> Read(Public, "NONE", {})]
HealthController == [getHealth |-> Read(Public, "NONE", {})]

-----------------------------------------------------------------------------
Controllers ==
    {AuthController, AuthReads, PasswordRecoveryController, UsersController,
     RolesController, PermissionsController, BranchesController, BranchAdminsController,
     StaffCatalogs, StaffAccounts, StaffGrants, StaffPlacement,
     AuthorsController, PublishersController, ProductAttributesController,
     CategoriesController, SuppliersController, ProductsController, ProductOptions,
     ProductVariants, ProductMediaController, OptionValueImages, InventoryController,
     StockReceiptsController, AdminOrdersController, DashboardController,
     RevenueReportsController, VietMapController, AdminReviewsController, CartController,
     CheckoutController, CustomerAccountController, CustomerAddressesController,
     CustomerReviewsController, WishlistsController, AccountDashboardController,
     CustomerOrdersController, PaymentsController, PaymentTransactionsController,
     StorefrontCatalogController, StorefrontBranchesController, PublicReviewsController,
     HealthController}

\* Handlers that ask the same are one route.
Routes == UNION {{c[h] : h \in DOMAIN c} : c \in Controllers}

-----------------------------------------------------------------------------
(* What prisma/catalog.seed.ts puts into permissions and role_permissions. *)

\* permissionCatalog: operation of the company, its branches and its orders.
OfficeCodes ==
    {"dashboard.read", "reports.revenue.read", "reports.export",
     "users.read", "users.create", "users.update", "users.delete",
     "staff.read", "staff.create", "staff.update", "staff.delete",
     "staff.assign_role", "staff.assign_permission", "staff.assign_branch",
     "branches.read", "branches.create", "branches.update", "branches.delete",
     "branches.assign"}

RoleAndOrderCodes ==
    {"roles.read", "roles.create", "roles.update", "roles.delete", "roles.assign_permission",
     "permissions.read", "permissions.create", "permissions.update", "permissions.delete",
     "super_admin.assign", "branch_admin.assign",
     "orders.read", "orders.create", "orders.update_status", "orders.cancel",
     "orders.update_note", "reviews.read", "reviews.moderate", "payments.create"}

\* permissionCatalog: the catalog, the stock and what customers do.
ShopCodes ==
    {"products.read", "categories.read", "categories.create", "categories.update",
     "categories.delete", "suppliers.read", "suppliers.create", "suppliers.update",
     "suppliers.delete", "publishers.read", "publishers.create", "publishers.update",
     "publishers.delete", "authors.read", "authors.create", "authors.update",
     "authors.delete", "product_attributes.read", "product_attributes.create",
     "product_attributes.update", "product_attributes.delete"}

StockCodes ==
    {"products.create", "products.update", "products.delete", "products.publish",
     "inventory.read", "inventory.update_threshold", "inventory.adjust_quantity",
     "inventory.movements.read", "stock_receipts.read", "stock_receipts.create",
     "stock_receipts.update", "stock_receipts.cancel", "stock_receipts.confirm",
     "profile.read_own", "profile.update_own", "orders.create_own", "orders.read_own"}

PermissionCatalog == OfficeCodes \cup RoleAndOrderCodes \cup ShopCodes \cup StockCodes

DangerousCodes ==
    {"roles.create", "roles.update", "roles.delete", "roles.assign_permission",
     "permissions.create", "permissions.update", "permissions.delete",
     "branches.create", "branches.update", "branches.delete", "branches.assign",
     "staff.assign_branch", "super_admin.assign", "branch_admin.assign"}

InventoryCodes ==
    {"products.read", "inventory.read", "inventory.update_threshold",
     "inventory.adjust_quantity", "inventory.movements.read", "stock_receipts.read",
     "stock_receipts.create", "stock_receipts.update", "stock_receipts.cancel",
     "stock_receipts.confirm"}

OrderCodes == {"orders.read", "orders.update_status", "orders.cancel", "orders.update_note"}
FigureCodes == {"dashboard.read", "reports.revenue.read", "reports.export"}

\* rolePermissionCodes and STAFF_PERMISSION_CODES.
RoleCodes ==
    [BRANCH_ADMIN |-> FigureCodes \cup OrderCodes \cup InventoryCodes
                      \cup {"staff.read", "staff.create", "staff.update", "staff.delete",
                            "staff.assign_role", "staff.assign_permission",
                            "roles.read", "permissions.read"},
     STAFF     |-> FigureCodes \cup OrderCodes \cup InventoryCodes
                   \cup {"orders.create", "payments.create"},
     CASHIER   |-> OrderCodes \cup {"orders.create", "payments.create"},
     INVENTORY |-> InventoryCodes,
     CUSTOMER  |-> {"profile.read_own", "profile.update_own", "orders.create_own",
                    "orders.read_own"}]
=============================================================================
